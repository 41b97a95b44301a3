-------------------------- MODULE Inventory_proofs ---------------------------
EXTENDS Inventory, StorageMesos, FiniteSetTheorems, WellFoundedInduction, SequenceTheorems, TLAPS

(***************************************************************************)
(* What the operators of Inventory do, for every inventory, item and       *)
(* quantity, and what the operations therefore never do: no unit of an     *)
(* item is lost or made outside the ways the books know (LedgerHolds), no  *)
(* second one of what is one of a kind appears (AtMostOneHolds), the two   *)
(* answers about room agree (SpaceIsSpaceHolds), and sorting and gathering *)
(* leave things in order (TidiesHolds).  At the end, the mesos of the      *)
(* storage (MesosKept).                                                    *)
(*                                                                         *)
(* The operators are folds over slots and sums over slots.  A fold is a    *)
(* recursive function, so the first part shows that such a function        *)
(* exists, with an argument about the smallest subset that would refute    *)
(* it, and carries through it a set W[t] of the values it may have for t.  *)
(* The second part is about sums, the third about each operator in turn,   *)
(* the fourth about the steps.                                             *)
(***************************************************************************)

-----------------------------------------------------------------------------
(* Folds over finite sets.                                                  *)

\* A claim about the subsets of a finite set holds if no smallest subset refutes it.
LEMMA Smallest ==
    ASSUME NEW S, IsFiniteSet(S), NEW B \in SUBSET (SUBSET S), B # {}
    PROVE  \E s \in B : \A t \in B : ~(t \subseteq s /\ t # s)
<1>1. B \subseteq FiniteSubsetsOf(S)
  BY FS_FiniteSubsetsOfFinite
<1>2. PICK s \in B : \A t \in B : <<t, s>> \notin StrictSubsetOrdering(S)
  BY <1>1, WFMin, FS_StrictSubsetOrderingWellFounded
<1> QED BY <1>2 DEF StrictSubsetOrdering

\* What holds of the empty set, and of each set of which it holds without one
\* member, holds of all: J collects the sets of which it holds.
LEMMA Growing ==
    ASSUME NEW S, IsFiniteSet(S), NEW J, {} \in J,
           \A s \in SUBSET S : s # {} => \E x \in s : s \ {x} \in J => s \in J
    PROVE  SUBSET S \subseteq J
<1> DEFINE B == {s \in SUBSET S : s \notin J}
<1> SUFFICES ASSUME B # {} PROVE FALSE OBVIOUS
<1>1. PICK s \in B : \A t \in B : ~(t \subseteq s /\ t # s)
  <2>1. B \in SUBSET (SUBSET S) OBVIOUS
  <2> HIDE DEF B
  <2> QED BY <2>1, Smallest
<1>2. s # {}
  <2>1. s \in B OBVIOUS
  <2>2. ASSUME s = {} PROVE FALSE
    <3>1. {} \in B
      BY <2>1, <2>2
    <3> QED BY <3>1
  <2> QED BY <2>2
<1>3. PICK x \in s : s \ {x} \in J => s \in J
  BY <1>1, <1>2
<1> QED BY <1>1, <1>3

\* A fold that picks its members by pick: what it yields for a subset s is in W[s].
IsFold(h, S, pick, base, F) ==
    h = [s \in SUBSET S |-> IF s = {} THEN base ELSE F[pick[s]][h[s \ {pick[s]}]]]

\* A fold over a finite set is a function that satisfies the fold's equation, and
\* what each step keeps holds of its value: if base is in W[{}] and a step leads
\* from W of the smaller set to W of the larger, then the value for s is in W[s].
LEMMA FoldExists ==
    ASSUME NEW S, IsFiniteSet(S), NEW pick, NEW W, NEW base \in W[{}], NEW F,
           \A s \in SUBSET S : s # {} =>
               pick[s] \in s /\ \A r \in W[s \ {pick[s]}] : F[pick[s]][r] \in W[s]
    PROVE  \E h : IsFold(h, S, pick, base, F) /\ \A s \in SUBSET S : h[s] \in W[s]
<1> DEFINE Val(f, s) == IF s = {} THEN base ELSE F[pick[s]][f[s \ {pick[s]}]]
<1> DEFINE Part(f, s) == \A t \in SUBSET s : f[t] = Val(f, t) /\ f[t] \in W[t]
<1> DEFINE J == {s \in SUBSET S : \E f : Part(f, s)}
<1>0. ASSUME NEW f, NEW s \in SUBSET S, Part(f, s), NEW t \in SUBSET s PROVE Part(f, t)
  BY <1>0
<1>1. ASSUME NEW s \in SUBSET S, NEW f, NEW g, Part(f, s), Part(g, s),
             NEW t \in SUBSET s PROVE f[t] = g[t]
  <2> DEFINE K == {u \in SUBSET s : f[u] = g[u]}
  <2>1. {} \in K
    BY <1>1
  <2>2. \A u \in SUBSET s : u # {} => \E x \in u : u \ {x} \in K => u \in K
    <3> SUFFICES ASSUME NEW u \in SUBSET s, u # {}, u \ {pick[u]} \in K
                 PROVE  pick[u] \in u /\ u \in K
      <4>1. \A u \in SUBSET s : u # {} => pick[u] \in u OBVIOUS
      <4> QED BY <4>1
    <3>1. pick[u] \in u OBVIOUS
    <3>2. f[u] = Val(f, u) /\ g[u] = Val(g, u) /\ f[u \ {pick[u]}] = g[u \ {pick[u]}]
      BY <1>1
    <3> QED BY <3>1, <3>2
  <2>3. IsFiniteSet(s)
    BY FS_Subset
  <2>4. SUBSET s \subseteq K
    <3> HIDE DEF K
    <3> QED BY <2>1, <2>2, <2>3, Growing
  <2> QED BY <2>4
<1>9. \A a \in SUBSET S : \A f, g : Part(f, a) /\ Part(g, a) => f[a] = g[a]
  <2> SUFFICES ASSUME NEW a \in SUBSET S, NEW f, NEW g, Part(f, a), Part(g, a) PROVE f[a] = g[a]
    OBVIOUS
  <2>1. a \in SUBSET a OBVIOUS
  <2> HIDE DEF Part
  <2> QED BY <1>1, <2>1
<1> DEFINE B == {s \in SUBSET S : s \notin J}
<1>2. B = {}
  <2> SUFFICES ASSUME B # {} PROVE FALSE OBVIOUS
  <2>1. PICK s \in B : \A t \in B : ~(t \subseteq s /\ t # s)
    <3>1. B \in SUBSET (SUBSET S) OBVIOUS
    <3> HIDE DEF B
    <3> QED BY <3>1, Smallest
  <2> DEFINE C(t) == CHOOSE f : Part(f, t)
  <2>2. \A t \in SUBSET s : t # s => Part(C(t), t)
    <3> SUFFICES ASSUME NEW t \in SUBSET s, t # s PROVE \E f : Part(f, t)
      <4> HIDE DEF Part
      <4> QED OBVIOUS
    <3>1. t \in J
      <4>1. t \in SUBSET S OBVIOUS
      <4> HIDE DEF J
      <4> QED BY <2>1, <4>1
    <3> QED BY <3>1
  <2> HIDE DEF C, J
  <2> DEFINE g == [t \in SUBSET s |-> IF t = s THEN Val([u \in SUBSET s |-> C(u)[u]], s) ELSE C(t)[t]]
  <2>3. \A t \in SUBSET s : t # {} =>
          pick[t] \in t /\ t \ {pick[t]} \in SUBSET s /\ t \ {pick[t]} # s
    OBVIOUS
  <2>4. \A t \in SUBSET s : t # s => g[t] = Val(g, t) /\ g[t] \in W[t]
    <3> SUFFICES ASSUME NEW t \in SUBSET s, t # s PROVE g[t] = Val(g, t) /\ g[t] \in W[t]
      OBVIOUS
    <3>1. g[t] = C(t)[t] /\ C(t)[t] = Val(C(t), t) /\ C(t)[t] \in W[t]
      BY <2>2
    <3>2. CASE t = {}
      BY <3>1, <3>2
    <3>3. CASE t # {}
      <4> DEFINE u == t \ {pick[t]}
      <4>1. pick[t] \in t /\ u \in SUBSET s /\ u # s /\ u \in SUBSET t /\ u \in SUBSET S /\ u \in SUBSET u
        BY <2>3, <3>3
      <4>2. Part(C(u), u) /\ Part(C(t), t)
        BY <2>2, <4>1
      <4>3. Part(C(t), u)
        <5> HIDE DEF u
        <5> QED BY <4>1, <4>2
      <4>4. C(t)[u] = C(u)[u]
        <5> HIDE DEF u, Part, g, B, Val
        <5>1. u \in SUBSET S /\ u \in SUBSET u
          BY <4>1
        <5>2. Part(C(t), u) /\ Part(C(u), u)
          BY <4>2, <4>3
        <5> QED BY <5>1, <5>2, <1>9
      <4>5. g[u] = C(u)[u]
        BY <4>1
      <4> QED BY <3>1, <3>3, <4>4, <4>5
    <3> QED BY <3>2, <3>3
  <2>5. g[s] = Val(g, s) /\ g[s] \in W[s]
    <3>1. CASE s = {}
      BY <3>1
    <3>2. CASE s # {}
      <4> DEFINE u == s \ {pick[s]}
      <4>1. u \in SUBSET s /\ u # s /\ pick[s] \in s
        BY <2>3, <3>2
      <4>2. g[u] = C(u)[u] /\ g[u] \in W[u]
        BY <2>4, <4>1
      <4>3. g[s] = F[pick[s]][C(u)[u]]
        BY <3>2, <4>1
      <4> HIDE DEF g
      <4> QED BY <3>2, <4>2, <4>3
    <3> QED BY <3>1, <3>2
  <2>6. Part(g, s)
    <3> HIDE DEF g
    <3> QED BY <2>4, <2>5
  <2>7. s \in J
    <3> HIDE DEF g, Part
    <3> QED BY <2>6 DEF J
  <2> QED BY <2>1, <2>7
<1>3. PICK f : Part(f, S)
  <2>1. S \in J
    BY <1>2
  <2> QED BY <2>1
<1> DEFINE h == [s \in SUBSET S |-> f[s]]
<1>4. \A s \in SUBSET S : h[s] = Val(h, s) /\ h[s] \in W[s]
  BY <1>3
<1>5. IsFold(h, S, pick, base, F)
  BY <1>4 DEF IsFold
<1> QED BY <1>4, <1>5

\* A nonempty finite set of integers has a largest and a smallest member.
LEMMA MaxIs ==
    ASSUME NEW S \in SUBSET Int, IsFiniteSet(S), S # {}
    PROVE  Max(S) \in S /\ \A y \in S : y <= Max(S)
<1> DEFINE J == {s \in SUBSET S : s = {} \/ \E x \in s : \A y \in s : x >= y}
<1>1. \A s \in SUBSET S : s # {} => \E x \in s : s \ {x} \in J => s \in J
  <2> SUFFICES ASSUME NEW s \in SUBSET S, s # {} PROVE \E x \in s : s \ {x} \in J => s \in J
    OBVIOUS
  <2>1. PICK x \in s : TRUE OBVIOUS
  <2>2. ASSUME s \ {x} \in J PROVE s \in J
    <3>1. CASE s \ {x} = {}
      <4>1. \A y \in s : x >= y
        BY <3>1
      <4> QED BY <4>1
    <3>2. CASE \E z \in s \ {x} : \A y \in s \ {x} : z >= y
      <4>1. PICK z \in s \ {x} : \A y \in s \ {x} : z >= y
        BY <3>2
      <4>2. CASE x >= z
        <5>1. \A y \in s : x >= y
          BY <4>1, <4>2
        <5> QED BY <5>1
      <4>3. CASE ~(x >= z)
        <5>1. \A y \in s : z >= y
          BY <4>1, <4>3
        <5> QED BY <5>1, <4>1
      <4> QED BY <4>2, <4>3
    <3> QED BY <2>2, <3>1, <3>2
  <2> QED BY <2>2
<1>2. {} \in J OBVIOUS
<1>3. S \in J
  <2> HIDE DEF J
  <2> QED BY <1>1, <1>2, Growing
<1>4. \E x \in S : \A y \in S : x >= y
  BY <1>3
<1> QED BY <1>4 DEF Max

\* The least member of a finite set of integers is one, and none is below it.
LEMMA MinIs ==
    ASSUME NEW S \in SUBSET Int, IsFiniteSet(S), S # {}
    PROVE  Min(S) \in S /\ \A y \in S : Min(S) <= y
<1> DEFINE J == {s \in SUBSET S : s = {} \/ \E x \in s : \A y \in s : x <= y}
<1>1. \A s \in SUBSET S : s # {} => \E x \in s : s \ {x} \in J => s \in J
  <2> SUFFICES ASSUME NEW s \in SUBSET S, s # {} PROVE \E x \in s : s \ {x} \in J => s \in J
    OBVIOUS
  <2>1. PICK x \in s : TRUE OBVIOUS
  <2>2. ASSUME s \ {x} \in J PROVE s \in J
    <3>1. CASE s \ {x} = {}
      <4>1. \A y \in s : x <= y
        BY <3>1
      <4> QED BY <4>1
    <3>2. CASE \E z \in s \ {x} : \A y \in s \ {x} : z <= y
      <4>1. PICK z \in s \ {x} : \A y \in s \ {x} : z <= y
        BY <3>2
      <4>2. CASE x <= z
        <5>1. \A y \in s : x <= y
          BY <4>1, <4>2
        <5> QED BY <5>1
      <4>3. CASE ~(x <= z)
        <5>1. \A y \in s : z <= y
          BY <4>1, <4>3
        <5> QED BY <5>1, <4>1
      <4> QED BY <4>2, <4>3
    <3> QED BY <2>2, <3>1, <3>2
  <2> QED BY <2>2
<1>2. {} \in J OBVIOUS
<1>3. S \in J
  <2> HIDE DEF J
  <2> QED BY <1>1, <1>2, Growing
<1>4. \E x \in S : \A y \in S : x <= y
  BY <1>3
<1> QED BY <1>4 DEF Min

-----------------------------------------------------------------------------
(* Totals.                                                                  *)

\* The member that the choice in a total takes first.
Pick(P) == CHOOSE x \in P : TRUE

\* The members of a total, one after the other in the order of Pick.
LEMMA TotalStep ==
    ASSUME NEW P, IsFiniteSet(P), \A p \in P : p[2] \in Int
    PROVE  /\ Total(P) \in Int
           /\ P = {} => Total(P) = 0
           /\ P # {} => Total(P) = Pick(P)[2] + Total(P \ {Pick(P)})
<1> DEFINE Iter(S, f) == f = [s \in SUBSET S |-> IF s = {} THEN 0 ELSE
                                LET x == CHOOSE x \in s : TRUE IN x[2] + f[s \ {x}]]
<1> DEFINE I(S) == CHOOSE f : Iter(S, f)
<1>1. \A S : Total(S) = I(S)[S]
  BY DEF Total, MapThenSumSet, MapThenFoldSet
<1> HIDE DEF I
<1>2. ASSUME NEW S \in SUBSET P PROVE Iter(S, I(S)) /\ \A s \in SUBSET S : I(S)[s] \in Int
  <2> DEFINE pick == [s \in SUBSET S |-> Pick(s)]
  <2> DEFINE W == [s \in SUBSET S |-> Int]
  <2> DEFINE F == [x \in S |-> [r \in Int |-> x[2] + r]]
  <2>1. IsFiniteSet(S) /\ 0 \in W[{}]
    BY FS_Subset
  <2>2. \A s \in SUBSET S : s # {} =>
               pick[s] \in s /\ \A r \in W[s \ {pick[s]}] : F[pick[s]][r] \in W[s]
    <3> SUFFICES ASSUME NEW s \in SUBSET S, s # {}
                 PROVE  pick[s] \in s /\ \A r \in W[s \ {pick[s]}] : F[pick[s]][r] \in W[s]
      OBVIOUS
    <3>1. pick[s] \in s
      BY DEF Pick
    <3>2. pick[s] \in S /\ pick[s][2] \in Int
      BY <3>1
    <3> QED BY <3>1, <3>2
  <2>3. PICK h : IsFold(h, S, pick, 0, F) /\ \A s \in SUBSET S : h[s] \in W[s]
    <3> HIDE DEF pick, W, F
    <3> QED BY <2>1, <2>2, FoldExists
  <2>4. h = [s \in SUBSET S |-> IF s = {} THEN 0 ELSE F[pick[s]][h[s \ {pick[s]}]]]
    BY <2>3 DEF IsFold
  <2>5. \A s \in SUBSET S : s # {} => F[pick[s]][h[s \ {pick[s]}]] = Pick(s)[2] + h[s \ {Pick(s)}]
    <3> SUFFICES ASSUME NEW s \in SUBSET S, s # {}
                 PROVE  F[pick[s]][h[s \ {pick[s]}]] = Pick(s)[2] + h[s \ {Pick(s)}]
      OBVIOUS
    <3>1. Pick(s) \in S /\ pick[s] = Pick(s) /\ h[s \ {Pick(s)}] \in Int
      BY <2>2, <2>3
    <3> HIDE DEF pick
    <3> QED BY <3>1
  <2>6. Iter(S, h)
    <3>1. h = [s \in SUBSET S |-> IF s = {} THEN 0 ELSE Pick(s)[2] + h[s \ {Pick(s)}]]
      <4> HIDE DEF pick, F, W
      <4> QED BY <2>4, <2>5
    <3> QED BY <3>1 DEF Pick
  <2>7. Iter(S, I(S))
    <3> HIDE DEF Iter
    <3> QED BY <2>6 DEF I
  <2> DEFINE g == I(S)
  <2> DEFINE J == {s \in SUBSET S : g[s] \in Int}
  <2>8. \A s \in SUBSET S : g[s] = IF s = {} THEN 0 ELSE Pick(s)[2] + g[s \ {Pick(s)}]
    BY <2>7 DEF Pick
  <2>9. \A s \in SUBSET S : s # {} => \E x \in s : s \ {x} \in J => s \in J
    <3> SUFFICES ASSUME NEW s \in SUBSET S, s # {} PROVE \E x \in s : s \ {x} \in J => s \in J
      OBVIOUS
    <3>1. Pick(s) \in s
      BY DEF Pick
    <3>2. Pick(s)[2] \in Int
      BY <3>1
    <3> HIDE DEF g
    <3>4. g[s] = Pick(s)[2] + g[s \ {Pick(s)}]
      BY <2>8
    <3>3. s \ {Pick(s)} \in J => s \in J
      BY <3>4, <3>2
    <3> QED BY <3>1, <3>3
  <2>10. SUBSET S \subseteq J
    <3>2. g[{}] = 0
      <4>1. {} \in SUBSET S OBVIOUS
      <4> HIDE DEF g
      <4> QED BY <4>1, <2>8
    <3>1. {} \in J
      BY <3>2
    <3> HIDE DEF J
    <3> QED BY <2>1, <2>9, <3>1, Growing
  <2> QED BY <2>7, <2>10
<1>3. \A S \in SUBSET P : \A s \in SUBSET S :
        /\ I(S)[s] \in Int
        /\ I(S)[s] = IF s = {} THEN 0 ELSE Pick(s)[2] + I(S)[s \ {Pick(s)}]
  BY <1>2 DEF Pick
<1>4. ASSUME NEW S \in SUBSET P, NEW T \in SUBSET S PROVE I(S)[T] = I(T)[T]
  <2> DEFINE J == {s \in SUBSET T : I(S)[s] = I(T)[s]}
  <2>1. {} \in J
    <3>1. {} \in SUBSET S /\ {} \in SUBSET T /\ T \in SUBSET P OBVIOUS
    <3>2. I(S)[{}] = 0 /\ I(T)[{}] = 0
      BY <3>1, <1>3
    <3> QED BY <3>2
  <2>2. \A s \in SUBSET T : s # {} => \E x \in s : s \ {x} \in J => s \in J
    <3> SUFFICES ASSUME NEW s \in SUBSET T, s # {} PROVE \E x \in s : s \ {x} \in J => s \in J
      OBVIOUS
    <3>1. Pick(s) \in s
      BY DEF Pick
    <3>2. s \in SUBSET S /\ T \in SUBSET P OBVIOUS
    <3>3. I(S)[s] = Pick(s)[2] + I(S)[s \ {Pick(s)}] /\ I(T)[s] = Pick(s)[2] + I(T)[s \ {Pick(s)}]
      BY <3>2, <1>3
    <3> QED BY <3>1, <3>3
  <2>3. IsFiniteSet(T)
    <3>1. T \in SUBSET P OBVIOUS
    <3> QED BY <3>1, FS_Subset
  <2>4. T \in J
    <3> HIDE DEF J
    <3> QED BY <2>1, <2>2, <2>3, Growing
  <2> QED BY <2>4
<1>5. Total(P) \in Int /\ (P = {} => Total(P) = 0)
  BY <1>1, <1>3
<1>6. ASSUME P # {} PROVE Total(P) = Pick(P)[2] + Total(P \ {Pick(P)})
  <2>1. P \ {Pick(P)} \in SUBSET P OBVIOUS
  <2>2. I(P)[P] = Pick(P)[2] + I(P)[P \ {Pick(P)}]
    BY <1>3, <1>6
  <2>3. I(P)[P \ {Pick(P)}] = I(P \ {Pick(P)})[P \ {Pick(P)}]
    BY <1>4, <2>1
  <2> QED BY <1>1, <2>2, <2>3
<1> QED BY <1>5, <1>6

\* Any member may be taken out of a total first.
LEMMA TotalRemove ==
    ASSUME NEW P, IsFiniteSet(P), \A p \in P : p[2] \in Int, NEW x \in P
    PROVE  Total(P) = x[2] + Total(P \ {x})
<1> DEFINE AllAlike(s) == \A y \in s : Total(s) = y[2] + Total(s \ {y})
<1> DEFINE B == {s \in SUBSET P : ~AllAlike(s)}
<1>1. B = {}
  <2> SUFFICES ASSUME B # {} PROVE FALSE OBVIOUS
  <2>1. PICK s \in B : \A t \in B : ~(t \subseteq s /\ t # s)
    <3>1. B \in SUBSET (SUBSET P) OBVIOUS
    <3> HIDE DEF B
    <3> QED BY <3>1, Smallest
  <2>2. PICK y \in s : Total(s) # y[2] + Total(s \ {y}) OBVIOUS
  <2> DEFINE z == Pick(s)
  <2>3. z \in s
    BY DEF Pick
  <2>4. ASSUME NEW v \in s PROVE AllAlike(s \ {v})
    <3>1. s \ {v} \notin B
      BY <2>1
    <3> QED BY <3>1
  <2>5. \A t \in SUBSET P : IsFiniteSet(t) /\ Total(t) \in Int /\ (t # {} => Total(t) = Pick(t)[2] + Total(t \ {Pick(t)}))
    BY TotalStep, FS_Subset
  <2>6. Total(s) = z[2] + Total(s \ {z})
    BY <2>5
  <2> HIDE DEF z
  <2>7. y # z
    BY <2>2, <2>6
  <2>8. Total(s \ {z}) = y[2] + Total((s \ {z}) \ {y})
    BY <2>3, <2>4, <2>7
  <2>9. Total(s \ {y}) = z[2] + Total((s \ {y}) \ {z})
    BY <2>3, <2>4, <2>7
  <2>10. (s \ {z}) \ {y} = (s \ {y}) \ {z} OBVIOUS
  <2>11. y[2] \in Int /\ z[2] \in Int /\ Total((s \ {y}) \ {z}) \in Int
    BY <2>3, <2>5
  <2>12. Total(s) = z[2] + (y[2] + Total((s \ {y}) \ {z}))
    BY <2>6, <2>8, <2>10
  <2>13. y[2] + Total(s \ {y}) = y[2] + (z[2] + Total((s \ {y}) \ {z}))
    BY <2>9
  <2> QED BY <2>2, <2>11, <2>12, <2>13
<1>2. AllAlike(P)
  <2>1. P \notin B
    BY <1>1
  <2> QED BY <2>1
<1> QED BY <1>2

\* The sum of f over a set, each member counted as often as it is one.
SumOver(f, S) == Total({<<x, f[x]>> : x \in S})

\* A sum is an integer, zero over nothing, and any member may be taken out.
LEMMA SumRemove ==
    ASSUME NEW S, IsFiniteSet(S), NEW f, \A x \in S : f[x] \in Int
    PROVE  /\ SumOver(f, S) \in Int
           /\ S = {} => SumOver(f, S) = 0
           /\ \A x \in S : SumOver(f, S) = f[x] + SumOver(f, S \ {x})
<1> DEFINE P == {<<x, f[x]>> : x \in S}
<1>1. IsFiniteSet(P)
  <2> DEFINE g == [x \in S |-> <<x, f[x]>>]
  <2>1. g \in Surjection(S, P)
    BY DEF Surjection
  <2> HIDE DEF g, P
  <2> QED BY <2>1, FS_Surjection
<1>2. \A p \in P : p[2] \in Int OBVIOUS
<1>3. SumOver(f, S) \in Int
  <2> HIDE DEF P
  <2> QED BY <1>1, <1>2, TotalStep DEF SumOver, P
<1>4. ASSUME S = {} PROVE SumOver(f, S) = 0
  <2>1. P = {}
    BY <1>4
  <2> HIDE DEF P
  <2> QED BY <1>1, <1>2, <2>1, TotalStep DEF SumOver, P
<1>5. ASSUME NEW x \in S PROVE SumOver(f, S) = f[x] + SumOver(f, S \ {x})
  <2>1. <<x, f[x]>> \in P OBVIOUS
  <2>2. P \ {<<x, f[x]>>} = {<<y, f[y]>> : y \in S \ {x}} OBVIOUS
  <2> HIDE DEF P
  <2>3. Total(P) = f[x] + Total(P \ {<<x, f[x]>>})
    BY <1>1, <1>2, <2>1, TotalRemove
  <2> QED BY <2>2, <2>3 DEF SumOver, P
<1> QED BY <1>3, <1>4, <1>5

\* A sum depends on f only over the set it runs over.
LEMMA SumSame ==
    ASSUME NEW S, NEW f, NEW g, \A x \in S : f[x] = g[x]
    PROVE  SumOver(f, S) = SumOver(g, S)
<1>1. {<<x, f[x]>> : x \in S} = {<<x, g[x]>> : x \in S} OBVIOUS
<1> QED BY <1>1 DEF SumOver

\* One member more adds its value to the sum.
LEMMA SumAdd ==
    ASSUME NEW S, IsFiniteSet(S), NEW f, NEW x, x \notin S, \A y \in S \cup {x} : f[y] \in Int
    PROVE  SumOver(f, S \cup {x}) = SumOver(f, S) + f[x] /\ SumOver(f, S) \in Int
<1>1. IsFiniteSet(S \cup {x}) /\ (S \cup {x}) \ {x} = S
  BY FS_AddElement
<1>2. SumOver(f, S \cup {x}) = f[x] + SumOver(f, (S \cup {x}) \ {x})
  BY <1>1, SumRemove
<1>3. SumOver(f, S) \in Int
  BY SumRemove
<1>4. f[x] \in Int OBVIOUS
<1>5. SumOver(f, S \cup {x}) = f[x] + SumOver(f, S)
  BY <1>1, <1>2
<1> QED BY <1>3, <1>4, <1>5

\* A change of one summand.
LEMMA SumPoint ==
    ASSUME NEW S, IsFiniteSet(S), NEW f, NEW g, NEW x \in S,
           \A y \in S : f[y] \in Int /\ g[y] \in Int /\ (y # x => f[y] = g[y])
    PROVE  SumOver(g, S) = SumOver(f, S) - f[x] + g[x] /\ SumOver(f, S) \in Int
<1>1. SumOver(f, S) = f[x] + SumOver(f, S \ {x}) /\ SumOver(g, S) = g[x] + SumOver(g, S \ {x})
  BY SumRemove
<1>2. SumOver(f, S \ {x}) = SumOver(g, S \ {x})
  BY SumSame
<1>3. IsFiniteSet(S \ {x})
  BY FS_RemoveElement
<1>4. SumOver(f, S \ {x}) \in Int /\ SumOver(f, S) \in Int
  BY <1>3, SumRemove
<1> QED BY <1>1, <1>2, <1>4

\* Sums of what is not negative.
LEMMA SumNat ==
    ASSUME NEW S, IsFiniteSet(S), NEW f, \A x \in S : f[x] \in Nat
    PROVE  /\ SumOver(f, S) \in Nat
           /\ \A x \in S : f[x] <= SumOver(f, S)
           /\ SumOver(f, S) = 0 <=> \A x \in S : f[x] = 0
<1> DEFINE J == {s \in SUBSET S : /\ SumOver(f, s) \in Nat
                                  /\ (\A x \in s : f[x] = 0) => SumOver(f, s) = 0}
<1>1. \A s \in SUBSET S : IsFiniteSet(s) /\ (\A x \in s : f[x] \in Int)
  BY FS_Subset
<1>2. \A s \in SUBSET S : s # {} => \E x \in s : s \ {x} \in J => s \in J
  <2> SUFFICES ASSUME NEW s \in SUBSET S, s # {} PROVE \E x \in s : s \ {x} \in J => s \in J
    OBVIOUS
  <2>1. PICK x \in s : TRUE OBVIOUS
  <2>2. SumOver(f, s) = f[x] + SumOver(f, s \ {x})
    BY <1>1, SumRemove
  <2>3. f[x] \in Nat OBVIOUS
  <2> QED BY <2>2, <2>3
<1>3. {} \in J
  <2>1. SumOver(f, {}) = 0
    BY FS_EmptySet, SumRemove
  <2> QED BY <2>1
<1>4. SUBSET S \subseteq J
  <2> HIDE DEF J
  <2> QED BY <1>2, <1>3, Growing
<1>5. \A s \in SUBSET S : SumOver(f, s) \in Nat
  BY <1>4
<1>6. \A x \in S : f[x] <= SumOver(f, S)
  <2> TAKE x \in S
  <2>1. SumOver(f, S) = f[x] + SumOver(f, S \ {x})
    BY <1>1, SumRemove
  <2> QED BY <1>5, <2>1
<1> QED BY <1>4, <1>5, <1>6

\* What is outside a subset and counts for nothing may be left out; what is
\* not negative makes the sum no smaller.
LEMMA SumSubset ==
    ASSUME NEW S, IsFiniteSet(S), NEW f, \A x \in S : f[x] \in Int, NEW T \in SUBSET S
    PROVE  /\ (\A x \in S \ T : f[x] = 0) => SumOver(f, S) = SumOver(f, T)
           /\ (\A x \in S \ T : f[x] >= 0) => SumOver(f, T) <= SumOver(f, S)
<1> DEFINE J == {s \in SUBSET (S \ T) :
                   /\ (\A x \in s : f[x] = 0) => SumOver(f, T \cup s) = SumOver(f, T)
                   /\ (\A x \in s : f[x] >= 0) => SumOver(f, T) <= SumOver(f, T \cup s)}
<1>1. \A s \in SUBSET S : IsFiniteSet(s) /\ (\A x \in s : f[x] \in Int) /\ SumOver(f, s) \in Int
  <2>1. \A s \in SUBSET S : IsFiniteSet(s) /\ (\A x \in s : f[x] \in Int)
    BY FS_Subset
  <2> QED BY <2>1, SumRemove
<1>2. \A s \in SUBSET (S \ T) : s # {} => \E x \in s : s \ {x} \in J => s \in J
  <2> SUFFICES ASSUME NEW s \in SUBSET (S \ T), s # {} PROVE \E x \in s : s \ {x} \in J => s \in J
    OBVIOUS
  <2>1. PICK x \in s : TRUE OBVIOUS
  <2>2. (T \cup s) \ {x} = T \cup (s \ {x}) /\ T \cup s \in SUBSET S /\ x \in T \cup s
    OBVIOUS
  <2>3. SumOver(f, T \cup s) = f[x] + SumOver(f, (T \cup s) \ {x})
    BY <1>1, <2>2, SumRemove
  <2>4. f[x] \in Int /\ SumOver(f, T \cup (s \ {x})) \in Int /\ SumOver(f, T) \in Int
    BY <1>1
  <2>5. SumOver(f, T \cup s) = f[x] + SumOver(f, T \cup (s \ {x}))
    BY <2>2, <2>3
  <2>6. ASSUME s \ {x} \in J PROVE s \in J
    <3>1. ASSUME \A y \in s : f[y] = 0 PROVE SumOver(f, T \cup s) = SumOver(f, T)
      BY <2>4, <2>5, <2>6, <3>1
    <3>2. ASSUME \A y \in s : f[y] >= 0 PROVE SumOver(f, T) <= SumOver(f, T \cup s)
      <4>1. f[x] >= 0 /\ SumOver(f, T) <= SumOver(f, T \cup (s \ {x}))
        BY <2>6, <3>2
      <4> QED BY <2>4, <2>5, <4>1
    <3> QED BY <3>1, <3>2
  <2> HIDE DEF J
  <2> QED BY <2>6
<1>3. {} \in J
  <2>1. T \cup {} = T OBVIOUS
  <2>2. SumOver(f, T) <= SumOver(f, T)
    BY <1>1
  <2> QED BY <2>1, <2>2
<1>4. S \ T \in J
  <2>1. IsFiniteSet(S \ T)
    BY <1>1
  <2> HIDE DEF J
  <2>2. PICK D : D = S \ T OBVIOUS
  <2>3. \A s \in SUBSET D : s # {} => \E x \in s : s \ {x} \in J => s \in J
    BY <1>2, <2>2
  <2>5. IsFiniteSet(D)
    BY <2>1, <2>2
  <2>4. SUBSET D \subseteq J
    BY <1>3, <2>5, <2>3, Growing
  <2> QED BY <2>2, <2>4
<1>5. T \cup (S \ T) = S OBVIOUS
<1> QED BY <1>4, <1>5

\* A sum over other names of the same summands.
LEMMA SumRename ==
    ASSUME NEW S, IsFiniteSet(S), NEW f, \A x \in S : f[x] \in Int, NEW g, NEW b,
           \A x \in S : g[b[x]] = f[x],
           \A x, y \in S : b[x] = b[y] => x = y
    PROVE  /\ SumOver(g, {b[x] : x \in S}) = SumOver(f, S)
           /\ IsFiniteSet({b[x] : x \in S})
<1> DEFINE Im(s) == {b[x] : x \in s}
<1> DEFINE J == {s \in SUBSET S : SumOver(g, Im(s)) = SumOver(f, s)}
<1>0. ASSUME NEW s \in SUBSET S PROVE IsFiniteSet(Im(s)) /\ IsFiniteSet(s)
  <2> DEFINE h == [x \in s |-> b[x]]
  <2>1. h \in Surjection(s, Im(s))
    BY DEF Surjection
  <2>2. IsFiniteSet(s)
    BY FS_Subset
  <2> HIDE DEF h, Im
  <2> QED BY <2>1, <2>2, FS_Surjection
<1>1. ASSUME NEW s \in SUBSET S, NEW x \in s, s \ {x} \in J PROVE s \in J
  <2>1. SumOver(f, s) = f[x] + SumOver(f, s \ {x})
    <3>1. IsFiniteSet(s) /\ \A y \in s : f[y] \in Int
      BY <1>0
    <3> QED BY <3>1, SumRemove
  <2>2. Im(s \ {x}) = Im(s) \ {b[x]} /\ b[x] \in Im(s) /\ g[b[x]] = f[x] OBVIOUS
  <2>3. IsFiniteSet(Im(s)) /\ \A y \in Im(s) : g[y] \in Int
    BY <1>0
  <2>4. SumOver(g, Im(s)) = f[x] + SumOver(g, Im(s) \ {b[x]})
    <3> HIDE DEF Im
    <3> QED BY <2>2, <2>3, SumRemove
  <2>5. SumOver(g, Im(s \ {x})) = SumOver(f, s \ {x})
    BY <1>1
  <2> HIDE DEF Im
  <2> QED BY <2>1, <2>2, <2>4, <2>5
<1>2. {} \in J
  <2>1. Im({}) = {} OBVIOUS
  <2>2. SumOver(f, {}) = 0 /\ SumOver(g, {}) = 0
    BY FS_EmptySet, SumRemove
  <2> HIDE DEF Im
  <2> QED BY <2>1, <2>2
<1>3. S \in J
  <2> HIDE DEF J
  <2>1. \A s \in SUBSET S : s # {} => \E x \in s : s \ {x} \in J => s \in J
    BY <1>1
  <2> QED BY <1>2, <2>1, Growing
<1> QED BY <1>0, <1>3

-----------------------------------------------------------------------------
(* An inventory as a map from the slots in use to their items.              *)

\* What a stack may hold.
Fits(it) ==
    /\ it.q <= IF Rech(it) THEN MaxCharge[it.id] ELSE SlotMax[it.id]
    /\ it.q = 0 => Rech(it)

\* What a list of the inventory is made of.
Entry == [pos: 1..slotLimit, it: Item]

\* A sound inventory: each slot within the limit at most once, each item within
\* what fits into a slot.
Sound(s) ==
    /\ slotLimit \in Nat
    /\ s \in Seq(Entry)
    /\ \A m, n \in DOMAIN s : s[m].pos = s[n].pos => m = n
    /\ \A n \in DOMAIN s : Fits(s[n].it)

\* The item in slot p.
At(s, p) == s[EntryAt(s, p)].it

\* How many of id an item is.
Q(it, id) == IF it.id = id THEN it.q ELSE 0
\* What each taken slot holds of id.
QAt(s, id) == [p \in Taken(s) |-> Q(At(s, p), id)]

USE InventoryAssumption

\* The slots of a sound inventory and its entries are the same thing: each entry
\* is found by its slot, there are as many slots taken as entries.
LEMMA SoundIs ==
    ASSUME NEW s, Sound(s)
    PROVE  /\ Len(s) \in Nat /\ DOMAIN s = 1..Len(s) /\ slotLimit \in Nat
           /\ \A n \in DOMAIN s :
                /\ s[n] \in Entry /\ s[n].it \in Item /\ s[n].pos \in Taken(s)
                /\ EntryAt(s, s[n].pos) = n /\ At(s, s[n].pos) = s[n].it
           /\ Taken(s) \subseteq 1..slotLimit /\ IsFiniteSet(Taken(s))
           /\ Cardinality(Taken(s)) = Len(s)
           /\ \A p \in Taken(s) :
                /\ EntryAt(s, p) \in DOMAIN s /\ s[EntryAt(s, p)].pos = p
                /\ At(s, p) \in Item /\ Fits(At(s, p))
<1>1. Len(s) \in Nat /\ DOMAIN s = 1..Len(s) /\ slotLimit \in Nat /\ \A n \in DOMAIN s : s[n] \in Entry
  BY DEF Sound
<1>2. \A n \in DOMAIN s : s[n].it \in Item /\ s[n].pos \in 1..slotLimit
  BY <1>1 DEF Entry
<1>3. \A n \in DOMAIN s : EntryAt(s, s[n].pos) = n
  BY DEF EntryAt, Sound
<1>4. \A n \in DOMAIN s : s[n].pos \in Taken(s) /\ At(s, s[n].pos) = s[n].it
  BY <1>3 DEF Taken, At
<1>5. \A p \in Taken(s) : EntryAt(s, p) \in DOMAIN s /\ s[EntryAt(s, p)].pos = p
  BY DEF Taken, EntryAt
<1>6. \A p \in Taken(s) : At(s, p) \in Item /\ Fits(At(s, p))
  BY <1>2, <1>5 DEF At, Sound
<1>7. Taken(s) \subseteq 1..slotLimit
  BY <1>2 DEF Taken
<1>8. IsFiniteSet(Taken(s)) /\ Cardinality(Taken(s)) = Len(s)
  <2> DEFINE g == [n \in 1..Len(s) |-> s[n].pos]
  <2>1. g \in Bijection(1..Len(s), Taken(s))
    <3>1. g \in [1..Len(s) -> Taken(s)]
      BY <1>1, <1>4
    <3>2. g \in Surjection(1..Len(s), Taken(s))
      BY <3>1, <1>1 DEF Surjection, Taken
    <3>3. g \in Injection(1..Len(s), Taken(s))
      <4>1. \A m, n \in 1..Len(s) : g[m] = g[n] => m = n
        BY <1>1 DEF Sound
      <4> HIDE DEF g
      <4> QED BY <3>1, <4>1 DEF Injection, IsInjective
    <3> QED BY <3>2, <3>3 DEF Bijection
  <2>2. ExistsBijection(1..Len(s), Taken(s))
    BY <2>1 DEF ExistsBijection
  <2> QED BY <1>1, <2>2, FS_NatBijection, FS_CountingElements
<1> QED BY <1>1, <1>2, <1>3, <1>4, <1>5, <1>6, <1>7, <1>8

\* The members of a sound inventory, by their slots.
LEMMA RangeIs ==
    ASSUME NEW s, Sound(s)
    PROVE  /\ \A e \in Range(s) : e.pos \in Taken(s) /\ At(s, e.pos) = e.it
           /\ \A p \in Taken(s) : s[EntryAt(s, p)] \in Range(s)
<1>1. Range(s) = {s[n] : n \in DOMAIN s}
  BY DEF Range
<1> QED BY <1>1, SoundIs

\* What is held of an item, summed over the slots in use.
LEMMA HeldIs ==
    ASSUME NEW s, Sound(s), NEW id
    PROVE  /\ Held(s, id) = SumOver(QAt(s, id), Taken(s))
           /\ Held(s, id) = SumOver(QAt(s, id), SlotsOf(s, id)) /\ SlotsOf(s, id) \subseteq Taken(s)
           /\ \A p \in Taken(s) : p \in SlotsOf(s, id) <=> At(s, p).id = id
           /\ \A p \in Taken(s) : QAt(s, id)[p] = Q(At(s, p), id) /\ Q(At(s, p), id) \in Nat
           /\ Held(s, id) \in Nat
           /\ \A p \in Taken(s) : Q(At(s, p), id) <= Held(s, id)
<1>1. \A p \in Taken(s) : QAt(s, id)[p] = Q(At(s, p), id) /\ Q(At(s, p), id) \in Nat
  BY SoundIs DEF QAt, Q, Item
<1>2. {<<e.pos, e.it.q>> : e \in Entries(s, id)} = {<<p, QAt(s, id)[p]>> : p \in SlotsOf(s, id)}
  <2>1. \A e \in Entries(s, id) : e.pos \in Taken(s) /\ QAt(s, id)[e.pos] = e.it.q
    BY RangeIs DEF Entries, QAt, Q
  <2> QED BY <2>1 DEF SlotsOf
<1>3. Held(s, id) = SumOver(QAt(s, id), SlotsOf(s, id))
  BY <1>2 DEF Held, SumOver
<1>4. \A p \in Taken(s) \ SlotsOf(s, id) : QAt(s, id)[p] = 0
  <2> SUFFICES ASSUME NEW p \in Taken(s), p \notin SlotsOf(s, id) PROVE Q(At(s, p), id) = 0
    BY <1>1
  <2>1. s[EntryAt(s, p)] \in Range(s) /\ s[EntryAt(s, p)].pos = p
    BY RangeIs, SoundIs
  <2>2. At(s, p).id # id
    BY <2>1 DEF SlotsOf, Entries, At
  <2> QED BY <2>2 DEF Q
<1>5. SlotsOf(s, id) \subseteq Taken(s)
  BY RangeIs DEF SlotsOf, Entries
<1>6. IsFiniteSet(Taken(s)) /\ \A p \in Taken(s) : QAt(s, id)[p] \in Int
  BY <1>1, SoundIs
<1>7. SumOver(QAt(s, id), Taken(s)) = SumOver(QAt(s, id), SlotsOf(s, id))
  BY <1>4, <1>5, <1>6, SumSubset
<1>8. SumOver(QAt(s, id), Taken(s)) \in Nat /\ \A p \in Taken(s) : QAt(s, id)[p] <= SumOver(QAt(s, id), Taken(s))
  BY <1>1, <1>6, SumNat
<1>9. \A p \in Taken(s) : p \in SlotsOf(s, id) <=> At(s, p).id = id
  <2>1. ASSUME NEW p \in Taken(s), At(s, p).id = id PROVE p \in SlotsOf(s, id)
    BY <2>1, RangeIs, SoundIs DEF SlotsOf, Entries, At
  <2>2. ASSUME NEW p \in SlotsOf(s, id) PROVE At(s, p).id = id
    BY <2>2, RangeIs DEF SlotsOf, Entries
  <2> QED BY <2>1, <2>2
<1> QED BY <1>1, <1>3, <1>5, <1>7, <1>8, <1>9

\* ... and over its entries.
LEMMA HeldByEntry ==
    ASSUME NEW s, Sound(s), NEW id
    PROVE  Held(s, id) = SumOver([n \in DOMAIN s |-> Q(s[n].it, id)], DOMAIN s)
<1> DEFINE f == [n \in DOMAIN s |-> Q(s[n].it, id)]
<1> DEFINE b == [n \in DOMAIN s |-> s[n].pos]
<1>1. \A n \in DOMAIN s : f[n] \in Int /\ QAt(s, id)[b[n]] = f[n]
  BY SoundIs, HeldIs
<1>2. \A m, n \in DOMAIN s : b[m] = b[n] => m = n
  BY DEF Sound
<1>3. IsFiniteSet(DOMAIN s)
  BY SoundIs, FS_Interval
<1>4. {b[n] : n \in DOMAIN s} = Taken(s)
  BY DEF Taken
<1> HIDE DEF f, b
<1>5. SumOver(QAt(s, id), {b[n] : n \in DOMAIN s}) = SumOver(f, DOMAIN s)
  BY <1>1, <1>2, <1>3, SumRename
<1> QED BY <1>4, <1>5, HeldIs DEF f

\* An item in a free slot.
LEMMA PutIs ==
    ASSUME NEW s, Sound(s), NEW p \in 1..slotLimit, p \notin Taken(s),
           NEW it \in Item, Fits(it)
    PROVE  /\ Sound(Put(s, p, it))
           /\ Taken(Put(s, p, it)) = Taken(s) \cup {p}
           /\ Len(Put(s, p, it)) = Len(s) + 1
           /\ At(Put(s, p, it), p) = it
           /\ \A o \in Taken(s) : At(Put(s, p, it), o) = At(s, o)
           /\ \A id : Held(Put(s, p, it), id) = Held(s, id) + Q(it, id)
<1> DEFINE e == [pos |-> p, it |-> it]
<1> DEFINE r == Append(s, e)
<1>1. Put(s, p, it) = r
  BY DEF Put
<1>2. Len(s) \in Nat /\ DOMAIN s = 1..Len(s) /\ s \in Seq(Entry) /\ e \in Entry /\ slotLimit \in Nat
  BY SoundIs DEF Sound, Entry
<1>3. r \in Seq(Entry) /\ Len(r) = Len(s) + 1 /\ DOMAIN r = 1..(Len(s) + 1)
  BY <1>2, AppendProperties, LenProperties
<1>4. (\A n \in 1..Len(s) : r[n] = s[n]) /\ r[Len(s) + 1] = e
  BY <1>2
<1> HIDE DEF r
<1>5. \A n \in DOMAIN r : n = Len(s) + 1 \/ n \in DOMAIN s
  BY <1>2, <1>3
<1>6. \A n \in DOMAIN s : n \in DOMAIN r /\ r[n] = s[n] /\ n # Len(s) + 1 /\ s[n].pos # p
  BY <1>2, <1>3, <1>4 DEF Taken
<1>7. Len(s) + 1 \in DOMAIN r /\ r[Len(s) + 1].pos = p /\ r[Len(s) + 1].it = it
  BY <1>2, <1>3, <1>4
<1>8. Sound(r)
  <2>1. \A m, n \in DOMAIN r : r[m].pos = r[n].pos => m = n
    BY <1>5, <1>6, <1>7 DEF Sound
  <2>2. \A n \in DOMAIN r : Fits(r[n].it)
    BY <1>5, <1>6, <1>7 DEF Sound
  <2> QED BY <1>2, <1>3, <2>1, <2>2 DEF Sound
<1>9. Taken(r) = Taken(s) \cup {p}
  BY <1>5, <1>6, <1>7 DEF Taken
<1>10. At(r, p) = it /\ \A o \in Taken(s) : At(r, o) = At(s, o)
  <2>1. \A n \in DOMAIN r : At(r, r[n].pos) = r[n].it
    BY <1>8, SoundIs
  <2>2. \A n \in DOMAIN s : At(s, s[n].pos) = s[n].it
    BY SoundIs
  <2> QED BY <1>6, <1>7, <2>1, <2>2 DEF Taken
<1>11. ASSUME NEW id PROVE Held(r, id) = Held(s, id) + Q(it, id)
  <2>1. \A o \in Taken(s) : QAt(r, id)[o] = QAt(s, id)[o]
    BY <1>9, <1>10 DEF QAt
  <2>2. QAt(r, id)[p] = Q(it, id)
    BY <1>9, <1>10 DEF QAt
  <2>3. \A o \in Taken(r) : QAt(r, id)[o] \in Int
    BY <1>8, HeldIs
  <2>4. IsFiniteSet(Taken(s))
    BY SoundIs
  <2>5. SumOver(QAt(r, id), Taken(s) \cup {p}) = SumOver(QAt(r, id), Taken(s)) + QAt(r, id)[p]
    BY <1>9, <2>3, <2>4, SumAdd
  <2>6. SumOver(QAt(r, id), Taken(s)) = SumOver(QAt(s, id), Taken(s))
    BY <2>1, SumSame
  <2> QED BY <1>8, <1>9, <2>2, <2>5, <2>6, HeldIs
<1> QED BY <1>1, <1>3, <1>8, <1>9, <1>10, <1>11

\* A sequence without one of its members.
LEMMA RemoveAtIs ==
    ASSUME NEW S, NEW s \in Seq(S), NEW n \in 1..Len(s)
    PROVE  /\ RemoveAt(s, n) \in Seq(S)
           /\ Len(RemoveAt(s, n)) = Len(s) - 1
           /\ \A k \in 1..(Len(s) - 1) : RemoveAt(s, n)[k] = s[IF k < n THEN k ELSE k + 1]
<1> DEFINE a == SubSeq(s, 1, n - 1)
<1> DEFINE b == SubSeq(s, n + 1, Len(s))
<1>1. Len(s) \in Nat /\ n \in Int /\ 1 <= n /\ n <= Len(s) /\ \A i \in 1..Len(s) : s[i] \in S
  BY LenProperties, ElementOfSeq
<1>2. a \in Seq(S) /\ Len(a) = n - 1 /\ \A i \in 1..(n - 1) : a[i] = s[i]
  <2>1. \A i \in 1..(n - 1) : s[i] \in S
    BY <1>1
  <2>2. /\ SubSeq(s, 1, n - 1) \in Seq(S)
        /\ Len(SubSeq(s, 1, n - 1)) = IF 1 <= n - 1 THEN (n - 1) - 1 + 1 ELSE 0
        /\ \A i \in 1..((n - 1) - 1 + 1) : SubSeq(s, 1, n - 1)[i] = s[1 + i - 1]
    BY <1>1, <2>1, SubSeqProperties
  <2> QED BY <1>1, <2>2
<1>3. b \in Seq(S) /\ Len(b) = Len(s) - n /\ \A i \in 1..(Len(s) - n) : b[i] = s[n + i]
  <2>1. \A i \in (n + 1)..Len(s) : s[i] \in S
    BY <1>1
  <2>2. /\ SubSeq(s, n + 1, Len(s)) \in Seq(S)
        /\ Len(SubSeq(s, n + 1, Len(s))) = IF n + 1 <= Len(s) THEN Len(s) - (n + 1) + 1 ELSE 0
        /\ \A i \in 1..(Len(s) - (n + 1) + 1) : SubSeq(s, n + 1, Len(s))[i] = s[(n + 1) + i - 1]
    BY <1>1, <2>1, SubSeqProperties
  <2> QED BY <1>1, <2>2
<1> HIDE DEF a, b
<1>4. RemoveAt(s, n) = a \o b
  BY DEF RemoveAt, a, b
<1>5. /\ a \o b \in Seq(S) /\ Len(a \o b) = Len(a) + Len(b)
      /\ \A i \in 1..(Len(a) + Len(b)) : (a \o b)[i] = IF i <= Len(a) THEN a[i] ELSE b[i - Len(a)]
  <2>1. a \in Seq(S) /\ b \in Seq(S)
    BY <1>2, <1>3
  <2> QED BY <2>1, ConcatProperties
<1>6. Len(a \o b) = Len(s) - 1
  BY <1>1, <1>2, <1>3, <1>5
<1>7. ASSUME NEW k \in 1..(Len(s) - 1) PROVE (a \o b)[k] = s[IF k < n THEN k ELSE k + 1]
  <2>1. k \in 1..(Len(a) + Len(b)) /\ (k <= Len(a) <=> k < n)
    BY <1>1, <1>2, <1>3
  <2>2. CASE k < n
    BY <1>1, <1>2, <1>5, <2>1, <2>2
  <2>3. CASE ~(k < n)
    <3>1. k - Len(a) \in 1..(Len(s) - n) /\ n + (k - Len(a)) = k + 1
      BY <1>1, <1>2, <2>3
    <3>2. (a \o b)[k] = b[k - Len(a)]
      BY <1>5, <2>1, <2>3
    <3>3. b[k - Len(a)] = s[n + (k - Len(a))]
      BY <1>3, <3>1
    <3> QED BY <2>3, <3>1, <3>2, <3>3
  <2> QED BY <2>2, <2>3
<1> QED BY <1>4, <1>5, <1>6, <1>7

\* An inventory without what is in a slot.
LEMMA WithoutIs ==
    ASSUME NEW s, Sound(s), NEW p \in Taken(s)
    PROVE  /\ Sound(Without(s, p))
           /\ Taken(Without(s, p)) = Taken(s) \ {p}
           /\ Len(Without(s, p)) = Len(s) - 1
           /\ \A o \in Taken(s) \ {p} : At(Without(s, p), o) = At(s, o)
           /\ \A id : Held(Without(s, p), id) = Held(s, id) - Q(At(s, p), id)
<1> DEFINE n == EntryAt(s, p)
<1> DEFINE r == RemoveAt(s, n)
<1> DEFINE old(k) == IF k < n THEN k ELSE k + 1
<1>1. Without(s, p) = r
  BY DEF Without
<1>2. Len(s) \in Nat /\ DOMAIN s = 1..Len(s) /\ s \in Seq(Entry) /\ slotLimit \in Nat
  BY SoundIs DEF Sound
<1>3. n \in 1..Len(s) /\ s[n].pos = p
  BY <1>2, SoundIs
<1> HIDE DEF n
<1>4. /\ r \in Seq(Entry) /\ Len(r) = Len(s) - 1
      /\ \A k \in 1..(Len(s) - 1) : r[k] = s[old(k)]
  BY <1>2, <1>3, RemoveAtIs
<1>5. DOMAIN r = 1..(Len(s) - 1)
  BY <1>4, LenProperties
<1> HIDE DEF r
<1>6. \A k \in DOMAIN r : old(k) \in DOMAIN s /\ old(k) # n
  BY <1>2, <1>3, <1>5
<1>7. \A k, l \in DOMAIN r : old(k) = old(l) => k = l
  BY <1>2, <1>3, <1>5
<1>8. \A m \in DOMAIN s : m # n => \E k \in DOMAIN r : old(k) = m
  <2> SUFFICES ASSUME NEW m \in DOMAIN s, m # n PROVE \E k \in DOMAIN r : old(k) = m
    OBVIOUS
  <2>1. CASE m < n
    BY <1>2, <1>3, <1>5, <2>1
  <2>2. CASE m > n
    <3>1. m - 1 \in DOMAIN r /\ old(m - 1) = m
      BY <1>2, <1>3, <1>5, <2>2
    <3> QED BY <3>1
  <2> QED BY <1>2, <1>3, <2>1, <2>2
<1>9. \A k \in DOMAIN r : r[k] = s[old(k)]
  BY <1>4, <1>5
<1> HIDE DEF old
<1>10. Sound(r)
  <2>1. \A k, l \in DOMAIN r : r[k].pos = r[l].pos => k = l
    BY <1>6, <1>7, <1>9 DEF Sound
  <2>2. \A k \in DOMAIN r : Fits(r[k].it)
    BY <1>6, <1>9 DEF Sound
  <2> QED BY <1>2, <1>4, <2>1, <2>2 DEF Sound
<1>11. \A m \in DOMAIN s : s[m].pos = p => m = n
  BY <1>2, <1>3 DEF Sound
<1>12. Taken(r) = Taken(s) \ {p}
  <2>1. \A k \in DOMAIN r : r[k].pos \in Taken(s) /\ r[k].pos # p
    BY <1>6, <1>9, <1>11 DEF Taken
  <2>2. \A m \in DOMAIN s : s[m].pos # p => \E k \in DOMAIN r : r[k].pos = s[m].pos
    BY <1>3, <1>8, <1>9
  <2> QED BY <2>1, <2>2 DEF Taken
<1>13. \A o \in Taken(s) \ {p} : At(r, o) = At(s, o)
  <2> SUFFICES ASSUME NEW o \in Taken(s) \ {p} PROVE At(r, o) = At(s, o) OBVIOUS
  <2>1. PICK k \in DOMAIN r : r[k].pos = o
    BY <1>12 DEF Taken
  <2>2. At(r, o) = r[k].it
    BY <1>10, <2>1, SoundIs
  <2>3. old(k) \in DOMAIN s /\ s[old(k)].pos = o /\ s[old(k)].it = r[k].it
    BY <1>6, <1>9, <2>1
  <2> QED BY <2>2, <2>3, SoundIs
<1>14. ASSUME NEW id PROVE Held(r, id) = Held(s, id) - Q(At(s, p), id)
  <2>1. \A o \in Taken(s) \ {p} : QAt(r, id)[o] = QAt(s, id)[o]
    BY <1>12, <1>13 DEF QAt
  <2>2. \A o \in Taken(s) : QAt(s, id)[o] \in Int
    BY HeldIs
  <2>3. IsFiniteSet(Taken(s))
    BY SoundIs
  <2>4. SumOver(QAt(s, id), Taken(s)) = QAt(s, id)[p] + SumOver(QAt(s, id), Taken(s) \ {p})
    BY <2>2, <2>3, SumRemove
  <2>5. SumOver(QAt(r, id), Taken(s) \ {p}) = SumOver(QAt(s, id), Taken(s) \ {p})
    BY <2>1, SumSame
  <2>6. Held(s, id) = Q(At(s, p), id) + Held(r, id)
    <3>1. Held(s, id) = SumOver(QAt(s, id), Taken(s)) /\ QAt(s, id)[p] = Q(At(s, p), id)
      BY HeldIs
    <3>2. Held(r, id) = SumOver(QAt(r, id), Taken(s) \ {p})
      BY <1>10, <1>12, HeldIs
    <3> QED BY <2>4, <2>5, <3>1, <3>2
  <2>7. Held(s, id) \in Nat /\ Held(r, id) \in Nat /\ Q(At(s, p), id) \in Nat
    BY <1>10, HeldIs
  <2> QED BY <2>6, <2>7
<1> QED BY <1>1, <1>4, <1>10, <1>12, <1>13, <1>14

\* An inventory with another quantity in a slot.
LEMMA WithQuantityIs ==
    ASSUME NEW s, Sound(s), NEW p \in Taken(s), NEW q \in Nat, Fits([At(s, p) EXCEPT !.q = q])
    PROVE  /\ Sound(WithQuantity(s, p, q))
           /\ Taken(WithQuantity(s, p, q)) = Taken(s)
           /\ Len(WithQuantity(s, p, q)) = Len(s)
           /\ At(WithQuantity(s, p, q), p) = [At(s, p) EXCEPT !.q = q]
           /\ \A o \in Taken(s) \ {p} : At(WithQuantity(s, p, q), o) = At(s, o)
           /\ \A id : Held(WithQuantity(s, p, q), id) =
                        IF id = At(s, p).id THEN Held(s, id) + q - At(s, p).q ELSE Held(s, id)
<1> DEFINE n == EntryAt(s, p)
<1> DEFINE new == [At(s, p) EXCEPT !.q = q]
<1> DEFINE e == [pos |-> p, it |-> new]
<1> DEFINE r == [s EXCEPT ![n] = e]
<1>2. Len(s) \in Nat /\ DOMAIN s = 1..Len(s) /\ s \in Seq(Entry) /\ slotLimit \in Nat
  BY SoundIs DEF Sound
<1>3. n \in 1..Len(s) /\ s[n].pos = p /\ s[n].it = At(s, p) /\ s[n] \in Entry
  BY <1>2, SoundIs DEF At
<1>4. new \in Item /\ e \in Entry
  BY <1>3 DEF Entry, Item
<1>1. WithQuantity(s, p, q) = r
  <2>1. [s[n] EXCEPT !.it = [s[n].it EXCEPT !.q = q]] = e
    <3>1. s[n] = [pos |-> p, it |-> At(s, p)]
      BY <1>3 DEF Entry
    <3>2. [s[n] EXCEPT !.it = new] = e
      BY <3>1
    <3> QED BY <1>3, <3>2
  <2>2. WithQuantity(s, p, q) = [s EXCEPT ![n] = [s[n] EXCEPT !.it = [s[n].it EXCEPT !.q = q]]]
    BY DEF WithQuantity
  <2> QED BY <2>1, <2>2
<1> HIDE DEF n, e, new
<1>5. r \in Seq(Entry) /\ Len(r) = Len(s) /\ \A k \in 1..Len(s) : r[k] = IF k = n THEN e ELSE s[k]
  BY <1>2, <1>3, <1>4, ExceptSeq
<1>6. DOMAIN r = 1..Len(s)
  BY <1>2
<1> HIDE DEF r
<1>7. e.pos = p /\ e.it = new /\ \A k \in DOMAIN s : r[k].pos = s[k].pos /\ (k # n => r[k] = s[k])
  BY <1>2, <1>3, <1>5 DEF e
<1>8. Sound(r)
  <2>1. \A k, l \in DOMAIN r : r[k].pos = r[l].pos => k = l
    BY <1>2, <1>6, <1>7 DEF Sound
  <2>2. \A k \in DOMAIN r : Fits(r[k].it)
    BY <1>2, <1>5, <1>6, <1>7 DEF Sound, new
  <2> QED BY <1>2, <1>5, <2>1, <2>2 DEF Sound
<1>9. Taken(r) = Taken(s)
  BY <1>2, <1>6, <1>7 DEF Taken
<1>10. At(r, p) = new
  BY <1>2, <1>3, <1>5, <1>6, <1>7, <1>8, SoundIs
<1>11. \A o \in Taken(s) \ {p} : At(r, o) = At(s, o)
  <2> SUFFICES ASSUME NEW o \in Taken(s) \ {p} PROVE At(r, o) = At(s, o) OBVIOUS
  <2>1. PICK k \in DOMAIN s : s[k].pos = o
    BY DEF Taken
  <2>2. r[k] = s[k] /\ k \in DOMAIN r
    BY <1>2, <1>3, <1>6, <1>7, <2>1
  <2> QED BY <1>8, <2>1, <2>2, SoundIs
<1>12. ASSUME NEW id
       PROVE  Held(r, id) = IF id = At(s, p).id THEN Held(s, id) + q - At(s, p).q ELSE Held(s, id)
  <2>1. \A o \in Taken(s) \ {p} : QAt(r, id)[o] = QAt(s, id)[o]
    BY <1>9, <1>11 DEF QAt
  <2>2. \A o \in Taken(s) : QAt(s, id)[o] \in Int /\ QAt(r, id)[o] \in Int
    BY <1>8, <1>9, HeldIs
  <2>3. IsFiniteSet(Taken(s))
    BY SoundIs
  <2>4. SumOver(QAt(r, id), Taken(s)) = SumOver(QAt(s, id), Taken(s)) - QAt(s, id)[p] + QAt(r, id)[p]
    BY <2>1, <2>2, <2>3, SumPoint
  <2>5. QAt(s, id)[p] = Q(At(s, p), id) /\ QAt(r, id)[p] = Q(new, id)
    BY <1>9, <1>10 DEF QAt
  <2>6. At(s, p) \in Item
    BY SoundIs
  <2>7. new.id = At(s, p).id /\ new.q = q /\ At(s, p).q \in Nat
    BY <2>6 DEF new, Item
  <2>8. Held(r, id) = Held(s, id) - Q(At(s, p), id) + Q(new, id)
    BY <1>8, <1>9, <2>4, <2>5, HeldIs
  <2>9. Held(s, id) \in Nat
    BY HeldIs
  <2>10. CASE id = At(s, p).id
    <3>1. Q(At(s, p), id) = At(s, p).q /\ Q(new, id) = q
      BY <2>7, <2>10 DEF Q
    <3> QED BY <2>7, <2>8, <2>9, <2>10, <3>1
  <2>11. CASE id # At(s, p).id
    <3>1. Q(At(s, p), id) = 0 /\ Q(new, id) = 0
      BY <2>7, <2>11 DEF Q
    <3> QED BY <2>8, <2>9, <2>11, <3>1
  <2> QED BY <2>10, <2>11
<1> QED BY <1>1, <1>5, <1>8, <1>9, <1>10, <1>11, <1>12 DEF new

\* The free slots are as many as the limit leaves.
LEMMA FreeIs ==
    ASSUME NEW s, Sound(s)
    PROVE  /\ Free(s) \in SUBSET (1..slotLimit) /\ IsFiniteSet(Free(s)) /\ Free(s) \in SUBSET Int
           /\ Cardinality(Free(s)) = slotLimit - Len(s)
           /\ Len(s) <= slotLimit
           /\ Len(s) < slotLimit => Min(Free(s)) \in Free(s) /\ \A o \in Free(s) : Min(Free(s)) <= o
<1>1. slotLimit \in Nat /\ Len(s) \in Nat /\ Taken(s) \subseteq 1..slotLimit /\ Cardinality(Taken(s)) = Len(s)
  BY SoundIs
<1>2. IsFiniteSet(1..slotLimit) /\ Cardinality(1..slotLimit) = slotLimit
  BY <1>1, FS_Interval
<1>3. (1..slotLimit) \cap Taken(s) = Taken(s)
  BY <1>1
<1>4. IsFiniteSet(Free(s)) /\ Cardinality(Free(s)) = slotLimit - Len(s)
  <2>1. IsFiniteSet((1..slotLimit) \ Taken(s))
    BY <1>2, FS_Difference
  <2>2. Cardinality((1..slotLimit) \ Taken(s)) = Cardinality(1..slotLimit) - Cardinality((1..slotLimit) \cap Taken(s))
    BY <1>2, FS_Difference
  <2> QED BY <1>1, <1>2, <1>3, <2>1, <2>2 DEF Free
<1>5. Len(s) <= slotLimit
  BY <1>1, <1>2, FS_Subset
<1>6. Free(s) \in SUBSET (1..slotLimit) /\ Free(s) \in SUBSET Int
  BY <1>1 DEF Free
<1>7. ASSUME Len(s) < slotLimit PROVE Free(s) # {}
  BY <1>1, <1>4, <1>7, FS_EmptySet
<1> QED BY <1>4, <1>5, <1>6, <1>7, MinIs

-----------------------------------------------------------------------------
(* What the operations of MapleInventory and MapleInventoryManipulator do.  *)

\* As much of every item before and after.
SameHeld(r, s) == \A id : Held(r, id) = Held(s, id)
\* No second one of what is one of a kind.
OneKept(r, s) == \A id \in OneOfAKind : Held(s, id) <= 1 => Held(r, id) <= 1

\* Where the amounts stay, nothing is doubled.
LEMMA SameKeepsOne == ASSUME NEW r, NEW s, SameHeld(r, s) PROVE OneKept(r, s)
BY DEF SameHeld, OneKept

\* A move to another slot keeps every quantity; a move to its own slot, which
\* the code does not carry through, still gives nobody a second restricted item.
LEMMA MoveItemIs ==
    ASSUME NEW s, Sound(s), NEW src \in Taken(s), NEW dst \in 1..slotLimit
    PROVE  /\ Sound(MoveItem(s, src, dst))
           /\ src # dst => SameHeld(MoveItem(s, src, dst), s)
           /\ OneKept(MoveItem(s, src, dst), s)
<1> DEFINE a == At(s, src)
<1> DEFINE b == At(s, dst)
<1> DEFINE max == SlotMax[a.id]
<1> DEFINE r == MoveItem(s, src, dst)
<1>1. a \in Item /\ Fits(a) /\ src \in 1..slotLimit /\ a.id \in Ids /\ a.q \in Nat /\ max \in Nat \ {0}
  BY SoundIs DEF Item
<1>2. /\ Sound(Without(s, src)) /\ Taken(Without(s, src)) = Taken(s) \ {src}
      /\ \A o \in Taken(s) \ {src} : At(Without(s, src), o) = At(s, o)
      /\ \A id : Held(Without(s, src), id) = Held(s, id) - Q(a, id)
  BY WithoutIs
<1>3. \A id : Held(s, id) \in Nat /\ Q(a, id) \in Nat /\ Q(a, id) <= Held(s, id)
  BY HeldIs
<1>4. CASE dst \notin Taken(s)
  <2> DEFINE w == Without(s, src)
  <2>1. r = Put(w, dst, a)
    BY <1>4 DEF MoveItem, At
  <2>2. dst \notin Taken(w) /\ Sound(w) /\ \A id : Held(w, id) = Held(s, id) - Q(a, id)
    BY <1>2, <1>4
  <2> HIDE DEF w, a, r
  <2>3. Sound(Put(w, dst, a)) /\ \A id : Held(Put(w, dst, a), id) = Held(w, id) + Q(a, id)
    BY <1>1, <2>2, PutIs
  <2>4. \A id : Held(r, id) = Held(s, id)
    BY <1>3, <2>1, <2>2, <2>3
  <2> QED BY <2>1, <2>3, <2>4, SameKeepsOne DEF SameHeld, r
<1>5. CASE dst \in Taken(s) /\ ~Mergeable(a, b) /\ src = dst
  <2> DEFINE w == Without(s, src)
  <2>1. r = Put(w, src, a)
    BY <1>5 DEF MoveItem, At
  <2>2. src \notin Taken(w) /\ Sound(w) /\ \A id : Held(w, id) = Held(s, id) - Q(a, id)
    BY <1>2
  <2> HIDE DEF w, a, r
  <2>3. Sound(Put(w, src, a)) /\ \A id : Held(Put(w, src, a), id) = Held(w, id) + Q(a, id)
    BY <1>1, <2>2, PutIs
  <2>4. \A id : Held(r, id) = Held(s, id)
    BY <1>3, <2>1, <2>2, <2>3
  <2> QED BY <2>1, <2>3, <2>4, SameKeepsOne DEF SameHeld, r
<1>6. CASE dst \in Taken(s) /\ ~Mergeable(a, b) /\ src # dst
  <2> DEFINE w == Without(s, src)
  <2> DEFINE v == Without(w, dst)
  <2> DEFINE u == Put(v, src, b)
  <2>1. r = Put(u, dst, a)
    BY <1>6 DEF MoveItem, At
  <2>2. /\ Sound(w) /\ Taken(w) = Taken(s) \ {src} /\ dst \in Taken(w) /\ At(w, dst) = b
        /\ \A id : Held(w, id) = Held(s, id) - Q(a, id)
    BY <1>2, <1>6
  <2>3. b \in Item /\ Fits(b) /\ \A id : Q(b, id) \in Nat
    BY <1>6, SoundIs, HeldIs
  <2> HIDE DEF w
  <2>4. Sound(v) /\ Taken(v) = Taken(w) \ {dst} /\ \A id : Held(v, id) = Held(w, id) - Q(b, id)
    BY <2>2, WithoutIs
  <2>5. src \notin Taken(v) /\ dst \notin Taken(v)
    BY <2>2, <2>4
  <2> HIDE DEF v
  <2>6. Sound(u) /\ Taken(u) = Taken(v) \cup {src} /\ \A id : Held(u, id) = Held(v, id) + Q(b, id)
    BY <1>1, <2>3, <2>4, <2>5, PutIs
  <2>7. dst \notin Taken(u)
    BY <1>6, <2>5, <2>6
  <2> HIDE DEF u, a, b, r
  <2>8. Sound(Put(u, dst, a)) /\ \A id : Held(Put(u, dst, a), id) = Held(u, id) + Q(a, id)
    BY <1>1, <2>6, <2>7, PutIs
  <2>9. \A id : Held(r, id) = Held(s, id)
    <3> TAKE id
    <3>1. Held(r, id) = (((Held(s, id) - Q(a, id)) - Q(b, id)) + Q(b, id)) + Q(a, id)
      BY <2>1, <2>2, <2>4, <2>6, <2>8
    <3> QED BY <1>3, <2>3, <3>1
  <2> QED BY <2>1, <2>8, <2>9, SameKeepsOne DEF SameHeld, r
<1>7. ASSUME dst \in Taken(s), Mergeable(a, b)
      PROVE  /\ b \in Item /\ Fits(b) /\ b.id = a.id /\ ~Rech(a) /\ ~Rech(b)
             /\ a.q \in 1..max /\ b.q \in 1..max
             /\ \A q \in 1..max : Fits([a EXCEPT !.q = q]) /\ Fits([b EXCEPT !.q = q])
             /\ \A q \in Nat : /\ [a EXCEPT !.q = q] \in Item /\ [b EXCEPT !.q = q] \in Item
                               /\ [a EXCEPT !.q = q].q = q /\ [b EXCEPT !.q = q].q = q
                               /\ [a EXCEPT !.q = q].id = a.id /\ [b EXCEPT !.q = q].id = b.id
  <2>1. b \in Item /\ Fits(b) /\ b.id = a.id /\ ~Rech(a)
    BY <1>7, SoundIs DEF Mergeable
  <2>2. ~Rech(b)
    BY <2>1 DEF Rech
  <2> HIDE DEF a, b
  <2>3. a.q \in 1..max /\ b.q \in 1..max
    BY <1>1, <2>1, <2>2 DEF Fits, Item
  <2>4. \A q \in Nat : /\ [a EXCEPT !.q = q] \in Item /\ [b EXCEPT !.q = q] \in Item
                       /\ [a EXCEPT !.q = q].q = q /\ [b EXCEPT !.q = q].q = q
                       /\ [a EXCEPT !.q = q].id = a.id /\ [b EXCEPT !.q = q].id = b.id
    BY <1>1, <2>1 DEF Item
  <2>5. \A q \in 1..max : Fits([a EXCEPT !.q = q]) /\ Fits([b EXCEPT !.q = q])
    BY <1>1, <2>1, <2>2, <2>4 DEF Fits, Rech
  <2> QED BY <2>1, <2>2, <2>3, <2>4, <2>5
<1>8. CASE dst \in Taken(s) /\ Mergeable(a, b) /\ a.q + b.q > max
  <2> DEFINE rest == a.q + b.q - max
  <2> DEFINE w == WithQuantity(s, src, rest)
  <2>1. r = WithQuantity(w, dst, max)
    BY <1>8 DEF MoveItem, At
  <2>2. rest \in 1..max /\ max \in 1..max /\ rest \in Nat
    BY <1>1, <1>7, <1>8
  <2>3. Fits([a EXCEPT !.q = rest])
    BY <1>7, <1>8, <2>2
  <2>4. /\ Sound(w) /\ Taken(w) = Taken(s) /\ At(w, src) = [a EXCEPT !.q = rest]
        /\ \A o \in Taken(s) \ {src} : At(w, o) = At(s, o)
        /\ \A id : Held(w, id) = IF id = a.id THEN Held(s, id) + rest - a.q ELSE Held(s, id)
    <3> HIDE DEF rest
    <3>1. rest \in Nat
      BY <2>2
    <3> QED BY <2>3, <3>1, WithQuantityIs
  <2> DEFINE c == At(w, dst)
  <2>5. c = IF src = dst THEN [a EXCEPT !.q = rest] ELSE b
    BY <1>8, <2>4
  <2> HIDE DEF w, a, b
  <2>6. Fits([c EXCEPT !.q = max]) /\ c.id = a.id /\ c.q = (IF src = dst THEN rest ELSE b.q)
    <3>1. CASE src = dst
      <4>1. [[a EXCEPT !.q = rest] EXCEPT !.q = max] = [a EXCEPT !.q = max]
        BY <1>1 DEF Item
      <4>2. c = [a EXCEPT !.q = rest]
        BY <2>5, <3>1
      <4>3. Fits([a EXCEPT !.q = max])
        BY <1>7, <1>8, <2>2
      <4>4. [a EXCEPT !.q = rest].id = a.id /\ [a EXCEPT !.q = rest].q = rest
        BY <1>7, <1>8, <2>2
      <4> HIDE DEF c, rest, max
      <4> QED BY <3>1, <4>1, <4>2, <4>3, <4>4
    <3>2. CASE src # dst
      BY <1>7, <1>8, <2>2, <2>5, <3>2
    <3> QED BY <3>1, <3>2
  <2> HIDE DEF c
  <2>7. /\ Sound(WithQuantity(w, dst, max))
        /\ \A id : Held(WithQuantity(w, dst, max), id) =
                     IF id = c.id THEN Held(w, id) + max - c.q ELSE Held(w, id)
    BY <1>1, <1>8, <2>4, <2>6, WithQuantityIs DEF c
  <2> HIDE DEF r
  <2>8. \A id : Held(r, id) = IF id = a.id /\ src = dst THEN Held(s, id) + max - a.q ELSE Held(s, id)
    <3> TAKE id
    <3>1. Held(r, id) = IF id = a.id THEN Held(w, id) + max - c.q ELSE Held(w, id)
      BY <2>1, <2>6, <2>7
    <3>2. Held(w, id) = IF id = a.id THEN Held(s, id) + rest - a.q ELSE Held(s, id)
      BY <2>4
    <3>3. a.q \in Nat /\ b.q \in Nat /\ max \in Nat /\ Held(s, id) \in Nat
      BY <1>1, <1>3, <1>7, <1>8
    <3> HIDE DEF max
    <3> QED BY <2>6, <3>1, <3>2, <3>3
  <2>9. OneKept(r, s)
    <3> SUFFICES ASSUME NEW id \in OneOfAKind, Held(s, id) <= 1 PROVE Held(r, id) <= 1
      BY DEF OneKept
    <3>1. CASE id = a.id /\ src = dst
      <4>1. a.q <= Held(s, id)
        BY <1>3, <3>1 DEF Q
      <4>2. b = a
        BY <3>1 DEF a, b
      <4>3. max = 1 /\ a.q = 1
        BY <1>1, <1>7, <1>8, <4>1, <4>2, <1>3
      <4> HIDE DEF max
      <4> QED BY <1>3, <2>8, <3>1, <4>3
    <3>2. CASE ~(id = a.id /\ src = dst)
      BY <2>8, <3>2
    <3> QED BY <3>1, <3>2
  <2>10. src # dst => SameHeld(r, s)
    BY <2>8 DEF SameHeld
  <2> QED BY <2>1, <2>7, <2>9, <2>10 DEF r
<1>9. CASE dst \in Taken(s) /\ Mergeable(a, b) /\ ~(a.q + b.q > max)
  <2> DEFINE sum == a.q + b.q
  <2> DEFINE w == WithQuantity(s, dst, sum)
  <2>1. r = Without(w, src)
    BY <1>9 DEF MoveItem, At
  <2>2. sum \in 1..max /\ sum \in Nat
    BY <1>1, <1>7, <1>9
  <2>3. Fits([b EXCEPT !.q = sum])
    BY <1>7, <1>9, <2>2
  <2>4. /\ Sound(w) /\ Taken(w) = Taken(s) /\ At(w, dst) = [b EXCEPT !.q = sum]
        /\ \A o \in Taken(s) \ {dst} : At(w, o) = At(s, o)
        /\ \A id : Held(w, id) = IF id = b.id THEN Held(s, id) + sum - b.q ELSE Held(s, id)
    <3> HIDE DEF sum
    <3>1. sum \in Nat /\ dst \in Taken(s)
      BY <1>9, <2>2
    <3> QED BY <2>3, <3>1, WithQuantityIs
  <2> DEFINE c == At(w, src)
  <2>5. c = IF src = dst THEN [b EXCEPT !.q = sum] ELSE a
    BY <1>9, <2>4
  <2> HIDE DEF w, a, b
  <2>6. c.id = a.id /\ c.q = (IF src = dst THEN sum ELSE a.q)
    BY <1>7, <1>9, <2>2, <2>5
  <2>7. Sound(Without(w, src)) /\ \A id : Held(Without(w, src), id) = Held(w, id) - Q(c, id)
    BY <2>4, WithoutIs DEF c
  <2> HIDE DEF c, r
  <2>8. \A id : Held(r, id) = IF id = a.id /\ src = dst THEN Held(s, id) - b.q ELSE Held(s, id)
    <3> TAKE id
    <3>1. Held(r, id) = Held(w, id) - Q(c, id)
      BY <2>1, <2>7
    <3>2. Held(w, id) = IF id = a.id THEN Held(s, id) + sum - b.q ELSE Held(s, id)
      BY <2>4, <1>7, <1>9
    <3>3. a.q \in Nat /\ b.q \in Nat /\ Held(s, id) \in Nat
      BY <1>1, <1>3, <1>7, <1>9
    <3>4. Q(c, id) = IF id = a.id THEN (IF src = dst THEN sum ELSE a.q) ELSE 0
      BY <2>6 DEF Q
    <3> QED BY <3>1, <3>2, <3>3, <3>4
  <2>9. OneKept(r, s)
    <3> SUFFICES ASSUME NEW id \in OneOfAKind, Held(s, id) <= 1 PROVE Held(r, id) <= 1
      BY DEF OneKept
    <3>1. b.q \in Nat /\ Held(s, id) \in Nat
      BY <1>3, <1>7, <1>9
    <3> QED BY <2>8, <3>1
  <2>10. src # dst => SameHeld(r, s)
    BY <2>8 DEF SameHeld
  <2> QED BY <2>1, <2>7, <2>9, <2>10 DEF r
<1> QED BY <1>4, <1>5, <1>6, <1>8, <1>9

\* What is left in a slot that something is taken from.
LEMMA RemoveFromSlotIs ==
    ASSUME NEW s, Sound(s), NEW p \in Taken(s), NEW q \in Nat, q <= At(s, p).q, NEW consume \in BOOLEAN
    PROVE  LET r == RemoveFromSlot(s, p, q, consume)
           IN  /\ Sound(r)
               /\ Taken(s) \ {p} \subseteq Taken(r) /\ Taken(r) \subseteq Taken(s)
               /\ \A o \in Taken(s) \ {p} : At(r, o) = At(s, o)
               /\ p \in Taken(r) => /\ At(r, p) = [At(s, p) EXCEPT !.q = At(s, p).q - q]
                                    /\ ~consume => q < At(s, p).q
               /\ \A id : Held(r, id) = IF id = At(s, p).id THEN Held(s, id) - q ELSE Held(s, id)
<1> DEFINE a == At(s, p)
<1> DEFINE r == RemoveFromSlot(s, p, q, consume)
<1>1. a \in Item /\ Fits(a) /\ a.q \in Nat
  BY SoundIs DEF Item
<1>2. \A id : Held(s, id) \in Nat
  BY HeldIs
<1>3. CASE a.q <= q /\ ~(consume /\ Rech(a))
  <2>1. r = Without(s, p)
    BY <1>3 DEF RemoveFromSlot, At
  <2>2. a.q = q
    BY <1>1, <1>3
  <2>3. /\ Sound(r) /\ Taken(r) = Taken(s) \ {p} /\ \A o \in Taken(s) \ {p} : At(r, o) = At(s, o)
        /\ \A id : Held(r, id) = Held(s, id) - Q(a, id)
    BY <2>1, WithoutIs
  <2>4. \A id : Held(r, id) = IF id = a.id THEN Held(s, id) - q ELSE Held(s, id)
    BY <1>2, <2>2, <2>3 DEF Q
  <2> HIDE DEF r
  <2> QED BY <2>3, <2>4 DEF r
<1>4. CASE ~(a.q <= q /\ ~(consume /\ Rech(a)))
  <2>1. r = WithQuantity(s, p, a.q - Least(q, a.q))
    BY <1>4 DEF RemoveFromSlot, At
  <2>2. a.q - Least(q, a.q) = a.q - q /\ a.q - q \in Nat /\ (~consume => q < a.q)
    BY <1>1, <1>4 DEF Least
  <2>3. PICK n : n = a.q - q OBVIOUS
  <2> HIDE DEF a, r
  <2>4. Fits([a EXCEPT !.q = n])
    <3>1. [a EXCEPT !.q = n].q = n /\ [a EXCEPT !.q = n].id = a.id
      BY <1>1 DEF Item
    <3>2. n <= a.q /\ (n = 0 => Rech(a))
      BY <1>1, <1>4, <2>2, <2>3
    <3>3. Rech([a EXCEPT !.q = n]) <=> Rech(a)
      BY <3>1 DEF Rech
    <3>4. a.id \in Ids
      BY <1>1 DEF Item
    <3>5. SlotMax[a.id] \in Nat /\ MaxCharge[a.id] \in Nat
      BY <3>4
    <3> QED BY <1>1, <2>2, <2>3, <3>1, <3>2, <3>3, <3>5 DEF Fits
  <2>5. n \in Nat /\ r = WithQuantity(s, p, n)
    BY <2>1, <2>2, <2>3
  <2>6. /\ Sound(r) /\ Taken(r) = Taken(s) /\ At(r, p) = [a EXCEPT !.q = n]
        /\ \A o \in Taken(s) \ {p} : At(r, o) = At(s, o)
        /\ \A id : Held(r, id) = IF id = a.id THEN Held(s, id) + n - a.q ELSE Held(s, id)
    BY <2>4, <2>5, WithQuantityIs DEF a
  <2>7. \A id : Held(r, id) = IF id = a.id THEN Held(s, id) - q ELSE Held(s, id)
    BY <1>1, <1>2, <2>3, <2>6
  <2> QED BY <2>2, <2>3, <2>6, <2>7 DEF a, r
<1> QED BY <1>3, <1>4

\* A fold that goes upwards, with every value for t in W[t].
IsUp(h, D, W, base, F) ==
    /\ h = [t \in SUBSET D |-> IF t = {} THEN base ELSE F[Max(t)][h[t \ {Max(t)}]]]
    /\ \A t \in SUBSET D : h[t] \in W[t]

\* The fold that goes upwards through a finite set of integers exists, and each of
\* its values is where the steps keep it.
LEMMA FoldUp ==
    ASSUME NEW D \in SUBSET Int, IsFiniteSet(D), NEW W, NEW base \in W[{}], NEW F,
           \A t \in SUBSET D : t # {} => \A r \in W[t \ {Max(t)}] : F[Max(t)][r] \in W[t]
    PROVE  \E h : IsUp(h, D, W, base, F)
<1> DEFINE pick == [t \in SUBSET D |-> Max(t)]
<1>1. \A t \in SUBSET D : t # {} => pick[t] \in t /\ pick[t] = Max(t)
  BY MaxIs, FS_Subset
<1>2. \A t \in SUBSET D : t # {} =>
               pick[t] \in t /\ \A r \in W[t \ {pick[t]}] : F[pick[t]][r] \in W[t]
  BY <1>1
<1>3. PICK h : IsFold(h, D, pick, base, F) /\ \A t \in SUBSET D : h[t] \in W[t]
  <2> HIDE DEF pick
  <2> QED BY <1>2, FoldExists
<1>4. h = [t \in SUBSET D |-> IF t = {} THEN base ELSE F[pick[t]][h[t \ {pick[t]}]]]
  BY <1>3 DEF IsFold
<1>5. h = [t \in SUBSET D |-> IF t = {} THEN base ELSE F[Max(t)][h[t \ {Max(t)}]]]
  <2> HIDE DEF pick
  <2> QED BY <1>1, <1>4
<1> QED BY <1>3, <1>5 DEF IsUp

\* What each step upwards keeps, the fold has.
LEMMA Climb ==
    ASSUME NEW D \in SUBSET Int, IsFiniteSet(D), NEW W, NEW g, g[{}] \in W[{}],
           \A t \in SUBSET D : t # {} /\ g[t \ {Max(t)}] \in W[t \ {Max(t)}] => g[t] \in W[t]
    PROVE  \A t \in SUBSET D : g[t] \in W[t]
<1> DEFINE J == {t \in SUBSET D : g[t] \in W[t]}
<1>1. \A t \in SUBSET D : t # {} => \E x \in t : t \ {x} \in J => t \in J
  <2> SUFFICES ASSUME NEW t \in SUBSET D, t # {} PROVE \E x \in t : t \ {x} \in J => t \in J
    OBVIOUS
  <2>1. Max(t) \in t
    BY FS_Subset, MaxIs
  <2>2. t \ {Max(t)} \in J => t \in J OBVIOUS
  <2> HIDE DEF J
  <2> QED BY <2>1, <2>2
<1>2. {} \in J OBVIOUS
<1> HIDE DEF J
<1>3. SUBSET D \subseteq J
  BY <1>1, <1>2, Growing
<1> QED BY <1>3 DEF J

\* No stack of nothing.
NoEmpty(s) == \A p \in Taken(s) : At(s, p).q # 0

\* No gaps, items by id, of each kind at most one stack that is not full.
Neat(s) ==
    /\ Taken(s) = 1..Len(s)
    /\ \A p, q \in Taken(s) : p < q =>
         /\ At(s, p).id <= At(s, q).id
         /\ Mergeable(At(s, p), At(s, q)) => SlotMax[At(s, p).id] \in {At(s, p).q, At(s, q).q}

\* An item that may have been filled up.
Grown(a, b) ==
    /\ a.id = b.id /\ a.owner = b.owner /\ a.until = b.until
    /\ b.q = SlotMax[b.id] => a.q = b.q

\* Removing q of an item by its id: exactly q fewer when there are as many, none
\* left when there are not, every other item as it was, and no empty stack made
\* unless it is a consumption of rechargeables (removeById).
LEMMA RemoveByIdIs ==
    ASSUME NEW s, Sound(s), NEW id0 \in Ids, NEW q \in Nat, NEW consume \in BOOLEAN
    PROVE  LET r == RemoveById(s, id0, q, consume)
           IN  /\ Sound(r.inv)
               /\ \A id : id # id0 => Held(r.inv, id) = Held(s, id)
               /\ q <= Held(s, id0) => Held(r.inv, id0) = Held(s, id0) - q
               /\ q > Held(s, id0) => Held(r.inv, id0) = 0
               /\ ~consume /\ NoEmpty(s) => NoEmpty(r.inv)
<1> DEFINE D == SlotsOf(s, id0)
<1> DEFINE base == [inv |-> s, left |-> q, done |-> FALSE]
<1> DEFINE step(r, slot) ==
             LET has == r.inv[EntryAt(r.inv, slot)].it.q
             IN  IF r.done THEN r
                 ELSE [inv |-> RemoveFromSlot(r.inv, slot, Least(r.left, has), consume),
                       left |-> r.left - Least(r.left, has),
                       done |-> r.left <= has]
<1> DEFINE Rec(f) == f = [t \in SUBSET D |-> IF t = {} THEN base ELSE step(f[t \ {Max(t)}], Max(t))]
<1> DEFINE g == CHOOSE f : Rec(f)
<1>1. RemoveById(s, id0, q, consume) = g[D]
  BY DEF RemoveById, Upwards, MapThenFoldSet
<1> DEFINE f0 == QAt(s, id0)
<1> DEFINE R == [inv: Seq(Entry), left: Nat, done: BOOLEAN]
<1> DEFINE P(r, t) ==
             /\ Sound(r.inv) /\ Taken(r.inv) \subseteq Taken(s)
             /\ \A o \in Taken(r.inv) : At(r.inv, o).id = At(s, o).id
             /\ \A o \in D \ t : o \in Taken(r.inv) /\ At(r.inv, o) = At(s, o)
             /\ \A id : id # id0 => Held(r.inv, id) = Held(s, id)
             /\ r.left <= q /\ Held(r.inv, id0) = Held(s, id0) - (q - r.left)
             /\ ~consume /\ NoEmpty(s) => NoEmpty(r.inv)
             /\ r.done => r.left = 0
             /\ ~r.done => q - r.left = SumOver(f0, t)
<1> DEFINE W == [t \in SUBSET D |-> {r \in R : P(r, t)}]
<1>01. D \in SUBSET Int /\ IsFiniteSet(D)
  <2>1. D \subseteq Taken(s) /\ IsFiniteSet(Taken(s)) /\ Taken(s) \subseteq 1..slotLimit /\ slotLimit \in Nat
    BY HeldIs, SoundIs
  <2> HIDE DEF D
  <2> QED BY <2>1, FS_Subset
<1>9. \A o \in D : o \in Taken(s) /\ At(s, o).id = id0 /\ f0[o] = At(s, o).q /\ f0[o] \in Nat
  <2>1. \A o \in D : o \in Taken(s) /\ At(s, o).id = id0
    BY HeldIs
  <2> HIDE DEF D
  <2> QED BY <2>1, SoundIs DEF QAt, Q, Item
<1>10. \A id : Held(s, id) \in Nat
  BY HeldIs
<1> HIDE DEF D, f0
<1>02. base \in W[{}]
  <2>1. base \in R /\ s \in Seq(Entry)
    BY DEF Sound
  <2>2. SumOver(f0, {}) = 0
    BY FS_EmptySet, SumRemove
  <2>3. base.inv = s /\ base.left = q /\ ~base.done OBVIOUS
  <2> HIDE DEF base
  <2>4. P(base, {})
    BY <1>9, <1>10, <2>2, <2>3
  <2> HIDE DEF P, R
  <2> QED BY <2>1, <2>4
<1>03. \A t \in SUBSET D : t # {} => \A r \in W[t \ {Max(t)}] : step(r, Max(t)) \in W[t]
  <2> SUFFICES ASSUME NEW t \in SUBSET D, t # {}, NEW r \in W[t \ {Max(t)}]
               PROVE  step(r, Max(t)) \in W[t]
    OBVIOUS
  <2> DEFINE k == Max(t)
  <2> DEFINE u == t \ {k}
  <2>1. k \in t /\ k \in D /\ IsFiniteSet(t)
    BY <1>01, MaxIs, FS_Subset
  <2>2. r \in R /\ P(r, u)
    <3>1. u \in SUBSET D OBVIOUS
    <3> HIDE DEF P, R, u, k
    <3> QED BY <3>1 DEF u, k
  <2>3. SumOver(f0, t) = f0[k] + SumOver(f0, u) /\ SumOver(f0, u) \in Int
    <3>1. \A o \in t : f0[o] \in Int
      BY <1>9
    <3>2. IsFiniteSet(u)
      BY <2>1, FS_Subset
    <3> HIDE DEF k
    <3> QED BY <2>1, <3>1, <3>2, SumRemove
  <2> SUFFICES step(r, k) \in R /\ P(step(r, k), t)
    <3> HIDE DEF P, R, step
    <3> QED BY DEF k
  <2> HIDE DEF k
  <2>4. r.left \in Nat /\ r.done \in BOOLEAN
    BY <2>2
  <2>5. CASE r.done
    <3>1. step(r, k) = r
      BY <2>5
    <3>2. P(r, t)
      BY <2>2, <2>5
    <3> HIDE DEF step, P
    <3> QED BY <2>2, <3>1, <3>2
  <2>6. CASE ~r.done
    <3> DEFINE a == At(r.inv, k)
    <3>1. k \in Taken(r.inv) /\ a = At(s, k) /\ Sound(r.inv) /\ a.id = id0 /\ a.q \in Nat /\ a \in Item /\ f0[k] = a.q
      <4>1. k \in D \ u
        BY <2>1
      <4>2. k \in Taken(r.inv) /\ a = At(s, k) /\ Sound(r.inv)
        BY <2>2, <4>1
      <4> QED BY <1>9, <2>1, <4>2, SoundIs
    <3> DEFINE m == Least(r.left, a.q)
    <3> DEFINE i == RemoveFromSlot(r.inv, k, m, consume)
    <3> DEFINE left == r.left - m
    <3> DEFINE done == r.left <= a.q
    <3>2. step(r, k) = [inv |-> i, left |-> left, done |-> done]
      BY <2>6 DEF At
    <3>3. m \in Nat /\ m <= a.q /\ m <= r.left /\ left \in Nat /\ (done => left = 0) /\ (~done => m = a.q)
          /\ done \in BOOLEAN
      BY <2>4, <3>1 DEF Least
    <3>4. /\ Sound(i) /\ Taken(r.inv) \ {k} \subseteq Taken(i) /\ Taken(i) \subseteq Taken(r.inv)
          /\ \A o \in Taken(r.inv) \ {k} : At(i, o) = At(r.inv, o)
          /\ k \in Taken(i) => At(i, k) = [a EXCEPT !.q = a.q - m] /\ (~consume => m < a.q)
          /\ \A id : Held(i, id) = IF id = a.id THEN Held(r.inv, id) - m ELSE Held(r.inv, id)
      <4>1. PICK j : j = r.inv OBVIOUS
      <4>2. Sound(j) /\ k \in Taken(j) /\ m \in Nat /\ m <= At(j, k).q
        BY <3>1, <3>3, <4>1
      <4> HIDE DEF m
      <4>3. LET x == RemoveFromSlot(j, k, m, consume)
            IN  /\ Sound(x)
                /\ Taken(j) \ {k} \subseteq Taken(x) /\ Taken(x) \subseteq Taken(j)
                /\ \A o \in Taken(j) \ {k} : At(x, o) = At(j, o)
                /\ k \in Taken(x) => /\ At(x, k) = [At(j, k) EXCEPT !.q = At(j, k).q - m]
                                     /\ ~consume => m < At(j, k).q
                /\ \A id : Held(x, id) = IF id = At(j, k).id THEN Held(j, id) - m ELSE Held(j, id)
        BY <4>2, RemoveFromSlotIs
      <4> QED BY <4>1, <4>3
    <3>5. k \in Taken(i) => At(i, k).id = a.id /\ At(i, k).q = a.q - m
      <4> HIDE DEF a, m, i
      <4> QED BY <3>1, <3>3, <3>4 DEF Item
    <3> DEFINE v == [inv |-> i, left |-> left, done |-> done]
    <3>6. v.inv = i /\ v.left = left /\ v.done = done OBVIOUS
    <3>7. v \in R
      <4>1. i \in Seq(Entry)
        BY <3>4 DEF Sound
      <4> HIDE DEF i, left, done
      <4> QED BY <3>3, <4>1
    <3>8. NoEmpty(r.inv) /\ ~consume => NoEmpty(i)
      <4> HIDE DEF a, m, i
      <4>1. ASSUME NoEmpty(r.inv), ~consume, NEW o \in Taken(i) PROVE At(i, o).q # 0
        <5>1. CASE o = k
          BY <3>1, <3>3, <3>4, <3>5, <4>1, <5>1
        <5>2. CASE o # k
          BY <3>4, <4>1, <5>2 DEF NoEmpty
        <5> QED BY <5>1, <5>2
      <4> QED BY <4>1 DEF NoEmpty
    <3> HIDE DEF a, m, i, left, done, v
    <3>9. /\ Sound(v.inv) /\ Taken(v.inv) \subseteq Taken(s)
          /\ \A o \in Taken(v.inv) : At(v.inv, o).id = At(s, o).id
      <4>1. \A o \in Taken(i) : At(i, o).id = At(s, o).id
        <5> TAKE o \in Taken(i)
        <5>1. CASE o = k
          BY <3>1, <3>5, <5>1
        <5>2. CASE o # k
          BY <2>2, <3>4, <5>2
        <5> QED BY <5>1, <5>2
      <4> QED BY <2>2, <3>4, <3>6, <4>1
    <3>10. \A o \in D \ t : o \in Taken(v.inv) /\ At(v.inv, o) = At(s, o)
      <4> TAKE o \in D \ t
      <4>1. o \in D \ u /\ o # k
        BY <2>1
      <4>2. o \in Taken(r.inv) /\ At(r.inv, o) = At(s, o)
        BY <2>2, <4>1
      <4> QED BY <3>4, <3>6, <4>1, <4>2
    <3>11. \A id : id # id0 => Held(v.inv, id) = Held(s, id)
      BY <2>2, <3>1, <3>4, <3>6
    <3>12. v.left <= q /\ Held(v.inv, id0) = Held(s, id0) - (q - v.left)
      <4>1. Held(i, id0) = Held(r.inv, id0) - m
        BY <3>1, <3>4
      <4>2. Held(r.inv, id0) = Held(s, id0) - (q - r.left) /\ r.left <= q
        BY <2>2
      <4>3. left = r.left - m
        BY DEF left
      <4> QED BY <1>10, <2>4, <3>3, <3>6, <4>1, <4>2, <4>3
    <3>13. ~consume /\ NoEmpty(s) => NoEmpty(v.inv)
      BY <2>2, <3>6, <3>8
    <3>14. (v.done => v.left = 0) /\ (~v.done => q - v.left = SumOver(f0, t))
      <4>1. ASSUME ~v.done PROVE q - v.left = SumOver(f0, t)
        <5>1. q - r.left = SumOver(f0, u)
          BY <2>2, <2>6
        <5>2. left = r.left - m /\ m = a.q
          BY <3>3, <3>6, <4>1 DEF left
        <5> QED BY <2>3, <2>4, <3>1, <3>6, <5>1, <5>2
      <4> QED BY <3>3, <3>6, <4>1
    <3>15. P(v, t)
      BY <3>9, <3>10, <3>11, <3>12, <3>13, <3>14
    <3>16. step(r, k) = v
      BY <3>2 DEF v
    <3> HIDE DEF step, P, R
    <3> QED BY <3>7, <3>15, <3>16
  <2> QED BY <2>4, <2>5, <2>6
<1>04. \A t \in SUBSET D : g[t] \in W[t]
  <2> DEFINE F == [k \in D |-> [r \in R |-> step(r, k)]]
  <2>1. \A t \in SUBSET D : t # {} => Max(t) \in t /\ Max(t) \in D
    BY <1>01, MaxIs, FS_Subset
  <2>2. \A t \in SUBSET D : \A r \in W[t] : r \in R
    BY DEF W
  <2> HIDE DEF W, R, step, base, D
  <2>3. \A t \in SUBSET D : t # {} => \A r \in W[t \ {Max(t)}] : F[Max(t)][r] = step(r, Max(t))
    <3> SUFFICES ASSUME NEW t \in SUBSET D, t # {}, NEW r \in W[t \ {Max(t)}]
                 PROVE  F[Max(t)][r] = step(r, Max(t))
      OBVIOUS
    <3>1. t \ {Max(t)} \in SUBSET D OBVIOUS
    <3>2. r \in R /\ Max(t) \in D
      BY <2>1, <2>2, <3>1
    <3> QED BY <3>2
  <2>12. PICK h : IsUp(h, D, W, base, F)
    <3> HIDE DEF F
    <3>1. \A t \in SUBSET D : t # {} => \A r \in W[t \ {Max(t)}] : F[Max(t)][r] \in W[t]
      BY <1>03, <2>3
    <3>2. D \in SUBSET Int /\ IsFiniteSet(D) /\ base \in W[{}]
      BY <1>01, <1>02
    <3> QED BY <3>1, <3>2, FoldUp
  <2>4. /\ h = [t \in SUBSET D |-> IF t = {} THEN base ELSE F[Max(t)][h[t \ {Max(t)}]]]
        /\ \A t \in SUBSET D : h[t] \in W[t]
    <3> HIDE DEF F
    <3> QED BY <2>12 DEF IsUp
  <2>5. \A t \in SUBSET D : t # {} => F[Max(t)][h[t \ {Max(t)}]] = step(h[t \ {Max(t)}], Max(t))
    <3> HIDE DEF F
    <3> SUFFICES ASSUME NEW t \in SUBSET D, t # {}
                 PROVE  F[Max(t)][h[t \ {Max(t)}]] = step(h[t \ {Max(t)}], Max(t))
      OBVIOUS
    <3>1. t \ {Max(t)} \in SUBSET D OBVIOUS
    <3>2. h[t \ {Max(t)}] \in W[t \ {Max(t)}]
      BY <2>4, <3>1
    <3> QED BY <2>3, <3>2
  <2>6. Rec(h)
    <3> HIDE DEF F
    <3> QED BY <2>4, <2>5
  <2>7. Rec(g)
    <3> HIDE DEF Rec
    <3> QED BY <2>6
  <2>8. g[{}] = base /\ \A t \in SUBSET D : t # {} => g[t] = step(g[t \ {Max(t)}], Max(t))
    <3> HIDE DEF g
    <3> QED BY <2>7
  <2> HIDE DEF g
  <2>9. \A t \in SUBSET D : t # {} /\ g[t \ {Max(t)}] \in W[t \ {Max(t)}] => g[t] \in W[t]
    BY <1>03, <2>8
  <2> QED BY <1>01, <1>02, <2>8, <2>9, Climb
<1> HIDE DEF g
<1>11. g[D] \in R /\ P(g[D], D)
  <2>1. g[D] \in W[D]
    BY <1>04
  <2> HIDE DEF P, R
  <2> QED BY <2>1
<1>12. SumOver(f0, D) = Held(s, id0)
  BY HeldIs DEF D, f0
<1>13. Sound(g[D].inv) /\ \A id : Held(g[D].inv, id) \in Nat
  BY <1>11, HeldIs
<1>14. g[D].left \in Nat /\ g[D].done \in BOOLEAN
  BY <1>11
<1>15. q <= Held(s, id0) => Held(g[D].inv, id0) = Held(s, id0) - q
  BY <1>10, <1>11, <1>12, <1>13, <1>14
<1>16. q > Held(s, id0) => Held(g[D].inv, id0) = 0
  BY <1>10, <1>11, <1>12, <1>13, <1>14
<1> QED BY <1>1, <1>11, <1>15, <1>16

\* Stacks of the item, filled up one after the other ...
FilledUp(s, it, slots) ==
    LET FillUp(r, slot) ==
            LET has == r.inv[EntryAt(r.inv, slot)].it
                add == Least(r.left, SlotMax[it.id] - has.q)
            IN  IF has.q < SlotMax[it.id]
                  THEN [inv |-> WithQuantity(r.inv, slot, has.q + add), left |-> r.left - add]
                  ELSE r
    IN  Upwards(FillUp, [inv |-> s, left |-> it.q], slots)

\* ... and new stacks in free slots.
PutInNew(r0, it, slots) ==
    LET PutNew(r, slot) ==
            LET add == Least(r.left, SlotMax[it.id])
            IN  IF r.left = 0 THEN r
                ELSE [inv |-> Put(r.inv, slot, [it EXCEPT !.q = add]), left |-> r.left - add]
    IN  Upwards(PutNew, r0, slots)

\* Stacking an item is filling up first and new slots after.
LEMMA StackParts ==
    ASSUME NEW s, NEW it, NEW slots
    PROVE  Stack(s, it, slots) = PutInNew(FilledUp(s, it, slots), it, Free(s))
BY DEF Stack, PutInNew, FilledUp

\* What is left of q when there is room for so much.
Rest(q, room) == IF q > room THEN q - room ELSE 0

\* What still fits on the stack of each slot.
RoomAt(s, it) == [p \in Taken(s) |-> SlotMax[it.id] - At(s, p).q]

\* Filling up the stacks in D: what is placed is what is gone from the rest, and
\* the rest is what exceeds the room in D.
LEMMA FilledUpIs ==
    ASSUME NEW s, Sound(s), NEW it \in Item, ~Rech(it), NEW D \in SUBSET Taken(s),
           \A p \in D : At(s, p).id = it.id
    PROVE  LET r == FilledUp(s, it, D)
           IN  /\ r = [inv |-> r.inv, left |-> r.left]
               /\ Sound(r.inv) /\ Taken(r.inv) = Taken(s) /\ Len(r.inv) = Len(s)
               /\ \A id : id # it.id => Held(r.inv, id) = Held(s, id)
               /\ r.left \in 0..it.q /\ Held(r.inv, it.id) = Held(s, it.id) + (it.q - r.left)
               /\ SumOver(RoomAt(s, it), D) \in Nat
               /\ r.left = Rest(it.q, SumOver(RoomAt(s, it), D))
               /\ \A o \in Taken(s) : Grown(At(r.inv, o), At(s, o))
               /\ r.left # 0 => \A o \in D : At(r.inv, o).q = SlotMax[it.id]
<1> DEFINE max == SlotMax[it.id]
<1> DEFINE base == [inv |-> s, left |-> it.q]
<1> DEFINE step(r, slot) ==
            LET has == r.inv[EntryAt(r.inv, slot)].it
                add == Least(r.left, max - has.q)
            IN  IF has.q < max
                  THEN [inv |-> WithQuantity(r.inv, slot, has.q + add), left |-> r.left - add]
                  ELSE r
<1> DEFINE Rec(f) == f = [t \in SUBSET D |-> IF t = {} THEN base ELSE step(f[t \ {Max(t)}], Max(t))]
<1> DEFINE g == CHOOSE f : Rec(f)
<1>1. FilledUp(s, it, D) = g[D]
  BY DEF FilledUp, Upwards, MapThenFoldSet
<1> DEFINE f0 == RoomAt(s, it)
<1> DEFINE R == [inv: Seq(Entry), left: Nat]
<1> DEFINE P(r, t) ==
             /\ Sound(r.inv) /\ Taken(r.inv) = Taken(s) /\ Len(r.inv) = Len(s)
             /\ \A o \in D \ t : At(r.inv, o) = At(s, o)
             /\ \A id : id # it.id => Held(r.inv, id) = Held(s, id)
             /\ r.left <= it.q /\ Held(r.inv, it.id) = Held(s, it.id) + (it.q - r.left)
             /\ r.left = Rest(it.q, SumOver(f0, t))
             /\ \A o \in Taken(s) : Grown(At(r.inv, o), At(s, o))
             /\ r.left # 0 => \A o \in t : At(r.inv, o).q = max
<1> DEFINE W == [t \in SUBSET D |-> {r \in R : P(r, t)}]
<1>01. D \in SUBSET Int /\ IsFiniteSet(D)
  <2>1. IsFiniteSet(Taken(s)) /\ Taken(s) \subseteq 1..slotLimit /\ slotLimit \in Nat
    BY SoundIs
  <2> QED BY <2>1, FS_Subset
<1>8. it.q \in Nat /\ max \in Nat \ {0} /\ it.id \in Ids
  BY DEF Item
<1>9. \A o \in D : /\ o \in Taken(s) /\ At(s, o) \in Item /\ ~Rech(At(s, o)) /\ At(s, o).q \in 1..max
                   /\ f0[o] = max - At(s, o).q /\ f0[o] \in Nat
  <2> TAKE o \in D
  <2>1. At(s, o) \in Item /\ Fits(At(s, o)) /\ At(s, o).id = it.id
    BY SoundIs
  <2>2. ~Rech(At(s, o))
    BY <2>1 DEF Rech
  <2>3. At(s, o).q \in Nat
    BY <2>1 DEF Item
  <2>4. At(s, o).q \in 1..max
    BY <1>8, <2>1, <2>2, <2>3 DEF Fits
  <2>5. f0[o] = max - At(s, o).q
    BY DEF RoomAt
  <2> HIDE DEF max, f0
  <2> QED BY <1>8, <2>1, <2>2, <2>4, <2>5
<1>10. \A id : Held(s, id) \in Nat
  BY HeldIs
<1> HIDE DEF f0, max
<1>7. \A t \in SUBSET D : IsFiniteSet(t) /\ (\A o \in t : f0[o] \in Nat) /\ SumOver(f0, t) \in Nat
  <2>1. \A t \in SUBSET D : IsFiniteSet(t) /\ \A o \in t : f0[o] \in Nat
    BY <1>01, <1>9, FS_Subset
  <2> QED BY <2>1, SumNat
<1>02. base \in W[{}]
  <2>1. base \in R
    BY <1>8 DEF Sound
  <2>2. SumOver(f0, {}) = 0
    BY FS_EmptySet, SumRemove
  <2>3. base.inv = s /\ base.left = it.q OBVIOUS
  <2> HIDE DEF base
  <2>4. P(base, {})
    BY <1>8, <1>9, <1>10, <2>2, <2>3 DEF Rest, Grown
  <2> HIDE DEF P, R
  <2> QED BY <2>1, <2>4
<1>03. \A t \in SUBSET D : t # {} => \A r \in W[t \ {Max(t)}] : step(r, Max(t)) \in W[t]
  <2> SUFFICES ASSUME NEW t \in SUBSET D, t # {}, NEW r \in W[t \ {Max(t)}]
               PROVE  step(r, Max(t)) \in W[t]
    OBVIOUS
  <2> DEFINE k == Max(t)
  <2> DEFINE u == t \ {k}
  <2>1. k \in t /\ k \in D /\ IsFiniteSet(t)
    BY <1>01, MaxIs, FS_Subset
  <2>2. r \in R /\ P(r, u)
    <3>1. u \in SUBSET D OBVIOUS
    <3> HIDE DEF P, R, u, k
    <3> QED BY <3>1 DEF u, k
  <2>3. SumOver(f0, t) = f0[k] + SumOver(f0, u) /\ SumOver(f0, u) \in Nat
    <3>1. \A o \in t : f0[o] \in Int
      BY <1>9
    <3>2. SumOver(f0, u) \in Nat
      BY <1>7
    <3> HIDE DEF k
    <3> QED BY <2>1, <3>1, <3>2, SumRemove
  <2> SUFFICES step(r, k) \in R /\ P(step(r, k), t)
    <3> HIDE DEF P, R, step
    <3> QED BY DEF k
  <2> HIDE DEF k
  <2>4. r.left \in Nat
    BY <2>2
  <2> DEFINE a == At(r.inv, k)
  <2>5. k \in Taken(r.inv) /\ a = At(s, k) /\ Sound(r.inv)
    <3>1. k \in D \ u
      BY <2>1
    <3> QED BY <1>9, <2>1, <2>2, <3>1
  <2>6. a \in Item /\ a.q \in 1..max /\ ~Rech(a) /\ a.id = it.id /\ f0[k] = max - a.q
    BY <1>9, <2>1, <2>5
  <2>7. r.left = Rest(it.q, SumOver(f0, u)) /\ r.left <= it.q
    BY <2>2
  <2>8. CASE ~(a.q < max)
    <3>1. step(r, k) = r
      BY <2>8 DEF At
    <3>2. a.q = max
      BY <1>8, <2>6, <2>8
    <3>3. SumOver(f0, t) = SumOver(f0, u)
      BY <1>8, <2>3, <2>6, <3>2
    <3>5. r.left # 0 => \A o \in t : At(r.inv, o).q = max
      BY <2>2, <3>2
    <3>4. P(r, t)
      BY <2>2, <3>3, <3>5
    <3> HIDE DEF step, P, R
    <3> QED BY <2>2, <3>1, <3>4
  <2>9. CASE a.q < max
    <3> DEFINE add == Least(r.left, max - a.q)
    <3> DEFINE i == WithQuantity(r.inv, k, a.q + add)
    <3> DEFINE v == [inv |-> i, left |-> r.left - add]
    <3>1. step(r, k) = v
      BY <2>9 DEF At
    <3>2. add \in Nat /\ add <= r.left /\ add <= max - a.q /\ a.q + add \in 1..max /\ a.q + add \in Nat
          /\ r.left - add \in Nat
      BY <1>8, <2>4, <2>6, <2>9 DEF Least
    <3>3. r.left - add = Rest(it.q, SumOver(f0, t))
      <4>1. PICK x : x = SumOver(f0, u) OBVIOUS
      <4>2. SumOver(f0, t) = (max - a.q) + x /\ x \in Nat
        BY <2>3, <2>6, <4>1
      <4>3. r.left = IF it.q > x THEN it.q - x ELSE 0
        BY <2>7, <4>1 DEF Rest
      <4>4. PICK y : y = max - a.q OBVIOUS
      <4>5. y \in Nat /\ add = IF r.left < y THEN r.left ELSE y
        BY <1>8, <2>6, <2>9, <4>4 DEF Least
      <4> HIDE DEF add
      <4>6. SumOver(f0, t) = y + x
        BY <4>2, <4>4
      <4> QED BY <1>8, <2>4, <4>2, <4>3, <4>5, <4>6 DEF Rest
    <3>4. PICK q : q = a.q + add OBVIOUS
    <3>5. Fits([a EXCEPT !.q = q])
      <4>1. [a EXCEPT !.q = q].q = q /\ [a EXCEPT !.q = q].id = it.id
        BY <2>6 DEF Item
      <4>2. ~Rech([a EXCEPT !.q = q]) /\ q \in 1..max
        BY <3>2, <3>4, <4>1 DEF Rech
      <4> QED BY <1>8, <4>1, <4>2 DEF Fits, max
    <3>6. q \in Nat /\ i = WithQuantity(r.inv, k, q)
      BY <3>2, <3>4
    <3>7. PICK j : j = r.inv OBVIOUS
    <3> HIDE DEF i, add
    <3>8. /\ Sound(i) /\ Taken(i) = Taken(j) /\ Len(i) = Len(j)
          /\ At(i, k) = [At(j, k) EXCEPT !.q = q]
          /\ \A o \in Taken(j) \ {k} : At(i, o) = At(j, o)
          /\ \A id : Held(i, id) = IF id = At(j, k).id THEN Held(j, id) + q - At(j, k).q ELSE Held(j, id)
      <4>1. Sound(j) /\ k \in Taken(j) /\ Fits([At(j, k) EXCEPT !.q = q])
        BY <2>5, <3>5, <3>7
      <4>2. i = WithQuantity(j, k, q)
        BY <3>6, <3>7
      <4>3. At(WithQuantity(j, k, q), k) = [At(j, k) EXCEPT !.q = q]
        BY <3>6, <4>1, WithQuantityIs
      <4> QED BY <3>6, <4>1, <4>2, <4>3, WithQuantityIs
    <3>9. v.inv = i /\ v.left = r.left - add /\ v \in R
      <4>1. i \in Seq(Entry)
        BY <3>8 DEF Sound
      <4> QED BY <3>2, <4>1
    <3> HIDE DEF v
    <3>10. Sound(v.inv) /\ Taken(v.inv) = Taken(s) /\ Len(v.inv) = Len(s)
      BY <2>2, <3>7, <3>8, <3>9
    <3>11. \A o \in D \ t : At(v.inv, o) = At(s, o)
      <4> TAKE o \in D \ t
      <4>1. o \in D \ u /\ o # k
        BY <2>1
      <4>2. At(r.inv, o) = At(s, o) /\ o \in Taken(r.inv)
        BY <1>9, <2>2, <4>1
      <4> QED BY <3>7, <3>8, <3>9, <4>1, <4>2
    <3>12. \A id : id # it.id => Held(v.inv, id) = Held(s, id)
      BY <2>2, <2>6, <3>7, <3>8, <3>9
    <3>13. v.left <= it.q /\ Held(v.inv, it.id) = Held(s, it.id) + (it.q - v.left)
      <4>1. Held(v.inv, it.id) = Held(r.inv, it.id) + q - a.q
        BY <2>6, <3>7, <3>8, <3>9
      <4>2. Held(r.inv, it.id) = Held(s, it.id) + (it.q - r.left)
        BY <2>2
      <4>3. v.left = r.left - add
        BY <3>9
      <4>4. a.q \in Nat /\ add \in Nat /\ add <= r.left /\ it.q \in Nat
        BY <1>8, <2>6, <3>2
      <4>5. Held(s, it.id) \in Nat
        BY <1>10
      <4>6. v.left <= it.q
        BY <2>4, <2>7, <4>3, <4>4
      <4> HIDE DEF a
      <4> QED BY <2>4, <3>4, <4>1, <4>2, <4>3, <4>4, <4>5, <4>6
    <3>15. \A o \in Taken(s) : Grown(At(v.inv, o), At(s, o))
      <4> TAKE o \in Taken(s)
      <4>1. Grown(At(j, o), At(s, o)) /\ o \in Taken(j)
        BY <2>2, <3>7
      <4>2. CASE o # k
        BY <3>8, <3>9, <4>1, <4>2
      <4>3. CASE o = k
        <5>1. At(v.inv, k) = [a EXCEPT !.q = q]
          BY <3>7, <3>8, <3>9
        <5>2. a.q # SlotMax[a.id] /\ At(s, k) = a
          BY <1>8, <2>5, <2>6, <2>9 DEF max
        <5> HIDE DEF a
        <5>3. [a EXCEPT !.q = q].id = a.id /\ [a EXCEPT !.q = q].owner = a.owner
              /\ [a EXCEPT !.q = q].until = a.until
          BY <2>6 DEF Item
        <5> QED BY <4>3, <5>1, <5>2, <5>3 DEF Grown
      <4> QED BY <4>2, <4>3
    <3>16. ASSUME v.left # 0 PROVE \A o \in t : At(v.inv, o).q = max
      <4>1. r.left # 0 /\ add = max - a.q
        BY <1>8, <2>4, <2>6, <2>9, <3>2, <3>9, <3>16 DEF Least, add
      <4>2. q = max
        BY <1>8, <2>6, <3>4, <4>1
      <4>3. At(v.inv, k).q = max
        <5>1. At(v.inv, k) = [a EXCEPT !.q = q] /\ a \in Item
          BY <2>6, <3>7, <3>8, <3>9
        <5> HIDE DEF a
        <5> QED BY <4>2, <5>1 DEF Item
      <4>4. \A o \in u : o \in Taken(j) \ {k} /\ At(j, o).q = max
        BY <1>9, <2>2, <3>7, <4>1
      <4>5. \A o \in u : At(v.inv, o).q = max
        BY <3>8, <3>9, <4>4
      <4> QED BY <4>3, <4>5
    <3>14. P(v, t)
      <4>1. v.left = Rest(it.q, SumOver(f0, t))
        BY <3>3, <3>9
      <4> QED BY <3>10, <3>11, <3>12, <3>13, <3>15, <3>16, <4>1
    <3> HIDE DEF step, P, R
    <3> QED BY <3>1, <3>9, <3>14
  <2> QED BY <2>8, <2>9
<1>04. \A t \in SUBSET D : g[t] \in W[t]
  <2> DEFINE F == [k \in D |-> [r \in R |-> step(r, k)]]
  <2>1. \A t \in SUBSET D : t # {} => Max(t) \in t /\ Max(t) \in D
    BY <1>01, MaxIs, FS_Subset
  <2>2. \A t \in SUBSET D : \A r \in W[t] : r \in R
    BY DEF W
  <2> HIDE DEF W, R, step, base
  <2>3. \A t \in SUBSET D : t # {} => \A r \in W[t \ {Max(t)}] : F[Max(t)][r] = step(r, Max(t))
    <3> SUFFICES ASSUME NEW t \in SUBSET D, t # {}, NEW r \in W[t \ {Max(t)}]
                 PROVE  F[Max(t)][r] = step(r, Max(t))
      OBVIOUS
    <3>1. t \ {Max(t)} \in SUBSET D OBVIOUS
    <3>2. r \in R /\ Max(t) \in D
      BY <2>1, <2>2, <3>1
    <3> QED BY <3>2
  <2>12. PICK h : IsUp(h, D, W, base, F)
    <3> HIDE DEF F
    <3>1. \A t \in SUBSET D : t # {} => \A r \in W[t \ {Max(t)}] : F[Max(t)][r] \in W[t]
      BY <1>03, <2>3
    <3>2. D \in SUBSET Int /\ IsFiniteSet(D) /\ base \in W[{}]
      BY <1>01, <1>02
    <3> QED BY <3>1, <3>2, FoldUp
  <2>4. /\ h = [t \in SUBSET D |-> IF t = {} THEN base ELSE F[Max(t)][h[t \ {Max(t)}]]]
        /\ \A t \in SUBSET D : h[t] \in W[t]
    <3> HIDE DEF F
    <3> QED BY <2>12 DEF IsUp
  <2>5. \A t \in SUBSET D : t # {} => F[Max(t)][h[t \ {Max(t)}]] = step(h[t \ {Max(t)}], Max(t))
    <3> HIDE DEF F
    <3> SUFFICES ASSUME NEW t \in SUBSET D, t # {}
                 PROVE  F[Max(t)][h[t \ {Max(t)}]] = step(h[t \ {Max(t)}], Max(t))
      OBVIOUS
    <3>1. t \ {Max(t)} \in SUBSET D OBVIOUS
    <3>2. h[t \ {Max(t)}] \in W[t \ {Max(t)}]
      BY <2>4, <3>1
    <3> QED BY <2>3, <3>2
  <2>6. Rec(h)
    <3> HIDE DEF F
    <3> QED BY <2>4, <2>5
  <2>7. Rec(g)
    <3> HIDE DEF Rec
    <3> QED BY <2>6
  <2>8. g[{}] = base /\ \A t \in SUBSET D : t # {} => g[t] = step(g[t \ {Max(t)}], Max(t))
    <3> HIDE DEF g
    <3> QED BY <2>7
  <2> HIDE DEF g
  <2>9. \A t \in SUBSET D : t # {} /\ g[t \ {Max(t)}] \in W[t \ {Max(t)}] => g[t] \in W[t]
    BY <1>03, <2>8
  <2> QED BY <1>01, <1>02, <2>8, <2>9, Climb
<1> HIDE DEF g
<1>11. g[D] \in R /\ P(g[D], D)
  <2>1. g[D] \in W[D]
    BY <1>04
  <2> HIDE DEF P, R
  <2> QED BY <2>1
<1>12. g[D].left \in 0..it.q
  BY <1>8, <1>11
<1>13. g[D] = [inv |-> g[D].inv, left |-> g[D].left]
  BY <1>11
<1> QED BY <1>1, <1>7, <1>11, <1>12, <1>13 DEF f0, max

\* ... then new ones.
NewRoom(s, it) == SumOver([p \in Free(s) |-> SlotMax[it.id]], Free(s))

\* ... one, if that is enough and there is room.
OneStack(s, it, q0) == IF q0 = 0 \/ Free(s) = {} THEN s
                       ELSE Put(s, Min(Free(s)), [it EXCEPT !.q = q0])

\* Putting the rest in free slots: what is placed is what is gone, the rest is what
\* exceeds the room of the free slots, and one stack takes one slot.
LEMMA PutInNewIs ==
    ASSUME NEW s, Sound(s), NEW it \in Item, ~Rech(it), NEW q0 \in Nat
    PROVE  LET r == PutInNew([inv |-> s, left |-> q0], it, Free(s))
           IN  /\ Sound(r.inv)
               /\ \A id : id # it.id => Held(r.inv, id) = Held(s, id)
               /\ r.left \in 0..q0 /\ Held(r.inv, it.id) = Held(s, it.id) + (q0 - r.left)
               /\ r.left = Rest(q0, NewRoom(s, it)) /\ NewRoom(s, it) \in Nat
               /\ q0 <= SlotMax[it.id] =>
                    /\ Len(r.inv) <= Len(s) + 1
                    /\ r.inv = OneStack(s, it, q0)
<1> DEFINE max == SlotMax[it.id]
<1> DEFINE D == Free(s)
<1> DEFINE base == [inv |-> s, left |-> q0]
<1> DEFINE step(r, slot) ==
            LET add == Least(r.left, max)
            IN  IF r.left = 0 THEN r
                ELSE [inv |-> Put(r.inv, slot, [it EXCEPT !.q = add]), left |-> r.left - add]
<1> DEFINE Rec(f) == f = [t \in SUBSET D |-> IF t = {} THEN base ELSE step(f[t \ {Max(t)}], Max(t))]
<1> DEFINE g == CHOOSE f : Rec(f)
<1>1. PutInNew(base, it, D) = g[D]
  BY DEF PutInNew, Upwards, MapThenFoldSet
<1> DEFINE f0 == [p \in D |-> max]
<1> DEFINE R == [inv: Seq(Entry), left: Nat]
<1> DEFINE P(r, t) ==
             /\ Sound(r.inv) /\ Taken(r.inv) \subseteq Taken(s) \cup t
             /\ \A id : id # it.id => Held(r.inv, id) = Held(s, id)
             /\ r.left <= q0 /\ Held(r.inv, it.id) = Held(s, it.id) + (q0 - r.left)
             /\ r.left = Rest(q0, SumOver(f0, t))
             /\ q0 <= max => /\ Len(r.inv) <= Len(s) + 1
                             /\ r.left # 0 => Len(r.inv) = Len(s)
                             /\ t = {} \/ q0 = 0 => r.inv = s /\ r.left = q0
                             /\ t # {} /\ q0 # 0 => /\ r.inv = Put(s, Min(t), [it EXCEPT !.q = q0])
                                                    /\ r.left = 0
<1> DEFINE W == [t \in SUBSET D |-> {r \in R : P(r, t)}]
<1>01. D \in SUBSET Int /\ IsFiniteSet(D)
  BY FreeIs
<1>8. it.q \in Nat /\ max \in Nat \ {0} /\ it.id \in Ids /\ Len(s) \in Nat
  BY SoundIs DEF Item
<1>9. \A o \in D : o \in 1..slotLimit /\ o \notin Taken(s) /\ f0[o] = max /\ f0[o] \in Nat
  BY <1>8 DEF Free
<1>10. \A id : Held(s, id) \in Nat
  BY HeldIs
<1> HIDE DEF D, f0, max
<1>7. \A t \in SUBSET D : IsFiniteSet(t) /\ (\A o \in t : f0[o] \in Nat) /\ SumOver(f0, t) \in Nat
  <2>1. \A t \in SUBSET D : IsFiniteSet(t) /\ \A o \in t : f0[o] \in Nat
    BY <1>01, <1>9, FS_Subset
  <2> QED BY <2>1, SumNat
<1>02. base \in W[{}]
  <2>1. base \in R
    BY <1>8 DEF Sound
  <2>2. SumOver(f0, {}) = 0
    BY FS_EmptySet, SumRemove
  <2>3. base.inv = s /\ base.left = q0 OBVIOUS
  <2> HIDE DEF base
  <2>4. P(base, {})
    BY <1>8, <1>10, <2>2, <2>3 DEF Rest
  <2> HIDE DEF P, R
  <2> QED BY <2>1, <2>4
<1>03. \A t \in SUBSET D : t # {} => \A r \in W[t \ {Max(t)}] : step(r, Max(t)) \in W[t]
  <2> SUFFICES ASSUME NEW t \in SUBSET D, t # {}, NEW r \in W[t \ {Max(t)}]
               PROVE  step(r, Max(t)) \in W[t]
    OBVIOUS
  <2> DEFINE k == Max(t)
  <2> DEFINE u == t \ {k}
  <2>1. k \in t /\ k \in D /\ IsFiniteSet(t)
    BY <1>01, MaxIs, FS_Subset
  <2>2. r \in R /\ P(r, u)
    <3>1. u \in SUBSET D OBVIOUS
    <3> HIDE DEF P, R, u, k
    <3> QED BY <3>1 DEF u, k
  <2>3. SumOver(f0, t) = max + SumOver(f0, u) /\ SumOver(f0, u) \in Nat
    <3>1. (\A o \in t : f0[o] \in Int) /\ f0[k] = max
      BY <1>9, <2>1
    <3>2. SumOver(f0, u) \in Nat
      BY <1>7
    <3> HIDE DEF k
    <3> QED BY <2>1, <3>1, <3>2, SumRemove
  <2> SUFFICES step(r, k) \in R /\ P(step(r, k), t)
    <3> HIDE DEF P, R, step
    <3> QED BY DEF k
  <2>11. \A o \in t : o <= k
    <3>1. t \in SUBSET Int /\ IsFiniteSet(t)
      BY <1>01, <2>1
    <3> QED BY <3>1, MaxIs
  <2> HIDE DEF k
  <2>4. r.left \in Nat /\ Len(r.inv) \in Nat
    BY <2>2, SoundIs
  <2>5. k \in 1..slotLimit /\ k \notin Taken(r.inv) /\ Sound(r.inv)
    BY <1>9, <2>1, <2>2
  <2>7. r.left = Rest(q0, SumOver(f0, u)) /\ r.left <= q0
    BY <2>2
  <2>10. (u # {} => Min(u) = Min(t)) /\ (u = {} => Min(t) = k)
    <3>1. t \in SUBSET Int /\ u \in SUBSET Int /\ IsFiniteSet(u) /\ \A o \in t : o <= k
      BY <1>01, <2>1, <2>11, FS_Subset
    <3>2. Min(t) \in t /\ \A o \in t : Min(t) <= o
      BY <2>1, <3>1, MinIs
    <3>3. u # {} => Min(u) \in u /\ \A o \in u : Min(u) <= o
      BY <3>1, MinIs
    <3>4. ASSUME u # {} PROVE Min(u) = Min(t)
      <4>1. Min(u) \in Int /\ Min(t) \in Int /\ k \in Int /\ Min(t) <= Min(u)
        BY <2>1, <3>1, <3>2, <3>3, <3>4
      <4>2. CASE Min(t) = k
        BY <2>1, <3>1, <3>3, <3>4, <4>1, <4>2
      <4>3. CASE Min(t) # k
        <5>1. Min(t) \in u
          BY <3>2, <4>3
        <5>2. Min(u) <= Min(t)
          BY <3>3, <3>4, <5>1
        <5> QED BY <4>1, <5>2
      <4> QED BY <4>2, <4>3
    <3> QED BY <3>2, <3>4
  <2>8. CASE r.left = 0
    <3>1. step(r, k) = r
      BY <2>8
    <3>2. r.left = Rest(q0, SumOver(f0, t))
      BY <1>8, <2>3, <2>7, <2>8 DEF Rest
    <3>3. Taken(r.inv) \subseteq Taken(s) \cup t
      BY <2>2
    <3>5. q0 <= max => /\ q0 = 0 => r.inv = s /\ r.left = q0
                       /\ q0 # 0 => r.inv = Put(s, Min(t), [it EXCEPT !.q = q0]) /\ r.left = 0
      <4>1. q0 <= max /\ q0 # 0 => u # {}
        BY <2>2, <2>8
      <4>2. u # {} => Min(u) = Min(t)
        BY <2>1, <2>10
      <4> HIDE DEF u
      <4> QED BY <2>2, <2>8, <4>1, <4>2
    <3>4. P(r, t)
      BY <2>1, <2>2, <3>2, <3>3, <3>5
    <3> HIDE DEF step, P, R
    <3> QED BY <2>2, <3>1, <3>4
  <2>9. CASE r.left # 0
    <3> DEFINE add == Least(r.left, max)
    <3> DEFINE new == [it EXCEPT !.q = add]
    <3> DEFINE i == Put(r.inv, k, new)
    <3> DEFINE v == [inv |-> i, left |-> r.left - add]
    <3>1. step(r, k) = v
      BY <2>9
    <3>2. add \in 1..max /\ add \in Nat /\ add <= r.left /\ r.left - add \in Nat /\ (r.left <= max => add = r.left)
      BY <1>8, <2>4, <2>9 DEF Least
    <3>3. r.left - add = Rest(q0, SumOver(f0, t))
      <4>1. PICK x : x = SumOver(f0, u) OBVIOUS
      <4>2. SumOver(f0, t) = max + x /\ x \in Nat
        BY <2>3, <4>1
      <4>3. r.left = IF q0 > x THEN q0 - x ELSE 0
        BY <2>7, <4>1 DEF Rest
      <4>5. add = IF r.left < max THEN r.left ELSE max
        BY DEF Least
      <4> HIDE DEF add
      <4> QED BY <1>8, <2>4, <4>2, <4>3, <4>5 DEF Rest
    <3> HIDE DEF add
    <3>4. new \in Item /\ new.q = add /\ new.id = it.id
      BY <3>2 DEF Item
    <3>5. Fits(new)
      <4>1. ~Rech(new)
        BY <3>4 DEF Rech
      <4> QED BY <1>8, <3>2, <3>4, <4>1 DEF Fits, max
    <3>7. PICK j : j = r.inv OBVIOUS
    <3> HIDE DEF i, new
    <3>8. /\ Sound(i) /\ Taken(i) = Taken(j) \cup {k} /\ Len(i) = Len(j) + 1
          /\ \A id : Held(i, id) = Held(j, id) + Q(new, id)
      BY <2>5, <3>4, <3>5, <3>7, PutIs DEF i
    <3>9. v.inv = i /\ v.left = r.left - add /\ v \in R
      <4>1. i \in Seq(Entry)
        BY <3>8 DEF Sound
      <4> QED BY <3>2, <4>1
    <3> HIDE DEF v
    <3>10. Sound(v.inv) /\ Taken(v.inv) \subseteq Taken(s) \cup t
      BY <2>1, <2>2, <3>7, <3>8, <3>9
    <3>12. \A id : id # it.id => Held(v.inv, id) = Held(s, id)
      <4> TAKE id
      <4> SUFFICES ASSUME id # it.id PROVE Held(v.inv, id) = Held(s, id) OBVIOUS
      <4>1. Held(r.inv, id) = Held(s, id) /\ Held(s, id) \in Nat
        BY <1>10, <2>2
      <4>2. Q(new, id) = 0
        BY <3>4 DEF Q
      <4> QED BY <3>7, <3>8, <3>9, <4>1, <4>2
    <3>13. v.left <= q0 /\ Held(v.inv, it.id) = Held(s, it.id) + (q0 - v.left)
      <4>1. Held(v.inv, it.id) = Held(r.inv, it.id) + add
        BY <3>4, <3>7, <3>8, <3>9 DEF Q
      <4>2. Held(r.inv, it.id) = Held(s, it.id) + (q0 - r.left)
        BY <2>2
      <4>3. v.left = r.left - add
        BY <3>9
      <4>5. Held(s, it.id) \in Nat
        BY <1>10
      <4> QED BY <2>4, <2>7, <3>2, <4>1, <4>2, <4>3, <4>5
    <3>14. q0 <= max => Len(v.inv) <= Len(s) + 1 /\ (v.left # 0 => Len(v.inv) = Len(s))
      <4>1. Len(v.inv) = Len(r.inv) + 1
        BY <3>7, <3>8, <3>9
      <4>2. q0 <= max => Len(r.inv) = Len(s) /\ r.left <= max
        BY <1>8, <2>2, <2>4, <2>7, <2>9
      <4> QED BY <1>8, <2>4, <3>2, <3>9, <4>1, <4>2
    <3>16. ASSUME q0 <= max
           PROVE  q0 # 0 /\ v.inv = Put(s, Min(t), [it EXCEPT !.q = q0]) /\ v.left = 0
      <4>1. u = {} /\ r.inv = s /\ r.left = q0
        BY <2>2, <2>9, <3>16
      <4>2. add = q0
        BY <3>2, <3>16, <4>1
      <4>3. i = Put(s, Min(t), [it EXCEPT !.q = q0])
        BY <2>10, <4>1, <4>2 DEF i, new
      <4> QED BY <2>9, <3>2, <3>9, <4>1, <4>2, <4>3
    <3>15. P(v, t)
      <4>1. v.left = Rest(q0, SumOver(f0, t))
        BY <3>3, <3>9
      <4> QED BY <2>1, <3>10, <3>12, <3>13, <3>14, <3>16, <4>1
    <3> HIDE DEF step, P, R
    <3> QED BY <3>1, <3>9, <3>15
  <2> QED BY <2>8, <2>9
<1>04. \A t \in SUBSET D : g[t] \in W[t]
  <2> DEFINE F == [k \in D |-> [r \in R |-> step(r, k)]]
  <2>1. \A t \in SUBSET D : t # {} => Max(t) \in t /\ Max(t) \in D
    BY <1>01, MaxIs, FS_Subset
  <2>2. \A t \in SUBSET D : \A r \in W[t] : r \in R
    BY DEF W
  <2> HIDE DEF W, R, step, base, D
  <2>3. \A t \in SUBSET D : t # {} => \A r \in W[t \ {Max(t)}] : F[Max(t)][r] = step(r, Max(t))
    <3> SUFFICES ASSUME NEW t \in SUBSET D, t # {}, NEW r \in W[t \ {Max(t)}]
                 PROVE  F[Max(t)][r] = step(r, Max(t))
      OBVIOUS
    <3>1. t \ {Max(t)} \in SUBSET D OBVIOUS
    <3>2. r \in R /\ Max(t) \in D
      BY <2>1, <2>2, <3>1
    <3> QED BY <3>2
  <2>12. PICK h : IsUp(h, D, W, base, F)
    <3> HIDE DEF F
    <3>1. \A t \in SUBSET D : t # {} => \A r \in W[t \ {Max(t)}] : F[Max(t)][r] \in W[t]
      BY <1>03, <2>3
    <3>2. D \in SUBSET Int /\ IsFiniteSet(D) /\ base \in W[{}]
      BY <1>01, <1>02
    <3> QED BY <3>1, <3>2, FoldUp
  <2>4. /\ h = [t \in SUBSET D |-> IF t = {} THEN base ELSE F[Max(t)][h[t \ {Max(t)}]]]
        /\ \A t \in SUBSET D : h[t] \in W[t]
    <3> HIDE DEF F
    <3> QED BY <2>12 DEF IsUp
  <2>5. \A t \in SUBSET D : t # {} => F[Max(t)][h[t \ {Max(t)}]] = step(h[t \ {Max(t)}], Max(t))
    <3> HIDE DEF F
    <3> SUFFICES ASSUME NEW t \in SUBSET D, t # {}
                 PROVE  F[Max(t)][h[t \ {Max(t)}]] = step(h[t \ {Max(t)}], Max(t))
      OBVIOUS
    <3>1. t \ {Max(t)} \in SUBSET D OBVIOUS
    <3>2. h[t \ {Max(t)}] \in W[t \ {Max(t)}]
      BY <2>4, <3>1
    <3> QED BY <2>3, <3>2
  <2>6. Rec(h)
    <3> HIDE DEF F
    <3> QED BY <2>4, <2>5
  <2>7. Rec(g)
    <3> HIDE DEF Rec
    <3> QED BY <2>6
  <2>8. g[{}] = base /\ \A t \in SUBSET D : t # {} => g[t] = step(g[t \ {Max(t)}], Max(t))
    <3> HIDE DEF g
    <3> QED BY <2>7
  <2> HIDE DEF g
  <2>9. \A t \in SUBSET D : t # {} /\ g[t \ {Max(t)}] \in W[t \ {Max(t)}] => g[t] \in W[t]
    BY <1>03, <2>8
  <2> QED BY <1>01, <1>02, <2>8, <2>9, Climb
<1> HIDE DEF g
<1>11. g[D] \in R /\ P(g[D], D)
  <2>1. g[D] \in W[D]
    BY <1>04
  <2> HIDE DEF P, R
  <2> QED BY <2>1
<1>12. g[D].left \in 0..q0
  BY <1>8, <1>11
<1>13. SumOver(f0, D) \in Nat
  BY <1>7
<1>14. SumOver(f0, D) = NewRoom(s, it)
  BY DEF f0, D, max, NewRoom
<1>15. PutInNew([inv |-> s, left |-> q0], it, Free(s)) = g[D]
  BY <1>1 DEF D
<1>16. D = Free(s)
  BY DEF D
<1>17. q0 <= max => g[D].inv = OneStack(s, it, q0)
  BY <1>11, <1>16 DEF OneStack
<1> QED BY <1>11, <1>12, <1>13, <1>14, <1>15, <1>17 DEF max

\* A sum of equal summands.
LEMMA SumConst ==
    ASSUME NEW S, IsFiniteSet(S), NEW c \in Nat
    PROVE  SumOver([x \in S |-> c], S) = c * Cardinality(S) /\ Cardinality(S) \in Nat
<1> DEFINE f == [x \in S |-> c]
<1> DEFINE J == {s \in SUBSET S : SumOver(f, s) = c * Cardinality(s)}
<1>1. \A s \in SUBSET S : IsFiniteSet(s) /\ (\A x \in s : f[x] \in Int /\ f[x] = c) /\ Cardinality(s) \in Nat
  BY FS_Subset, FS_CardinalityType
<1> HIDE DEF f
<1>2. \A s \in SUBSET S : s # {} => \E x \in s : s \ {x} \in J => s \in J
  <2> SUFFICES ASSUME NEW s \in SUBSET S, s # {} PROVE \E x \in s : s \ {x} \in J => s \in J
    OBVIOUS
  <2>1. PICK x \in s : TRUE OBVIOUS
  <2>2. SumOver(f, s) = c + SumOver(f, s \ {x})
    <3>1. SumOver(f, s) = f[x] + SumOver(f, s \ {x})
      BY <1>1, SumRemove
    <3> QED BY <1>1, <3>1
  <2>3. Cardinality(s) = Cardinality(s \ {x}) + 1 /\ Cardinality(s \ {x}) \in Nat
    <3>1. Cardinality(s \ {x}) = Cardinality(s) - 1
      BY <1>1, FS_RemoveElement
    <3> QED BY <1>1, <3>1
  <2>4. PICK n \in Nat : n = Cardinality(s \ {x})
    BY <2>3
  <2>5. c + c * n = c * (n + 1) OBVIOUS
  <2> QED BY <2>2, <2>3, <2>4, <2>5
<1>3. {} \in J
  <2>1. SumOver(f, {}) = 0 /\ Cardinality({}) = 0
    BY FS_EmptySet, SumRemove
  <2> QED BY <2>1
<1>4. SUBSET S \subseteq J
  <2> HIDE DEF J
  <2> QED BY <1>2, <1>3, Growing
<1> QED BY <1>1, <1>4 DEF f

\* Adding an item by stacks: nothing is lost or made, and what is left is exactly
\* what exceeds the room of the stacks and of the free slots.
LEMMA StackIs ==
    ASSUME NEW s, Sound(s), NEW it \in Item, ~Rech(it), NEW D \in SUBSET Taken(s),
           \A p \in D : At(s, p).id = it.id
    PROVE  LET r == Stack(s, it, D)
               room == SumOver(RoomAt(s, it), D)
           IN  /\ Sound(r.inv)
               /\ \A id : id # it.id => Held(r.inv, id) = Held(s, id)
               /\ r.left \in 0..it.q /\ Held(r.inv, it.id) = Held(s, it.id) + (it.q - r.left)
               /\ room \in Nat /\ SlotMax[it.id] * (slotLimit - Len(s)) \in Nat
               /\ r.left = Rest(it.q, room + SlotMax[it.id] * (slotLimit - Len(s)))
               /\ it.q <= SlotMax[it.id] => Len(r.inv) <= Len(s) + 1
<1> DEFINE f == FilledUp(s, it, D)
<1> DEFINE r == Stack(s, it, D)
<1> DEFINE max == SlotMax[it.id]
<1> DEFINE x == SumOver(RoomAt(s, it), D)
<1> DEFINE y == NewRoom(f.inv, it)
<1>1. /\ f = [inv |-> f.inv, left |-> f.left]
      /\ Sound(f.inv) /\ Taken(f.inv) = Taken(s) /\ Len(f.inv) = Len(s)
      /\ \A id : id # it.id => Held(f.inv, id) = Held(s, id)
      /\ f.left \in 0..it.q /\ Held(f.inv, it.id) = Held(s, it.id) + (it.q - f.left)
      /\ x \in Nat
      /\ f.left = Rest(it.q, x)
  BY FilledUpIs
<1>2. Free(f.inv) = Free(s)
  BY <1>1 DEF Free
<1>3. r = PutInNew([inv |-> f.inv, left |-> f.left], it, Free(f.inv))
  BY <1>1, <1>2, StackParts
<1>4. it.q \in Nat /\ f.left \in Nat
  BY <1>1 DEF Item
<1>5. PICK q0 \in Nat : q0 = f.left
  BY <1>4
<1>6. PICK j : j = f.inv OBVIOUS
<1> HIDE DEF f
<1>7. r = PutInNew([inv |-> j, left |-> q0], it, Free(j))
  BY <1>3, <1>5, <1>6
<1>8. Sound(j)
  BY <1>1, <1>6
<1>9. /\ Sound(r.inv)
      /\ \A id : id # it.id => Held(r.inv, id) = Held(j, id)
      /\ r.left \in 0..q0 /\ Held(r.inv, it.id) = Held(j, it.id) + (q0 - r.left)
      /\ r.left = Rest(q0, NewRoom(j, it))
      /\ q0 <= max => Len(r.inv) <= Len(j) + 1
  <2> HIDE DEF r
  <2>1. PICK v : v = PutInNew([inv |-> j, left |-> q0], it, Free(j)) OBVIOUS
  <2>2. /\ Sound(v.inv)
        /\ \A id : id # it.id => Held(v.inv, id) = Held(j, id)
        /\ v.left \in 0..q0 /\ Held(v.inv, it.id) = Held(j, it.id) + (q0 - v.left)
        /\ v.left = Rest(q0, NewRoom(j, it))
        /\ q0 <= max => Len(v.inv) <= Len(j) + 1
    BY <1>8, <2>1, PutInNewIs
  <2> QED BY <1>7, <2>1, <2>2
<1>10. y = max * (slotLimit - Len(s)) /\ y \in Nat
  <2>1. max \in Nat
    BY DEF Item
  <2>2. IsFiniteSet(Free(j)) /\ Cardinality(Free(j)) = slotLimit - Len(j) /\ slotLimit - Len(j) \in Nat
    <3>1. Len(j) <= slotLimit /\ Len(j) \in Nat /\ slotLimit \in Nat
      BY <1>8, FreeIs, SoundIs
    <3> QED BY <1>8, <3>1, FreeIs
  <2> HIDE DEF max
  <2>3. PICK F : F = Free(j) OBVIOUS
  <2>4. SumOver([p \in F |-> max], F) = max * Cardinality(F)
    BY <2>1, <2>2, <2>3, SumConst
  <2>6. NewRoom(j, it) = SumOver([p \in F |-> max], F)
    BY <2>3 DEF NewRoom, max
  <2>5. max * (slotLimit - Len(j)) \in Nat
    BY <2>1, <2>2
  <2> QED BY <1>1, <1>6, <2>2, <2>3, <2>4, <2>5, <2>6
<1> HIDE DEF r, x, max
<1>11. r.left = Rest(it.q, x + y)
  <2>1. r.left = Rest(q0, y)
    BY <1>6, <1>9
  <2> HIDE DEF y
  <2> QED BY <1>1, <1>4, <1>5, <1>10, <2>1 DEF Rest
<1>12. r.left \in 0..it.q
  BY <1>1, <1>4, <1>5, <1>9
<1>13. Held(r.inv, it.id) = Held(s, it.id) + (it.q - r.left)
  <2>1. Held(s, it.id) \in Nat
    BY HeldIs
  <2> QED BY <1>1, <1>4, <1>5, <1>6, <1>9, <1>12, <2>1
<1>14. it.q <= max => Len(r.inv) <= Len(s) + 1
  <2>1. max \in Nat
    BY DEF Item, max
  <2> QED BY <1>1, <1>4, <1>5, <1>6, <1>9, <2>1
<1> HIDE DEF y
<1>15. \A id : id # it.id => Held(r.inv, id) = Held(s, id)
  BY <1>1, <1>6, <1>9
<1> QED BY <1>1, <1>9, <1>10, <1>11, <1>12, <1>13, <1>14, <1>15 DEF r, x, max

\* A number rounded up to slots fits n slots exactly when l fits n times m.
LEMMA Ceiling ==
    ASSUME NEW l \in Nat, NEW m \in Nat \ {0}, NEW n \in Nat
    PROVE  (l + m - 1) \div m <= n <=> l <= m * n
<1> DEFINE d == (l + m - 1) \div m
<1>1. d \in Int /\ m * d <= l + m - 1 /\ l + m - 1 < m * d + m OBVIOUS
<1>2. PICK e \in Int : e = d
  BY <1>1
<1>3. m * e <= l + m - 1 /\ l + m - 1 < m * e + m
  BY <1>1, <1>2
<1>4. ASSUME e <= n PROVE l <= m * n
  <2>1. m * e <= m * n
    BY <1>4
  <2>2. m * e \in Int /\ m * n \in Int OBVIOUS
  <2> QED BY <1>3, <2>1, <2>2
<1>5. ASSUME e > n PROVE ~(l <= m * n)
  <2>1. m * (n + 1) <= m * e
    BY <1>5
  <2>2. m * (n + 1) = m * n + m OBVIOUS
  <2>3. m * e \in Int /\ m * n \in Int OBVIOUS
  <2> QED BY <1>3, <2>1, <2>2, <2>3
<1> QED BY <1>2, <1>4, <1>5

\* What an item on the map or in the storage room is like.
Loose(it) ==
    /\ it \in Item
    /\ Rech(it) => it.q <= MaxCharge[it.id]
    /\ it.id \in OneOfAKind => it.q <= 1

\* An addition a of an item to s takes what it says it takes.
Adds(a, s, it) ==
    /\ Sound(a.inv)
    /\ \A id : id # it.id => Held(a.inv, id) = Held(s, id)
    /\ a.left \in 0..it.q /\ Held(a.inv, it.id) = Held(s, it.id) + (it.q - a.left)
    /\ a.ok => a.left = 0
    /\ it.q <= SlotMax[it.id] \/ Rech(it) => Len(a.inv) <= Len(s) + 1

\* A refused item leaves the inventory and itself as they were.
LEMMA RefusedIs ==
    ASSUME NEW s, Sound(s), NEW it \in Item
    PROVE  Adds(Refused(s, it), s, it) /\ ~Refused(s, it).ok
<1>1. it.q \in Nat /\ Len(s) \in Nat /\ \A id : Held(s, id) \in Nat
  BY SoundIs, HeldIs DEF Item
<1>2. Refused(s, it).inv = s /\ Refused(s, it).left = it.q /\ ~Refused(s, it).ok
  BY DEF Refused
<1> QED BY <1>1, <1>2 DEF Adds

\* A rechargeable takes a slot of its own if there is one.
LEMMA AddRechargeableIs ==
    ASSUME NEW s, Sound(s), NEW it \in Item, Rech(it), it.q <= MaxCharge[it.id]
    PROVE  /\ Adds(AddRechargeable(s, it), s, it)
           /\ AddRechargeable(s, it).ok <=> ~Full(s)
<1>1. CASE Full(s)
  BY <1>1, RefusedIs DEF AddRechargeable
<1>2. CASE ~Full(s)
  <2> DEFINE p == Min(Free(s))
  <2>1. Len(s) \in Nat /\ slotLimit \in Nat /\ Len(s) < slotLimit
    BY <1>2, SoundIs DEF Full
  <2>2. p \in 1..slotLimit /\ p \notin Taken(s)
    BY <2>1, FreeIs DEF Free
  <2>3. Fits(it)
    BY DEF Fits
  <2> HIDE DEF p
  <2>4. /\ Sound(Put(s, p, it)) /\ Len(Put(s, p, it)) = Len(s) + 1
        /\ \A id : Held(Put(s, p, it), id) = Held(s, id) + Q(it, id)
    BY <2>2, <2>3, PutIs
  <2> DEFINE a == AddRechargeable(s, it)
  <2>5. a.inv = Put(s, p, it) /\ a.left = 0 /\ a.ok
    BY <1>2 DEF AddRechargeable, p
  <2>6. it.q \in Nat /\ \A id : Held(s, id) \in Nat
    BY HeldIs DEF Item
  <2> HIDE DEF a
  <2>7. \A id : id # it.id => Held(a.inv, id) = Held(s, id)
    BY <2>4, <2>5, <2>6 DEF Q
  <2>8. Held(a.inv, it.id) = Held(s, it.id) + (it.q - a.left) /\ a.left \in 0..it.q
    BY <2>4, <2>5, <2>6 DEF Q
  <2>9. Adds(a, s, it)
    BY <2>1, <2>4, <2>5, <2>7, <2>8 DEF Adds
  <2> QED BY <1>2, <2>5, <2>9 DEF a
<1> QED BY <1>1, <1>2

\* The slots a stacking goes over, for an item from the map or the storage room,
\* for one that is given, and those checkSpace counts.
MergeSlots(s, it) == {e.pos : e \in {x \in Range(s) : Mergeable(x.it, it)}}
\* The second of them: slots with an id and no expiration.
UntimedSlots(s, id) == {e.pos : e \in {x \in Entries(s, id) : x.it.until = Forever}}
\* The third: slots with an id and an owner.
MineSlots(s, id, owner) == {e.pos : e \in {x \in Entries(s, id) : x.it.owner = owner}}

\* What is in these sets of slots.
LEMMA SlotsAre ==
    ASSUME NEW s, Sound(s), NEW it, NEW id, NEW owner
    PROVE  /\ MergeSlots(s, it) \in SUBSET Taken(s)
           /\ \A p \in Taken(s) : p \in MergeSlots(s, it) <=> Mergeable(At(s, p), it)
           /\ UntimedSlots(s, id) \in SUBSET Taken(s)
           /\ \A p \in Taken(s) : p \in UntimedSlots(s, id) <=> At(s, p).id = id /\ At(s, p).until = Forever
           /\ MineSlots(s, id, owner) \in SUBSET Taken(s)
           /\ \A p \in Taken(s) : p \in MineSlots(s, id, owner) <=> At(s, p).id = id /\ At(s, p).owner = owner
<1>1. \A e \in Range(s) : e.pos \in Taken(s) /\ At(s, e.pos) = e.it
  BY RangeIs
<1>2. \A p \in Taken(s) : \E e \in Range(s) : e.pos = p /\ e.it = At(s, p)
  BY RangeIs, SoundIs DEF At
<1>3. /\ MergeSlots(s, it) \in SUBSET Taken(s)
      /\ \A p \in Taken(s) : p \in MergeSlots(s, it) <=> Mergeable(At(s, p), it)
  BY <1>1, <1>2 DEF MergeSlots
<1>4. /\ UntimedSlots(s, id) \in SUBSET Taken(s)
      /\ \A p \in Taken(s) : p \in UntimedSlots(s, id) <=> At(s, p).id = id /\ At(s, p).until = Forever
  BY <1>1, <1>2 DEF UntimedSlots, Entries
<1>5. /\ MineSlots(s, id, owner) \in SUBSET Taken(s)
      /\ \A p \in Taken(s) : p \in MineSlots(s, id, owner) <=> At(s, p).id = id /\ At(s, p).owner = owner
  BY <1>1, <1>2 DEF MineSlots, Entries
<1> QED BY <1>3, <1>4, <1>5

\* A stacking as an addition: it takes as much as the stacks and the free slots hold.
LEMMA AddedIs ==
    ASSUME NEW s, Sound(s), NEW it \in Item, ~Rech(it), NEW D \in SUBSET Taken(s),
           \A p \in D : At(s, p).id = it.id
    PROVE  LET a == Added(Stack(s, it, D))
               room == SumOver(RoomAt(s, it), D)
           IN  /\ Adds(a, s, it)
               /\ room \in Nat /\ SlotMax[it.id] * (slotLimit - Len(s)) \in Nat
               /\ a.ok <=> it.q <= room + SlotMax[it.id] * (slotLimit - Len(s))
<1> DEFINE r == Stack(s, it, D)
<1> DEFINE a == Added(r)
<1>1. /\ Sound(r.inv)
      /\ \A id : id # it.id => Held(r.inv, id) = Held(s, id)
      /\ r.left \in 0..it.q /\ Held(r.inv, it.id) = Held(s, it.id) + (it.q - r.left)
      /\ SumOver(RoomAt(s, it), D) \in Nat /\ SlotMax[it.id] * (slotLimit - Len(s)) \in Nat
      /\ r.left = Rest(it.q, SumOver(RoomAt(s, it), D) + SlotMax[it.id] * (slotLimit - Len(s)))
      /\ it.q <= SlotMax[it.id] => Len(r.inv) <= Len(s) + 1
  BY StackIs
<1>2. a.inv = r.inv /\ a.left = r.left /\ (a.ok <=> r.left = 0)
  BY DEF Added
<1> HIDE DEF r, a
<1>3. Adds(a, s, it)
  BY <1>1, <1>2 DEF Adds
<1>4. PICK x \in Nat : x = SumOver(RoomAt(s, it), D)
  BY <1>1
<1>5. PICK y \in Nat : y = SlotMax[it.id] * (slotLimit - Len(s))
  BY <1>1
<1>6. it.q \in Nat
  BY DEF Item
<1>7. a.ok <=> it.q <= x + y
  <2>1. r.left = Rest(it.q, x + y)
    BY <1>1, <1>4, <1>5
  <2> QED BY <1>2, <1>6, <2>1 DEF Rest
<1> QED BY <1>1, <1>3, <1>4, <1>5, <1>7 DEF r, a

\* checkSpace for an item that stacks: what the stacks of the owner do not
\* hold fits into free slots.
LEMMA CheckSpaceIs ==
    ASSUME NEW s, Sound(s), NEW id \in Ids, id \notin Rechargeable, NEW q \in Nat, NEW owner,
           NEW it \in Item, it.id = id
    PROVE  LET mine == MineSlots(s, id, owner)
               room == SumOver(RoomAt(s, it), mine)
           IN  /\ room \in Nat
               /\ CheckSpace(s, id, q, owner) <=>
                    /\ ~HasTheOne(s, id) /\ q > 0
                    /\ q <= room + SlotMax[id] * (slotLimit - Len(s))
<1> DEFINE mine == MineSlots(s, id, owner)
<1> DEFINE room == SumOver(RoomAt(s, it), mine)
<1> DEFINE max == SlotMax[id]
<1>1. mine \in SUBSET Taken(s) /\ \A p \in mine : At(s, p).id = id /\ p \in Taken(s)
  BY SlotsAre
<1>2. max \in Nat \ {0} OBVIOUS
<1>3. \A p \in mine : RoomAt(s, it)[p] = max - Least(At(s, p).q, max) /\ RoomAt(s, it)[p] \in Nat
  <2> TAKE p \in mine
  <2>1. At(s, p) \in Item /\ Fits(At(s, p)) /\ At(s, p).id = id
    BY <1>1, SoundIs
  <2>2. RoomAt(s, it)[p] = max - At(s, p).q
    BY <1>1 DEF RoomAt
  <2>3. At(s, p).q \in Nat /\ At(s, p).q <= max
    BY <2>1 DEF Fits, Rech, Item
  <2>4. Least(At(s, p).q, max) = At(s, p).q
    BY <1>2, <2>3 DEF Least
  <2> QED BY <1>2, <2>2, <2>3, <2>4
<1>4. {<<e.pos, max - Least(e.it.q, max)>> : e \in {x \in Entries(s, id) : x.it.owner = owner}} = {<<p, RoomAt(s, it)[p]>> : p \in mine}
  <2>1. \A e \in {x \in Entries(s, id) : x.it.owner = owner} :
          e.pos \in mine /\ RoomAt(s, it)[e.pos] = max - Least(e.it.q, max)
    <3>1. \A e \in {x \in Entries(s, id) : x.it.owner = owner} : e.pos \in mine
      BY DEF MineSlots
    <3>2. \A e \in {x \in Entries(s, id) : x.it.owner = owner} : At(s, e.pos) = e.it
      BY RangeIs DEF Entries
    <3> HIDE DEF mine, max
    <3> QED BY <1>3, <3>1, <3>2
  <2>2. \A p \in mine : \E e \in {x \in Entries(s, id) : x.it.owner = owner} : e.pos = p
    BY DEF MineSlots
  <2> HIDE DEF mine, max
  <2>3. \A p \in mine : \E e \in {x \in Entries(s, id) : x.it.owner = owner} :
           <<p, RoomAt(s, it)[p]>> = <<e.pos, max - Least(e.it.q, max)>>
    BY <2>1, <2>2
  <2>4. \A e \in {x \in Entries(s, id) : x.it.owner = owner} :
           \E p \in mine : <<e.pos, max - Least(e.it.q, max)>> = <<p, RoomAt(s, it)[p]>>
    BY <2>1
  <2> QED BY <2>3, <2>4
<1>5. IsFiniteSet(mine)
  BY <1>1, SoundIs, FS_Subset
<1>6. room \in Nat
  <2> HIDE DEF mine, max
  <2> QED BY <1>3, <1>5, SumNat
<1> DEFINE left == IF q > room THEN q - room ELSE 0
<1>7. CheckSpace(s, id, q, owner) <=>
        ~HasTheOne(s, id) /\ q > 0 /\ Len(s) + (left + max - 1) \div max <= slotLimit
  <2>1. Total({<<e.pos, max - Least(e.it.q, max)>> : e \in {x \in Entries(s, id) : x.it.owner = owner}}) = room
    BY <1>4 DEF SumOver
  <2> HIDE DEF room, mine
  <2> QED BY <2>1 DEF CheckSpace
<1>8. PICK x \in Nat : x = room
  BY <1>6
<1>9. PICK l \in Nat : l = left
  BY <1>6
<1>10. l = IF q > x THEN q - x ELSE 0
  BY <1>8, <1>9
<1>11. Len(s) \in Nat /\ slotLimit \in Nat /\ Len(s) <= slotLimit
  BY SoundIs, FreeIs
<1>12. PICK n \in Nat : n = slotLimit - Len(s)
  BY <1>11
<1>13. PICK m \in Nat \ {0} : m = max
  BY <1>2
<1>14. (l + m - 1) \div m <= n <=> l <= m * n
  BY Ceiling
<1>15. (l + m - 1) \div m \in Int /\ m * n \in Int OBVIOUS
<1> HIDE DEF left, max, room
<1>16. Len(s) + (left + max - 1) \div max <= slotLimit <=> (l + m - 1) \div m <= n
  <2>1. PICK d \in Int : d = (l + m - 1) \div m
    BY <1>15
  <2>2. (left + max - 1) \div max = d
    BY <1>9, <1>13, <2>1
  <2>3. Len(s) + d <= slotLimit <=> d <= n
    BY <1>11, <1>12, <2>1
  <2> QED BY <2>1, <2>2, <2>3
<1>17. PICK y \in Int : y = m * n
  BY <1>15
<1>18. l <= m * n <=> q <= x + y
  <2>1. y >= 0
    BY <1>17
  <2> QED BY <1>10, <1>17, <2>1
<1>19. CheckSpace(s, id, q, owner) <=> ~HasTheOne(s, id) /\ q > 0 /\ q <= x + y
  BY <1>7, <1>14, <1>16, <1>18
<1>20. x + y = room + max * (slotLimit - Len(s))
  BY <1>8, <1>12, <1>13, <1>17
<1> QED BY <1>6, <1>19, <1>20 DEF room, max

\* An addition of at most one, and of none if one is there, doubles nothing.
LEMMA AddsKeepsOne ==
    ASSUME NEW s, Sound(s), NEW it \in Item, NEW a, Adds(a, s, it),
           it.id \in OneOfAKind => it.q <= 1 /\ (Held(s, it.id) = 1 => a.left = it.q)
    PROVE  OneKept(a.inv, s)
<1> SUFFICES ASSUME NEW id \in OneOfAKind, Held(s, id) <= 1 PROVE Held(a.inv, id) <= 1
  BY DEF OneKept
<1>1. Held(s, id) \in Nat /\ it.q \in Nat
  BY HeldIs DEF Item
<1>2. CASE id # it.id
  BY <1>2 DEF Adds
<1>3. CASE id = it.id
  <2>1. a.left \in 0..it.q /\ Held(a.inv, id) = Held(s, id) + (it.q - a.left)
    BY <1>3 DEF Adds
  <2>2. Held(s, id) = 0 \/ Held(s, id) = 1
    BY <1>1
  <2>3. it.q <= 1 /\ (Held(s, id) = 1 => a.left = it.q)
    BY <1>3
  <2> QED BY <1>1, <2>1, <2>2, <2>3
<1> QED BY <1>2, <1>3

\* What addFromDrop is given ends up in the inventory or is left, and restricted
\* items stay single (MapleInventoryManipulator.addFromDrop).
LEMMA AddFromDropIs ==
    ASSUME NEW s, Sound(s), NEW it, Loose(it)
    PROVE  /\ Adds(AddFromDrop(s, it), s, it)
           /\ OneKept(AddFromDrop(s, it).inv, s)
<1> DEFINE a == AddFromDrop(s, it)
<1>0. it \in Item /\ it.q \in Nat
  BY DEF Loose, Item
<1>1. CASE HasTheOne(s, it.id) \/ (it.q = 0 /\ ~Rech(it))
  <2>1. a = Refused(s, it)
    BY <1>1 DEF AddFromDrop
  <2>2. Adds(a, s, it)
    BY <1>0, <2>1, RefusedIs
  <2>3. a.left = it.q
    BY <2>1 DEF Refused
  <2> HIDE DEF a
  <2>4. OneKept(a.inv, s)
    BY <1>0, <2>2, <2>3, AddsKeepsOne DEF Loose
  <2> QED BY <2>2, <2>4 DEF a
<1>2. ASSUME ~HasTheOne(s, it.id), Adds(a, s, it) PROVE OneKept(a.inv, s)
  <2> HIDE DEF a
  <2> QED BY <1>0, <1>2, AddsKeepsOne DEF Loose, HasTheOne
<1>3. CASE ~(HasTheOne(s, it.id) \/ (it.q = 0 /\ ~Rech(it))) /\ Rech(it)
  <2>1. a = AddRechargeable(s, it)
    BY <1>3 DEF AddFromDrop
  <2>2. Adds(a, s, it)
    BY <1>0, <1>3, <2>1, AddRechargeableIs DEF Loose
  <2> QED BY <1>2, <1>3, <2>2
<1>4. CASE ~(HasTheOne(s, it.id) \/ (it.q = 0 /\ ~Rech(it))) /\ ~Rech(it)
  <2> DEFINE D == MergeSlots(s, it)
  <2>1. a = Added(Stack(s, it, D))
    BY <1>4 DEF AddFromDrop, MergeSlots
  <2>2. D \in SUBSET Taken(s) /\ \A p \in D : At(s, p).id = it.id
    BY SlotsAre DEF Mergeable
  <2> HIDE DEF D
  <2>3. Adds(Added(Stack(s, it, D)), s, it)
    BY <1>0, <1>4, <2>2, AddedIs
  <2> QED BY <1>2, <1>4, <2>1, <2>3
<1> QED BY <1>1, <1>3, <1>4

\* No item after this one by its id.
Below(s, it) == \A p \in Taken(s) : At(s, p).id <= it.id

\* An item of the last id goes after the others, if the stacks it would merge
\* with are full.
LEMMA PutNeat ==
    ASSUME NEW s, Sound(s), Neat(s), ~Full(s), NEW it \in Item, Fits(it), Below(s, it),
           \A p \in Taken(s) : Mergeable(At(s, p), it) => At(s, p).q = SlotMax[it.id]
    PROVE  Neat(Put(s, Min(Free(s)), it)) /\ Below(Put(s, Min(Free(s)), it), it)
<1>1. Len(s) \in Nat /\ slotLimit \in Nat /\ Len(s) < slotLimit /\ Taken(s) = 1..Len(s)
  BY SoundIs DEF Full, Neat
<1>2. PICK n \in 1..slotLimit : n = Len(s) + 1
  BY <1>1
<1>3. Min(Free(s)) = n
  <2>1. Free(s) = n..slotLimit
    BY <1>1, <1>2 DEF Free
  <2>2. Min(Free(s)) \in Free(s) /\ \A o \in Free(s) : Min(Free(s)) <= o
    BY <1>1, FreeIs
  <2> QED BY <1>1, <1>2, <2>1, <2>2
<1>4. n \notin Taken(s)
  BY <1>1, <1>2
<1>5. PICK r : r = Put(s, n, it) OBVIOUS
<1>6. /\ Taken(r) = Taken(s) \cup {n} /\ Len(r) = Len(s) + 1 /\ At(r, n) = it
      /\ \A o \in Taken(s) : At(r, o) = At(s, o)
  BY <1>4, <1>5, PutIs
<1>7. Taken(r) = 1..Len(r)
  BY <1>1, <1>2, <1>6
<1>8. Below(r, it)
  <2>1. it.id <= it.id
    <3>1. it.id \in Nat
      BY DEF Item
    <3> QED BY <3>1
  <2> QED BY <1>6, <2>1 DEF Below
<1>9. ASSUME NEW p \in Taken(r), NEW q \in Taken(r), p < q
      PROVE  /\ At(r, p).id <= At(r, q).id
             /\ Mergeable(At(r, p), At(r, q)) => SlotMax[At(r, p).id] \in {At(r, p).q, At(r, q).q}
  <2>1. p \in Taken(s)
    BY <1>1, <1>2, <1>6, <1>7, <1>9
  <2>2. CASE q \in Taken(s)
    BY <1>6, <1>9, <2>1, <2>2 DEF Neat
  <2>3. CASE q = n
    BY <1>6, <2>1, <2>3 DEF Below, Mergeable
  <2> QED BY <1>6, <2>2, <2>3
<1> QED BY <1>3, <1>5, <1>7, <1>8, <1>9 DEF Neat

\* Stacks that grow stay neat.
LEMMA GrownNeat ==
    ASSUME NEW s, Sound(s), Neat(s), NEW it \in Item, Below(s, it), NEW r, Sound(r),
           Taken(r) = Taken(s), Len(r) = Len(s), \A o \in Taken(s) : Grown(At(r, o), At(s, o))
    PROVE  Neat(r) /\ Below(r, it)
<1>1. \A o \in Taken(s) : At(r, o).id = At(s, o).id
  BY DEF Grown
<1>2. ASSUME NEW p \in Taken(s), NEW q \in Taken(s), p < q, Mergeable(At(r, p), At(r, q))
      PROVE  SlotMax[At(r, p).id] \in {At(r, p).q, At(r, q).q}
  <2>1. PICK a, b, c, d : a = At(r, p) /\ b = At(r, q) /\ c = At(s, p) /\ d = At(s, q)
    OBVIOUS
  <2>2. Grown(a, c) /\ Grown(b, d)
    BY <2>1
  <2>3. Mergeable(c, d) /\ a.id = c.id /\ b.id = d.id /\ c.id = d.id
    BY <1>2, <2>1, <2>2 DEF Mergeable, Grown, Rech
  <2>4. SlotMax[c.id] \in {c.q, d.q}
    BY <1>2, <2>1, <2>3 DEF Neat
  <2> QED BY <2>1, <2>2, <2>3, <2>4 DEF Grown
<1> QED BY <1>1, <1>2 DEF Neat, Below

\* What a stack of the last id is stacked on stays neat.
LEMMA StackNeat ==
    ASSUME NEW s, Sound(s), Neat(s), NEW it \in Item, ~Rech(it), it.q <= SlotMax[it.id],
           Below(s, it), NEW D \in SUBSET Taken(s),
           \A p \in Taken(s) : p \in D <=> Mergeable(At(s, p), it)
    PROVE  Neat(Stack(s, it, D).inv) /\ Below(Stack(s, it, D).inv, it)
<1> DEFINE f == FilledUp(s, it, D)
<1> DEFINE max == SlotMax[it.id]
<1>0. \A p \in D : At(s, p).id = it.id
  BY DEF Mergeable
<1>1. /\ f = [inv |-> f.inv, left |-> f.left]
      /\ Sound(f.inv) /\ Taken(f.inv) = Taken(s) /\ Len(f.inv) = Len(s)
      /\ f.left \in 0..it.q
      /\ \A o \in Taken(s) : Grown(At(f.inv, o), At(s, o))
      /\ f.left # 0 => \A o \in D : At(f.inv, o).q = max
  BY <1>0, FilledUpIs
<1>2. Free(f.inv) = Free(s)
  BY <1>1 DEF Free
<1>3. Stack(s, it, D) = PutInNew([inv |-> f.inv, left |-> f.left], it, Free(f.inv))
  BY <1>1, <1>2, StackParts
<1>4. it.q \in Nat /\ max \in Nat
  BY DEF Item
<1>5. PICK q0 \in Nat : q0 = f.left
  BY <1>1, <1>4
<1>6. PICK j : j = f.inv OBVIOUS
<1>7. PICK r : r = Stack(s, it, D) OBVIOUS
<1> HIDE DEF f
<1>8. Sound(j) /\ r = PutInNew([inv |-> j, left |-> q0], it, Free(j)) /\ q0 <= max
  BY <1>1, <1>3, <1>4, <1>5, <1>6, <1>7
<1>9. r.inv = IF q0 = 0 \/ Free(j) = {} THEN j ELSE Put(j, Min(Free(j)), [it EXCEPT !.q = q0])
  <2>1. r.inv = OneStack(j, it, q0)
    BY <1>8, PutInNewIs
  <2> QED BY <2>1 DEF OneStack
<1>10. Neat(j) /\ Below(j, it)
  BY <1>1, <1>6, GrownNeat
<1>11. CASE q0 = 0 \/ Free(j) = {}
  BY <1>7, <1>9, <1>10, <1>11
<1>12. CASE ~(q0 = 0 \/ Free(j) = {})
  <2>1. PICK new : new = [it EXCEPT !.q = q0] OBVIOUS
  <2>2. new \in Item /\ new.q = q0 /\ new.id = it.id /\ new.owner = it.owner /\ new.until = it.until
    BY <2>1 DEF Item
  <2>3. Fits(new)
    BY <1>8, <1>12, <2>2 DEF Fits, Rech
  <2>4. ~Full(j)
    <3>1. IsFiniteSet(Free(j)) /\ Cardinality(Free(j)) = slotLimit - Len(j) /\ Free(j) # {}
          /\ slotLimit \in Nat /\ Len(j) \in Nat
      BY <1>8, <1>12, FreeIs, SoundIs
    <3>2. Cardinality(Free(j)) # 0 /\ Cardinality(Free(j)) \in Nat
      BY <3>1, FS_EmptySet, FS_CardinalityType
    <3> QED BY <3>1, <3>2 DEF Full
  <2>5. ASSUME NEW p \in Taken(j), Mergeable(At(j, p), new) PROVE At(j, p).q = SlotMax[new.id]
    <3>1. p \in Taken(s) /\ Grown(At(j, p), At(s, p))
      BY <1>1, <1>6
    <3>2. Mergeable(At(s, p), it)
      BY <2>2, <2>5, <3>1 DEF Mergeable, Grown, Rech
    <3> QED BY <1>1, <1>5, <1>6, <1>12, <2>2, <3>1, <3>2
  <2>6. Below(j, new)
    BY <1>10, <2>2 DEF Below
  <2>7. Neat(Put(j, Min(Free(j)), new)) /\ Below(Put(j, Min(Free(j)), new), new)
    BY <1>8, <1>10, <2>2, <2>3, <2>4, <2>5, <2>6, PutNeat
  <2>8. r.inv = Put(j, Min(Free(j)), new)
    BY <1>9, <1>12, <2>1
  <2> QED BY <1>7, <2>2, <2>7, <2>8 DEF Below
<1> QED BY <1>11, <1>12

\* An addition of an item of the last id leaves a neat inventory neat.
LEMMA AddFromDropNeat ==
    ASSUME NEW s, Sound(s), Neat(s), NEW it \in Item, Fits(it), Below(s, it)
    PROVE  Neat(AddFromDrop(s, it).inv) /\ Below(AddFromDrop(s, it).inv, it)
<1> DEFINE a == AddFromDrop(s, it)
<1>1. CASE HasTheOne(s, it.id) \/ (it.q = 0 /\ ~Rech(it))
  BY <1>1 DEF AddFromDrop, Refused
<1>2. CASE ~(HasTheOne(s, it.id) \/ (it.q = 0 /\ ~Rech(it))) /\ Rech(it)
  <2>1. a = AddRechargeable(s, it)
    BY <1>2 DEF AddFromDrop
  <2>2. CASE Full(s)
    BY <2>1, <2>2 DEF AddRechargeable, Refused
  <2>3. CASE ~Full(s)
    <3>1. a.inv = Put(s, Min(Free(s)), it)
      BY <2>1, <2>3 DEF AddRechargeable
    <3>2. \A p \in Taken(s) : ~Mergeable(At(s, p), it)
      BY <1>2 DEF Mergeable, Rech
    <3> QED BY <2>3, <3>1, <3>2, PutNeat
  <2> QED BY <2>2, <2>3
<1>3. CASE ~(HasTheOne(s, it.id) \/ (it.q = 0 /\ ~Rech(it))) /\ ~Rech(it)
  <2> DEFINE D == MergeSlots(s, it)
  <2>1. a = Added(Stack(s, it, D))
    BY <1>3 DEF AddFromDrop, MergeSlots
  <2>2. D \in SUBSET Taken(s) /\ \A p \in Taken(s) : p \in D <=> Mergeable(At(s, p), it)
    BY SlotsAre
  <2>3. it.q <= SlotMax[it.id]
    BY <1>3 DEF Fits
  <2> HIDE DEF D
  <2>4. Neat(Stack(s, it, D).inv) /\ Below(Stack(s, it, D).inv, it)
    BY <1>3, <2>2, <2>3, StackNeat
  <2> QED BY <2>1, <2>4 DEF Added
<1> QED BY <1>1, <1>2, <1>3

\* checkSpace and addFromDrop agree, unless a stack with another deadline counts.
LEMMA SpaceAgrees ==
    ASSUME NEW s, Sound(s), NEW it \in Item, ~OtherDeadline(s, it.id, it.owner, it.until)
    PROVE  CheckSpace(s, it.id, it.q, it.owner) <=> AddFromDrop(s, it).ok
<1> DEFINE a == AddFromDrop(s, it)
<1>0. it.q \in Nat /\ it.id \in Ids
  BY DEF Item
<1>1. CASE Rech(it)
  <2>1. it.id \in Rechargeable
    BY <1>1 DEF Rech
  <2>2. CheckSpace(s, it.id, it.q, it.owner) <=> ~HasTheOne(s, it.id) /\ ~Full(s)
    BY <2>1 DEF CheckSpace
  <2>3. HasTheOne(s, it.id) => ~a.ok
    BY DEF AddFromDrop, Refused
  <2>4. ~HasTheOne(s, it.id) => a = AddRechargeable(s, it)
    BY <1>1 DEF AddFromDrop
  <2>5. AddRechargeable(s, it).ok <=> ~Full(s)
    BY DEF AddRechargeable, Refused
  <2> HIDE DEF a
  <2> QED BY <2>2, <2>3, <2>4, <2>5 DEF a
<1>2. CASE ~Rech(it)
  <2> DEFINE D == MergeSlots(s, it)
  <2> DEFINE M == MineSlots(s, it.id, it.owner)
  <2> DEFINE f == RoomAt(s, it)
  <2>1. it.id \notin Rechargeable
    BY <1>2 DEF Rech
  <2>2. /\ D \in SUBSET Taken(s) /\ \A p \in Taken(s) : p \in D <=> Mergeable(At(s, p), it)
        /\ M \in SUBSET Taken(s)
        /\ \A p \in Taken(s) : p \in M <=> At(s, p).id = it.id /\ At(s, p).owner = it.owner
    BY SlotsAre
  <2>3. \A p \in D : At(s, p).id = it.id
    BY <2>2 DEF Mergeable
  <2>4. D \in SUBSET M
    BY <2>2 DEF Mergeable
  <2>5. \A p \in M : f[p] \in Nat /\ (p \notin D => f[p] = 0)
    <3> TAKE p \in M
    <3> DEFINE i == At(s, p)
    <3>1. p \in Taken(s) /\ i \in Item /\ Fits(i) /\ i.id = it.id /\ i.owner = it.owner
      BY <2>2, SoundIs
    <3>2. f[p] = SlotMax[it.id] - i.q
      BY <3>1 DEF RoomAt
    <3>3. i.q \in Nat /\ i.q <= SlotMax[it.id] /\ SlotMax[it.id] \in Nat
      BY <1>0, <2>1, <3>1 DEF Fits, Rech, Item
    <3>4. ASSUME p \notin D PROVE i.q >= SlotMax[it.id]
      <4>1. i.until # it.until
        BY <2>1, <2>2, <3>1, <3>4 DEF Mergeable, Rech
      <4>2. \E e \in Range(s) : e.pos = p /\ e.it = i
        BY <3>1, RangeIs, SoundIs DEF At
      <4>3. PICK e \in Entries(s, it.id) : e.it = i
        BY <3>1, <4>2 DEF Entries
      <4>4. ~(i.q < SlotMax[it.id])
        BY <3>1, <4>1, <4>3 DEF OtherDeadline
      <4> QED BY <3>3, <4>4
    <3> HIDE DEF i, f
    <3> QED BY <3>2, <3>3, <3>4
  <2>6. IsFiniteSet(M)
    BY <2>2, SoundIs, FS_Subset
  <2>7. SumOver(f, M) = SumOver(f, D)
    <3>1. (\A p \in M : f[p] \in Int) /\ \A p \in M \ D : f[p] = 0
      BY <2>5
    <3> HIDE DEF f, M, D
    <3> QED BY <2>4, <2>6, <3>1, SumSubset
  <2>8. CheckSpace(s, it.id, it.q, it.owner) <=>
          ~HasTheOne(s, it.id) /\ it.q > 0 /\ it.q <= SumOver(f, M) + SlotMax[it.id] * (slotLimit - Len(s))
    BY <1>0, <2>1, CheckSpaceIs
  <2> HIDE DEF f, M, D
  <2>9. Added(Stack(s, it, D)).ok <=> it.q <= SumOver(f, D) + SlotMax[it.id] * (slotLimit - Len(s))
    BY <1>2, <2>2, <2>3, AddedIs DEF f
  <2>10. CASE HasTheOne(s, it.id) \/ it.q = 0
    <3>1. ~a.ok
      BY <1>2, <2>10 DEF AddFromDrop, Refused
    <3> QED BY <1>0, <2>8, <2>10, <3>1
  <2>11. CASE ~HasTheOne(s, it.id) /\ it.q # 0
    <3>1. a = Added(Stack(s, it, D))
      BY <1>2, <2>11 DEF AddFromDrop, MergeSlots, D
    <3>2. it.q > 0
      BY <1>0, <2>11
    <3> QED BY <2>7, <2>8, <2>9, <2>11, <3>1, <3>2
  <2> QED BY <2>10, <2>11
<1> QED BY <1>1, <1>2

\* An item that is given: it is taken as a whole where checkSpace said so,
\* unless a stack with another deadline counts.
LEMMA AddIdIs ==
    ASSUME NEW s, Sound(s), NEW id \in Ids, NEW q \in Nat,
           id \in Rechargeable => q <= MaxCharge[id]
    PROVE  LET a == AddId(s, id, q)
               it == [id |-> id, owner |-> NoOwner, until |-> Forever, q |-> q]
           IN  /\ Adds(a, s, it)
               /\ (id \in OneOfAKind => q <= 1) => OneKept(a.inv, s)
               /\ \A n \in Nat : /\ CheckSpace(s, id, n, NoOwner)
                                 /\ ~OtherDeadline(s, id, NoOwner, Forever)
                                 /\ id \notin Rechargeable => q = n
                                 => a.ok
<1> DEFINE a == AddId(s, id, q)
<1> DEFINE it == [id |-> id, owner |-> NoOwner, until |-> Forever, q |-> q]
<1>0. it \in Item /\ it.id = id /\ it.q = q /\ it.owner = NoOwner /\ it.until = Forever /\ (Rech(it) <=> id \in Rechargeable)
  BY DEF Item, Rech
<1>1. a = IF HasTheOne(s, id) THEN Refused(s, it)
          ELSE IF Rech(it) THEN AddRechargeable(s, it)
          ELSE Added(Stack(s, it, UntimedSlots(s, id)))
  BY DEF AddId, UntimedSlots
<1> HIDE DEF it, a
<1>2. ASSUME ~HasTheOne(s, id), Adds(a, s, it), id \in OneOfAKind => q <= 1 PROVE OneKept(a.inv, s)
  BY <1>0, <1>2, AddsKeepsOne DEF HasTheOne
<1>3. \A n : CheckSpace(s, id, n, NoOwner) => ~HasTheOne(s, id)
  BY DEF CheckSpace
<1>4. CASE HasTheOne(s, id)
  <2>1. a = Refused(s, it)
    BY <1>1, <1>4
  <2>2. Adds(a, s, it) /\ a.inv = s
    BY <1>0, <2>1, RefusedIs DEF Refused
  <2>3. OneKept(a.inv, s)
    BY <2>2 DEF OneKept
  <2> QED BY <1>3, <1>4, <2>2, <2>3 DEF a, it
<1>5. CASE ~HasTheOne(s, id) /\ Rech(it)
  <2>1. a = AddRechargeable(s, it)
    BY <1>1, <1>5
  <2>2. Adds(a, s, it) /\ (a.ok <=> ~Full(s))
    BY <1>0, <1>5, <2>1, AddRechargeableIs
  <2>3. \A n : CheckSpace(s, id, n, NoOwner) => ~Full(s)
    BY <1>0, <1>5 DEF CheckSpace
  <2> QED BY <1>2, <1>5, <2>2, <2>3 DEF a, it
<1>6. CASE ~HasTheOne(s, id) /\ ~Rech(it)
  <2> DEFINE D == UntimedSlots(s, id)
  <2> DEFINE M == MineSlots(s, id, NoOwner)
  <2> DEFINE f == RoomAt(s, it)
  <2>1. id \notin Rechargeable
    BY <1>0, <1>6
  <2>2. /\ D \in SUBSET Taken(s) /\ \A p \in Taken(s) : p \in D <=> At(s, p).id = id /\ At(s, p).until = Forever
        /\ M \in SUBSET Taken(s)
        /\ \A p \in Taken(s) : p \in M <=> At(s, p).id = id /\ At(s, p).owner = NoOwner
    BY SlotsAre
  <2>3. \A p \in D : At(s, p).id = it.id
    BY <1>0, <2>2
  <2>4. a = Added(Stack(s, it, D))
    BY <1>1, <1>6
  <2> HIDE DEF D, M
  <2>5. /\ Adds(a, s, it)
        /\ SumOver(f, D) \in Nat /\ SlotMax[id] * (slotLimit - Len(s)) \in Nat
        /\ a.ok <=> q <= SumOver(f, D) + SlotMax[id] * (slotLimit - Len(s))
    BY <1>0, <1>6, <2>2, <2>3, <2>4, AddedIs
  <2>6. ASSUME ~OtherDeadline(s, id, NoOwner, Forever) PROVE SumOver(f, M) <= SumOver(f, D)
    <3>1. \A p \in M \cup D : f[p] \in Nat
      <4> TAKE p \in M \cup D
      <4>1. p \in Taken(s) /\ At(s, p) \in Item /\ Fits(At(s, p)) /\ At(s, p).id = id
        BY <2>2, SoundIs
      <4>2. f[p] = SlotMax[id] - At(s, p).q
        BY <1>0, <4>1 DEF RoomAt
      <4>3. At(s, p).q \in Nat /\ At(s, p).q <= SlotMax[id] /\ SlotMax[id] \in Nat
        BY <2>1, <4>1 DEF Fits, Rech, Item
      <4> HIDE DEF f
      <4> QED BY <4>2, <4>3
    <3>2. \A p \in M \ (M \cap D) : f[p] = 0
      <4> SUFFICES ASSUME NEW p \in M, p \notin D PROVE f[p] = 0 OBVIOUS
      <4> DEFINE i == At(s, p)
      <4>1. p \in Taken(s) /\ i \in Item /\ Fits(i) /\ i.id = id /\ i.owner = NoOwner /\ i.until # Forever
        BY <2>2, SoundIs
      <4>2. \E e \in Range(s) : e.pos = p /\ e.it = i
        BY <4>1, RangeIs, SoundIs DEF At
      <4>3. PICK e \in Entries(s, id) : e.it = i
        BY <4>1, <4>2 DEF Entries
      <4>4. ~(i.q < SlotMax[id])
        BY <2>6, <4>1, <4>3 DEF OtherDeadline
      <4>5. f[p] = SlotMax[id] - i.q
        BY <1>0, <4>1 DEF RoomAt
      <4>6. i.q \in Nat /\ i.q <= SlotMax[id] /\ SlotMax[id] \in Nat
        BY <2>1, <4>1 DEF Fits, Rech, Item
      <4> HIDE DEF f, i
      <4> QED BY <4>4, <4>5, <4>6
    <3>3. IsFiniteSet(M) /\ IsFiniteSet(D)
      BY <2>2, SoundIs, FS_Subset
    <3>4. M \cap D \in SUBSET M /\ M \cap D \in SUBSET D OBVIOUS
    <3> HIDE DEF f
    <3>5. SumOver(f, M) = SumOver(f, M \cap D)
      <4>1. \A p \in M : f[p] \in Int
        BY <3>1
      <4> QED BY <3>2, <3>3, <3>4, <4>1, SumSubset
    <3>6. SumOver(f, M \cap D) <= SumOver(f, D)
      <4>1. (\A p \in D : f[p] \in Int) /\ \A p \in D \ (M \cap D) : f[p] >= 0
        BY <3>1
      <4> QED BY <3>3, <3>4, <4>1, SumSubset
    <3> QED BY <3>5, <3>6
  <2> HIDE DEF f
  <2>7. SumOver(f, M) \in Nat /\ \A n \in Nat : CheckSpace(s, id, n, NoOwner) =>
                                      n <= SumOver(f, M) + SlotMax[id] * (slotLimit - Len(s))
    BY <1>0, <2>1, CheckSpaceIs DEF f, M
  <2>8. ASSUME NEW n \in Nat, CheckSpace(s, id, n, NoOwner), ~OtherDeadline(s, id, NoOwner, Forever), q = n
        PROVE  a.ok
    <3>1. PICK y \in Nat : y = SlotMax[id] * (slotLimit - Len(s))
      BY <2>5
    <3>2. n <= SumOver(f, M) + y
      BY <2>7, <2>8, <3>1
    <3>3. q <= SumOver(f, D) + y
      BY <2>5, <2>6, <2>7, <2>8, <3>2
    <3> QED BY <2>5, <3>1, <3>3
  <2> QED BY <1>2, <1>6, <2>1, <2>5, <2>8 DEF a, it
<1> QED BY <1>4, <1>5, <1>6

-----------------------------------------------------------------------------
(* Sorting, expiry, the list of a storage room by id, gathering.            *)

\* A set that gives one member for another is as large.
LEMMA Exchanged ==
    ASSUME NEW S, IsFiniteSet(S), NEW a \in S, NEW b, b \notin S
    PROVE  Cardinality((S \ {a}) \cup {b}) = Cardinality(S)
<1>1. IsFiniteSet(S \ {a}) /\ Cardinality(S \ {a}) = Cardinality(S) - 1 /\ Cardinality(S) \in Nat
  BY FS_RemoveElement, FS_CardinalityType
<1>2. b \notin S \ {a} OBVIOUS
<1>3. PICK T : T = S \ {a} OBVIOUS
<1>4. Cardinality(T \cup {b}) = Cardinality(T) + 1
  BY <1>1, <1>2, <1>3, FS_AddElement
<1> QED BY <1>1, <1>3, <1>4

\* Ranked goes by the slots in use.
LEMMA RankedIs ==
    ASSUME NEW s, Sound(s)
    PROVE  Ranked(s) = {<<Rank(s, p), At(s, p)>> : p \in Taken(s)}
<1>1. \A e \in Range(s) : e.pos \in Taken(s) /\ At(s, e.pos) = e.it
  BY RangeIs
<1>2. \A p \in Taken(s) : \E e \in Range(s) : e.pos = p
  BY RangeIs, SoundIs
<1> QED BY <1>1, <1>2 DEF Ranked

\* An item that moves down into a gap with nothing between keeps its rank, and
\* the others keep theirs.
LEMMA MovedDown ==
    ASSUME NEW s, Sound(s), NEW src \in Taken(s), NEW gap \in 1..slotLimit, gap \notin Taken(s),
           gap < src, \A p \in Taken(s) : p < src => p < gap
    PROVE  LET r == MoveItem(s, src, gap)
           IN  /\ Taken(r) = (Taken(s) \ {src}) \cup {gap} /\ Len(r) = Len(s)
               /\ Ranked(r) = Ranked(s)
<1> DEFINE r == MoveItem(s, src, gap)
<1> DEFINE w == Without(s, src)
<1> DEFINE a == At(s, src)
<1>1. r = Put(w, gap, a)
  BY DEF MoveItem, At
<1>2. /\ Sound(w) /\ Taken(w) = Taken(s) \ {src} /\ Len(w) = Len(s) - 1
      /\ \A o \in Taken(s) \ {src} : At(w, o) = At(s, o)
  BY WithoutIs
<1>3. a \in Item /\ Fits(a) /\ Len(s) \in Nat /\ src \in Int /\ gap \in Int /\ IsFiniteSet(Taken(s))
      /\ \A p \in Taken(s) : p \in Int
  BY SoundIs
<1>4. gap \notin Taken(w)
  BY <1>2
<1> HIDE DEF r, w, a
<1>5. /\ Sound(r) /\ Taken(r) = Taken(w) \cup {gap} /\ Len(r) = Len(w) + 1 /\ At(r, gap) = a
      /\ \A o \in Taken(w) : At(r, o) = At(w, o)
  BY <1>1, <1>2, <1>3, <1>4, PutIs
<1>6. Taken(r) = (Taken(s) \ {src}) \cup {gap} /\ Len(r) = Len(s)
  BY <1>2, <1>3, <1>5
<1>7. Rank(r, gap) = Rank(s, src) /\ At(r, gap) = At(s, src)
  <2> DEFINE S == {p \in Taken(s) : p <= src}
  <2>1. {p \in Taken(r) : p <= gap} = (S \ {src}) \cup {gap}
    <3>1. \A p \in Taken(s) : p # src => (p <= gap <=> p <= src)
      BY <1>3
    <3>2. gap <= gap
      BY <1>3
    <3>3. \A p \in Taken(r) : p <= gap => p \in (S \ {src}) \cup {gap}
      BY <1>6, <3>1
    <3>4. \A p \in S \ {src} : p \in Taken(r) /\ p <= gap
      BY <1>6, <3>1
    <3>5. gap \in Taken(r)
      BY <1>6
    <3> QED BY <3>2, <3>3, <3>4, <3>5
  <2>2. IsFiniteSet(S) /\ src \in S /\ gap \notin S
    <3>1. S \in SUBSET Taken(s) OBVIOUS
    <3> QED BY <1>3, <3>1, FS_Subset
  <2> HIDE DEF S
  <2>3. Cardinality((S \ {src}) \cup {gap}) = Cardinality(S)
    BY <2>2, Exchanged
  <2> QED BY <1>5, <2>1, <2>3 DEF Rank, S, a
<1>8. \A p \in Taken(s) \ {src} : Rank(r, p) = Rank(s, p) /\ At(r, p) = At(s, p)
  <2> SUFFICES ASSUME NEW p \in Taken(s), p # src PROVE Rank(r, p) = Rank(s, p)
    BY <1>2, <1>5
  <2>1. CASE p < src
    <3>1. {o \in Taken(r) : o <= p} = {o \in Taken(s) : o <= p}
      BY <1>3, <1>6, <2>1
    <3> QED BY <3>1 DEF Rank
  <2>2. CASE ~(p < src)
    <3> DEFINE S == {o \in Taken(s) : o <= p}
    <3>1. {o \in Taken(r) : o <= p} = (S \ {src}) \cup {gap}
      BY <1>3, <1>6, <2>2
    <3>2. IsFiniteSet(S) /\ src \in S /\ gap \notin S
      <4>3. p \in Int /\ src \in Int
        BY <1>3
      <4>1. src <= p
        BY <4>3, <2>2
      <4>2. S \in SUBSET Taken(s) OBVIOUS
      <4> QED BY <1>3, <4>1, <4>2, FS_Subset
    <3> HIDE DEF S
    <3>3. Cardinality((S \ {src}) \cup {gap}) = Cardinality(S)
      BY <3>2, Exchanged
    <3> QED BY <3>1, <3>3 DEF Rank, S
  <2> QED BY <2>1, <2>2
<1>9. Ranked(r) = Ranked(s)
  <2>1. Ranked(r) = {<<Rank(r, p), At(r, p)>> : p \in Taken(r)}
    BY <1>5, RankedIs
  <2>2. Ranked(s) = {<<Rank(s, p), At(s, p)>> : p \in Taken(s)}
    BY RankedIs
  <2> QED BY <1>6, <1>7, <1>8, <2>1, <2>2
<1> QED BY <1>6, <1>9 DEF r

\* Sorting only moves items into gaps, in their order, until there is no gap.
LEMMA SortedIs ==
    ASSUME NEW s, Sound(s)
    PROVE  /\ Sound(Sorted(s)) /\ SameHeld(Sorted(s), s)
           /\ Taken(Sorted(s)) = 1..Len(s) /\ Ranked(Sorted(s)) = Ranked(s)
<1> DEFINE D == 1..slotLimit
<1> DEFINE base == s
<1> DEFINE step(r, k) ==
            LET gap == Min(Free(r))
                later == {p \in Taken(r) : p > gap}
            IN  IF Full(r) \/ later = {} THEN r ELSE MoveItem(r, Min(later), gap)
<1> DEFINE Rec(f) == f = [t \in SUBSET D |-> IF t = {} THEN base ELSE step(f[t \ {Max(t)}], Max(t))]
<1> DEFINE g == CHOOSE f : Rec(f)
<1>1. Sorted(s) = g[D]
  BY DEF Sorted, Upwards, MapThenFoldSet
<1> DEFINE R == Seq(Entry)
<1> DEFINE P(r, t) ==
             /\ Sound(r) /\ SameHeld(r, s) /\ Len(r) = Len(s) /\ Ranked(r) = Ranked(s)
             /\ Taken(r) = 1..Len(r) \/ 1..Cardinality(t) \subseteq Taken(r)
<1> DEFINE W == [t \in SUBSET D |-> {r \in R : P(r, t)}]
<1>01. D \in SUBSET Int /\ IsFiniteSet(D)
  BY FS_Interval DEF Sound
<1>02. base \in W[{}]
  <2>1. s \in R /\ P(s, {})
    <3>1. 1..Cardinality({}) = {}
      BY FS_EmptySet
    <3> QED BY <3>1 DEF Sound, SameHeld
  <2> HIDE DEF P, R
  <2> QED BY <2>1
<1>03. \A t \in SUBSET D : t # {} => \A r \in W[t \ {Max(t)}] : step(r, Max(t)) \in W[t]
  <2> SUFFICES ASSUME NEW t \in SUBSET D, t # {}, NEW r \in W[t \ {Max(t)}]
               PROVE  step(r, Max(t)) \in W[t]
    OBVIOUS
  <2>1. P(r, t \ {Max(t)})
    <3>1. t \ {Max(t)} \in SUBSET D OBVIOUS
    <3> HIDE DEF P
    <3> QED BY <3>1
  <2>4. /\ Cardinality(t \ {Max(t)}) = Cardinality(t) - 1 /\ Cardinality(t) \in Nat
        /\ Cardinality(t) <= slotLimit
    <3>1. IsFiniteSet(t) /\ Max(t) \in t
      BY <1>01, FS_Subset, MaxIs
    <3>2. Cardinality(D) = slotLimit /\ IsFiniteSet(D)
      BY FS_Interval DEF Sound
    <3>3. Cardinality(t) <= Cardinality(D)
      <4> HIDE DEF D
      <4> QED BY <3>2, FS_Subset
    <3> HIDE DEF D
    <3> QED BY <3>1, <3>2, <3>3, FS_RemoveElement, FS_CardinalityType
  <2>5. /\ Len(r) \in Nat /\ slotLimit \in Nat /\ Taken(r) \subseteq 1..slotLimit
        /\ IsFiniteSet(Taken(r)) /\ Cardinality(Taken(r)) = Len(r)
    BY <2>1, SoundIs
  <2>8. /\ Free(r) \in SUBSET (1..slotLimit) /\ Len(r) <= slotLimit
        /\ ~(Len(r) >= slotLimit) => Min(Free(r)) \in Free(r) /\ \A o \in Free(r) : Min(Free(r)) <= o
    <3>1. Sound(r)
      BY <2>1
    <3> QED BY <2>5, <3>1, FreeIs
  <2> DEFINE gap == Min(Free(r))
  <2> DEFINE later == {p \in Taken(r) : p > gap}
  <2>2. ASSUME ~(Full(r) \/ later = {})
        PROVE  LET m == MoveItem(r, Min(later), gap)
               IN  /\ Sound(m) /\ SameHeld(m, r) /\ Len(m) = Len(r) /\ Ranked(m) = Ranked(r)
                   /\ 1..Cardinality(t) \subseteq Taken(m)
    <3>1. gap \in Free(r) /\ gap \in 1..slotLimit /\ gap \notin Taken(r)
      BY <2>2, <2>8 DEF Full, Free
    <3>2. Taken(r) \in SUBSET Int /\ IsFiniteSet(Taken(r)) /\ later \in SUBSET Taken(r)
      BY <2>1, SoundIs
    <3>3. Min(later) \in Taken(r) /\ gap < Min(later) /\ \A p \in Taken(r) : gap < p => Min(later) <= p
      <4>1. IsFiniteSet(later) /\ later \in SUBSET Int /\ later # {}
        BY <2>2, <3>2, FS_Subset
      <4>2. Min(later) \in later /\ \A p \in later : Min(later) <= p
        <5> HIDE DEF later
        <5> QED BY <4>1, MinIs
      <4> QED BY <4>2
    <3>5. \A o \in Free(r) : gap <= o
      BY <2>2, <2>8 DEF Full
    <3> HIDE DEF later, gap
    <3>4. Min(later) # gap /\ gap \in Int /\ Min(later) \in Int /\ \A p \in Taken(r) : p \in Int
      BY <3>1, <3>2, <3>3
    <3>6. \A o \in 1..(gap - 1) : o \in Taken(r)
      BY <2>5, <3>1, <3>4, <3>5 DEF Free
    <3>7. PICK src : src = Min(later) OBVIOUS
    <3>8. \A p \in Taken(r) : p < src => p < gap
      BY <3>1, <3>3, <3>4, <3>7
    <3>9. /\ Taken(MoveItem(r, src, gap)) = (Taken(r) \ {src}) \cup {gap}
          /\ Len(MoveItem(r, src, gap)) = Len(r) /\ Ranked(MoveItem(r, src, gap)) = Ranked(r)
      BY <2>1, <3>1, <3>3, <3>7, <3>8, MovedDown
    <3>10. 1..gap \subseteq Taken(MoveItem(r, src, gap))
      BY <3>3, <3>4, <3>6, <3>7, <3>9
    <3>11. Cardinality(t) <= gap
      <4>1. CASE Taken(r) = 1..Len(r)
        <5>1. Min(later) <= Len(r) /\ gap \in 1..slotLimit /\ gap < Min(later)
          BY <2>5, <3>1, <3>3, <4>1
        <5>2. gap \in 1..Len(r)
          BY <2>5, <3>4, <5>1
        <5> QED BY <3>1, <4>1, <5>2
      <4>2. CASE 1..(Cardinality(t) - 1) \subseteq Taken(r)
        <5>1. gap \notin 1..(Cardinality(t) - 1)
          BY <3>1, <4>2
        <5> QED BY <2>4, <2>5, <3>1, <5>1
      <4> QED BY <2>1, <2>4, <4>1, <4>2
    <3>12. Sound(MoveItem(r, src, gap)) /\ SameHeld(MoveItem(r, src, gap), r)
      BY <2>1, <3>1, <3>3, <3>4, <3>7, MoveItemIs
    <3>13. 1..Cardinality(t) \subseteq 1..gap
      BY <2>4, <3>4, <3>11
    <3> QED BY <3>7, <3>9, <3>10, <3>12, <3>13
  <2>6. ASSUME Full(r) \/ later = {} PROVE Taken(r) = 1..Len(r)
    <3>1. CASE Full(r)
      <4>1. Len(r) = slotLimit
        BY <2>5, <2>8, <3>1 DEF Full
      <4>2. IsFiniteSet(1..slotLimit) /\ Cardinality(1..slotLimit) = slotLimit
        <5>1. slotLimit \in Nat
          BY <2>5
        <5> QED BY ONLY <5>1, FS_Interval
      <4> QED BY <2>5, <4>1, <4>2, FS_Subset
    <3>2. CASE ~Full(r) /\ later = {}
      <4>1. gap \in Free(r) /\ gap \in 1..slotLimit /\ gap \notin Taken(r) /\ \A o \in Free(r) : gap <= o
        BY <2>8, <3>2 DEF Full, Free
      <4>2. \A p \in Taken(r) : p <= gap
        BY <2>5, <3>2, <4>1
      <4> HIDE DEF gap
      <4>3. Taken(r) = 1..(gap - 1)
        <5>1. \A p \in Taken(r) : p \in 1..(gap - 1)
          BY <2>5, <4>1, <4>2
        <5>2. \A p \in 1..(gap - 1) : p \in Taken(r)
          BY <2>5, <4>1 DEF Free
        <5> QED BY <5>1, <5>2
      <4>4. Cardinality(1..(gap - 1)) = gap - 1
        <5>1. gap \in Int /\ gap >= 1
          BY <2>5, <4>1
        <5> QED BY ONLY <5>1, FS_Interval
      <4> QED BY <2>5, <4>3, <4>4
    <3> QED BY <2>6, <3>1, <3>2
  <2>3. P(step(r, Max(t)), t)
    <3>1. CASE Full(r) \/ later = {}
      <4>1. step(r, Max(t)) = r
        BY <3>1
      <4> HIDE DEF step, later, gap
      <4> QED BY <2>1, <2>6, <3>1, <4>1
    <3>2. CASE ~(Full(r) \/ later = {})
      <4>1. step(r, Max(t)) = MoveItem(r, Min(later), gap)
        BY <3>2
      <4> HIDE DEF step, later, gap
      <4> QED BY <2>1, <2>2, <3>2, <4>1 DEF SameHeld
    <3> QED BY <3>1, <3>2
  <2> HIDE DEF step
  <2>7. step(r, Max(t)) \in R
    BY <2>3 DEF Sound
  <2> HIDE DEF P, R
  <2> QED BY <2>3, <2>7
<1>04. \A t \in SUBSET D : g[t] \in W[t]
  <2> DEFINE F == [k \in D |-> [r \in R |-> step(r, k)]]
  <2>1. \A t \in SUBSET D : t # {} => Max(t) \in t /\ Max(t) \in D
    BY <1>01, MaxIs, FS_Subset
  <2>2. \A t \in SUBSET D : \A r \in W[t] : r \in R
    BY DEF W
  <2> HIDE DEF W, R, step, base, D
  <2>3. \A t \in SUBSET D : t # {} => \A r \in W[t \ {Max(t)}] : F[Max(t)][r] = step(r, Max(t))
    <3> SUFFICES ASSUME NEW t \in SUBSET D, t # {}, NEW r \in W[t \ {Max(t)}]
                 PROVE  F[Max(t)][r] = step(r, Max(t))
      OBVIOUS
    <3>1. t \ {Max(t)} \in SUBSET D OBVIOUS
    <3>2. r \in R /\ Max(t) \in D
      BY <2>1, <2>2, <3>1
    <3> QED BY <3>2
  <2>12. PICK h : IsUp(h, D, W, base, F)
    <3> HIDE DEF F
    <3>1. \A t \in SUBSET D : t # {} => \A r \in W[t \ {Max(t)}] : F[Max(t)][r] \in W[t]
      BY <1>03, <2>3
    <3>2. D \in SUBSET Int /\ IsFiniteSet(D) /\ base \in W[{}]
      BY <1>01, <1>02
    <3> QED BY <3>1, <3>2, FoldUp
  <2>4. /\ h = [t \in SUBSET D |-> IF t = {} THEN base ELSE F[Max(t)][h[t \ {Max(t)}]]]
        /\ \A t \in SUBSET D : h[t] \in W[t]
    <3> HIDE DEF F
    <3> QED BY <2>12 DEF IsUp
  <2>5. \A t \in SUBSET D : t # {} => F[Max(t)][h[t \ {Max(t)}]] = step(h[t \ {Max(t)}], Max(t))
    <3> HIDE DEF F
    <3> SUFFICES ASSUME NEW t \in SUBSET D, t # {}
                 PROVE  F[Max(t)][h[t \ {Max(t)}]] = step(h[t \ {Max(t)}], Max(t))
      OBVIOUS
    <3>1. t \ {Max(t)} \in SUBSET D OBVIOUS
    <3>2. h[t \ {Max(t)}] \in W[t \ {Max(t)}]
      BY <2>4, <3>1
    <3> QED BY <2>3, <3>2
  <2>6. Rec(h)
    <3> HIDE DEF F
    <3> QED BY <2>4, <2>5
  <2>7. Rec(g)
    <3> HIDE DEF Rec
    <3> QED BY <2>6
  <2>8. g[{}] = base /\ \A t \in SUBSET D : t # {} => g[t] = step(g[t \ {Max(t)}], Max(t))
    <3> HIDE DEF g
    <3> QED BY <2>7
  <2> HIDE DEF g
  <2>9. \A t \in SUBSET D : t # {} /\ g[t \ {Max(t)}] \in W[t \ {Max(t)}] => g[t] \in W[t]
    BY <1>03, <2>8
  <2> QED BY <1>01, <1>02, <2>8, <2>9, Climb
<1>5. g[D] \in W[D]
  <2>1. D \in SUBSET D OBVIOUS
  <2> HIDE DEF g, W, D
  <2> QED BY <2>1, <1>04
<1>6. W[D] = {r \in R : P(r, D)} OBVIOUS
<1> HIDE DEF g, W
<1>7. P(g[D], D)
  <2> HIDE DEF P
  <2> QED BY <1>5, <1>6
<1>8. Taken(g[D]) = 1..Len(g[D])
  <2>1. slotLimit \in Nat /\ Cardinality(1..slotLimit) = slotLimit
    BY FS_Interval DEF Sound
  <2>2. CASE 1..slotLimit \subseteq Taken(g[D])
    <3>1. Taken(g[D]) \subseteq 1..slotLimit /\ Cardinality(Taken(g[D])) = Len(g[D])
      BY <1>7, SoundIs
    <3> QED BY <2>1, <2>2, <3>1
  <2> QED BY <1>7, <2>1, <2>2
<1> HIDE DEF D
<1> QED BY <1>1, <1>7, <1>8

\* Expiry takes the overdue entries, and of each item what they hold.
Overdue(s, d) == {e.pos : e \in {x \in Range(s) : x.it.until = d}}

\* The expiration takes the overdue entries and nothing else.
LEMMA ExpiredIs ==
    ASSUME NEW s, Sound(s), NEW d
    PROVE  LET r == Upwards(Without, s, Overdue(s, d))
           IN  /\ Sound(r)
               /\ \A id : Held(r, id) = Held(s, id) -
                    Total({<<e.pos, e.it.q>> : e \in {x \in Entries(s, id) : x.it.until = d}})
<1> DEFINE D == Overdue(s, d)
<1> DEFINE base == s
<1> DEFINE step(r, k) == Without(r, k)
<1> DEFINE Rec(f) == f = [t \in SUBSET D |-> IF t = {} THEN base ELSE step(f[t \ {Max(t)}], Max(t))]
<1> DEFINE g == CHOOSE f : Rec(f)
<1>1. Upwards(Without, s, D) = g[D]
  BY DEF Upwards, MapThenFoldSet
<1> DEFINE R == Seq(Entry)
<1> DEFINE P(r, t) ==
             /\ Sound(r) /\ Taken(r) = Taken(s) \ t
             /\ \A o \in Taken(r) : At(r, o) = At(s, o)
             /\ \A id : Held(r, id) = Held(s, id) - SumOver(QAt(s, id), t)
<1> DEFINE W == [t \in SUBSET D |-> {r \in R : P(r, t)}]
<1>7. D \in SUBSET Taken(s)
  BY RangeIs DEF Overdue
<1>8. IsFiniteSet(Taken(s)) /\ Taken(s) \in SUBSET Int
  BY SoundIs
<1>01. D \in SUBSET Int /\ IsFiniteSet(D)
  <2> HIDE DEF D
  <2> QED BY <1>7, <1>8, FS_Subset
<1>9. \A id : \A p \in Taken(s) : QAt(s, id)[p] = Q(At(s, p), id) /\ QAt(s, id)[p] \in Nat
  BY HeldIs
<1>10. \A id : Held(s, id) \in Nat
  BY HeldIs
<1> HIDE DEF D
<1>02. base \in W[{}]
  <2>1. \A id : SumOver(QAt(s, id), {}) = 0
    BY FS_EmptySet, SumRemove
  <2>2. s \in R /\ P(s, {})
    BY <1>10, <2>1 DEF Sound
  <2> HIDE DEF P, R
  <2> QED BY <2>2
<1>03. \A t \in SUBSET D : t # {} => \A r \in W[t \ {Max(t)}] : step(r, Max(t)) \in W[t]
  <2> SUFFICES ASSUME NEW t \in SUBSET D, t # {}, NEW r \in W[t \ {Max(t)}]
               PROVE  step(r, Max(t)) \in W[t]
    OBVIOUS
  <2> DEFINE k == Max(t)
  <2> DEFINE u == t \ {k}
  <2>1. k \in t /\ k \in D /\ IsFiniteSet(t) /\ t \in SUBSET Taken(s)
    BY <1>01, <1>7, MaxIs, FS_Subset
  <2>2. P(r, u)
    <3>1. u \in SUBSET D OBVIOUS
    <3> HIDE DEF P, R, u, k
    <3> QED BY <3>1 DEF u, k
  <2> HIDE DEF k
  <2>3. k \in Taken(r) /\ At(r, k) = At(s, k)
    BY <1>7, <2>1, <2>2
  <2>4. /\ Sound(Without(r, k)) /\ Taken(Without(r, k)) = Taken(r) \ {k}
        /\ \A o \in Taken(r) \ {k} : At(Without(r, k), o) = At(r, o)
        /\ \A id : Held(Without(r, k), id) = Held(r, id) - Q(At(r, k), id)
    BY <2>2, <2>3, WithoutIs
  <2>5. ASSUME NEW id PROVE Held(Without(r, k), id) = Held(s, id) - SumOver(QAt(s, id), t)
    <3> DEFINE f == QAt(s, id)
    <3>1. (\A x \in t : f[x] \in Int) /\ f[k] = Q(At(s, k), id) /\ f[k] \in Nat
      BY <1>9, <2>1
    <3> HIDE DEF f
    <3>2. SumOver(f, t) = f[k] + SumOver(f, t \ {k})
      BY <2>1, <3>1, SumRemove
    <3>3. IsFiniteSet(t \ {k}) /\ \A x \in t \ {k} : f[x] \in Int
      BY <2>1, <3>1, FS_RemoveElement
    <3>4. SumOver(f, t \ {k}) \in Int
      BY <3>3, SumRemove
    <3>5. Held(r, id) = Held(s, id) - SumOver(f, t \ {k}) /\ Held(s, id) \in Nat
      BY <1>10, <2>2 DEF f
    <3> QED BY <2>3, <2>4, <3>1, <3>2, <3>4, <3>5 DEF f
  <2>6. P(Without(r, k), t)
    <3>1. Taken(Without(r, k)) = Taken(s) \ t
      BY <2>1, <2>2, <2>4
    <3>2. \A o \in Taken(Without(r, k)) : At(Without(r, k), o) = At(s, o)
      BY <2>2, <2>4
    <3> QED BY <2>4, <2>5, <3>1, <3>2
  <2>7. Without(r, k) \in R
    BY <2>4 DEF Sound
  <2> HIDE DEF P, R
  <2> QED BY <2>6, <2>7 DEF k
<1>04. \A t \in SUBSET D : g[t] \in W[t]
  <2> DEFINE F == [k \in D |-> [r \in R |-> step(r, k)]]
  <2>1. \A t \in SUBSET D : t # {} => Max(t) \in t /\ Max(t) \in D
    BY <1>01, MaxIs, FS_Subset
  <2>2. \A t \in SUBSET D : \A r \in W[t] : r \in R
    BY DEF W
  <2> HIDE DEF W, R, step, base
  <2>3. \A t \in SUBSET D : t # {} => \A r \in W[t \ {Max(t)}] : F[Max(t)][r] = step(r, Max(t))
    <3> SUFFICES ASSUME NEW t \in SUBSET D, t # {}, NEW r \in W[t \ {Max(t)}]
                 PROVE  F[Max(t)][r] = step(r, Max(t))
      OBVIOUS
    <3>1. t \ {Max(t)} \in SUBSET D OBVIOUS
    <3>2. r \in R /\ Max(t) \in D
      BY <2>1, <2>2, <3>1
    <3> QED BY <3>2
  <2>12. PICK h : IsUp(h, D, W, base, F)
    <3> HIDE DEF F
    <3>1. \A t \in SUBSET D : t # {} => \A r \in W[t \ {Max(t)}] : F[Max(t)][r] \in W[t]
      BY <1>03, <2>3
    <3>2. D \in SUBSET Int /\ IsFiniteSet(D) /\ base \in W[{}]
      BY <1>01, <1>02
    <3> QED BY <3>1, <3>2, FoldUp
  <2>4. /\ h = [t \in SUBSET D |-> IF t = {} THEN base ELSE F[Max(t)][h[t \ {Max(t)}]]]
        /\ \A t \in SUBSET D : h[t] \in W[t]
    <3> HIDE DEF F
    <3> QED BY <2>12 DEF IsUp
  <2>5. \A t \in SUBSET D : t # {} => F[Max(t)][h[t \ {Max(t)}]] = step(h[t \ {Max(t)}], Max(t))
    <3> HIDE DEF F
    <3> SUFFICES ASSUME NEW t \in SUBSET D, t # {}
                 PROVE  F[Max(t)][h[t \ {Max(t)}]] = step(h[t \ {Max(t)}], Max(t))
      OBVIOUS
    <3>1. t \ {Max(t)} \in SUBSET D OBVIOUS
    <3>2. h[t \ {Max(t)}] \in W[t \ {Max(t)}]
      BY <2>4, <3>1
    <3> QED BY <2>3, <3>2
  <2>6. Rec(h)
    <3> HIDE DEF F
    <3> QED BY <2>4, <2>5
  <2>7. Rec(g)
    <3> HIDE DEF Rec
    <3> QED BY <2>6
  <2>8. g[{}] = base /\ \A t \in SUBSET D : t # {} => g[t] = step(g[t \ {Max(t)}], Max(t))
    <3> HIDE DEF g
    <3> QED BY <2>7
  <2> HIDE DEF g
  <2>9. \A t \in SUBSET D : t # {} /\ g[t \ {Max(t)}] \in W[t \ {Max(t)}] => g[t] \in W[t]
    BY <1>03, <2>8
  <2> QED BY <1>01, <1>02, <2>8, <2>9, Climb
<1>5. P(g[D], D)
  <2>1. D \in SUBSET D OBVIOUS
  <2> HIDE DEF g, P, R
  <2> QED BY <2>1, <1>04
<1>6. ASSUME NEW id
      PROVE  SumOver(QAt(s, id), D) =
               Total({<<e.pos, e.it.q>> : e \in {x \in Entries(s, id) : x.it.until = d}})
  <2> DEFINE T == {e.pos : e \in {x \in Entries(s, id) : x.it.until = d}}
  <2> DEFINE f == QAt(s, id)
  <2>1. T \in SUBSET D
    BY DEF D, Overdue, Entries
  <2>2. \A e \in Entries(s, id) : e.pos \in Taken(s) /\ f[e.pos] = e.it.q
    BY RangeIs DEF Entries, QAt, Q
  <2>3. \A p \in D \ T : f[p] = 0
    <3> SUFFICES ASSUME NEW p \in D, p \notin T PROVE f[p] = 0 OBVIOUS
    <3>1. PICK e \in Range(s) : e.it.until = d /\ e.pos = p
      BY DEF D, Overdue
    <3>2. e.it.id # id
      BY <3>1 DEF Entries
    <3>3. p \in Taken(s) /\ At(s, p) = e.it
      BY <3>1, RangeIs
    <3> QED BY <3>2, <3>3 DEF QAt, Q
  <2>4. \A p \in D : f[p] \in Int
    BY <1>7, <1>9
  <2>5. SumOver(f, D) = SumOver(f, T)
    <3> HIDE DEF f, T
    <3> QED BY <1>01, <2>1, <2>3, <2>4, SumSubset
  <2>6. {<<e.pos, e.it.q>> : e \in {x \in Entries(s, id) : x.it.until = d}} = {<<p, f[p]>> : p \in T}
    <3> HIDE DEF f
    <3> QED BY <2>2
  <2> QED BY <2>5, <2>6 DEF SumOver
<1> HIDE DEF g
<1> QED BY <1>1, <1>5, <1>6 DEF D
-----------------------------------------------------------------------------
(* Lists of items, as the storage room keeps them, and the map.             *)

\* What a place of the ground or of the storage may hold.
Stuff == Item \cup {None}

\* How many of id a place of a list holds; null counts for nothing.
Units(it, id) == IF it = None THEN 0 ELSE Q(it, id)
\* How much of an item the storage's list holds.
InList(list, id) == SumOver([n \in DOMAIN list |-> Units(list[n], id)], DOMAIN list)
\* How much of an item lies on the map.
OnMap(g, id) == SumOver([d \in Drops |-> Units(g[d], id)], Drops)

\* The units of an item, and of nothing.
LEMMA UnitsIs ==
    /\ \A it \in Stuff : \A id : Units(it, id) \in Nat
    /\ \A it \in Item : \A id : Units(it, id) = Q(it, id) /\ it # None
    /\ \A id : Units(None, id) = 0
BY NoneAssumption DEF Units, Q, Item, Stuff

\* Each place of a list counts, and none for less than nothing.
LEMMA ListIs ==
    ASSUME NEW list \in Seq(Stuff), NEW id
    PROVE  /\ DOMAIN list = 1..Len(list) /\ IsFiniteSet(DOMAIN list) /\ Len(list) \in Nat
           /\ \A n \in DOMAIN list : list[n] \in Stuff /\ Units(list[n], id) \in Nat
           /\ InList(list, id) \in Nat
<1>1. DOMAIN list = 1..Len(list) /\ Len(list) \in Nat
  BY LenProperties
<1>2. IsFiniteSet(DOMAIN list)
  BY <1>1, FS_Interval
<1>3. \A n \in DOMAIN list : list[n] \in Stuff /\ Units(list[n], id) \in Nat
  BY UnitsIs
<1> DEFINE f == [n \in DOMAIN list |-> Units(list[n], id)]
<1>4. \A n \in DOMAIN list : f[n] \in Nat
  BY <1>3
<1> HIDE DEF f
<1>5. SumOver(f, DOMAIN list) \in Nat
  BY <1>2, <1>4, SumNat
<1> QED BY <1>1, <1>2, <1>3, <1>5 DEF InList, f

\* An empty list holds nothing.
LEMMA NothingInList ==
    ASSUME NEW id
    PROVE  InList(<<>>, id) = 0
<1> DEFINE f == [n \in DOMAIN <<>> |-> Units(<<>>[n], id)]
<1>1. DOMAIN <<>> = {} OBVIOUS
<1> HIDE DEF f
<1>2. SumOver(f, {}) = 0
  BY FS_EmptySet, SumRemove
<1> QED BY <1>1, <1>2 DEF InList, f

\* What is appended to a list is added to what it holds.
LEMMA AppendToList ==
    ASSUME NEW list \in Seq(Stuff), NEW it \in Stuff, NEW id
    PROVE  InList(Append(list, it), id) = InList(list, id) + Units(it, id)
<1> DEFINE r == Append(list, it)
<1> DEFINE n == Len(list) + 1
<1> DEFINE f == [k \in DOMAIN list |-> Units(list[k], id)]
<1> DEFINE h == [k \in DOMAIN r |-> Units(r[k], id)]
<1>1. Len(list) \in Nat /\ DOMAIN list = 1..Len(list) /\ IsFiniteSet(DOMAIN list)
  BY ListIs
<1>2. r \in Seq(Stuff) /\ DOMAIN r = DOMAIN list \cup {n} /\ n \notin DOMAIN list
  BY <1>1, AppendProperties, LenProperties
<1>3. (\A k \in DOMAIN list : r[k] = list[k]) /\ r[n] = it
  BY <1>1, AppendProperties
<1>4. \A k \in DOMAIN r : h[k] \in Int
  <2>1. \A k \in DOMAIN r : Units(r[k], id) \in Nat
    <3> HIDE DEF r
    <3> QED BY <1>2, ListIs
  <2> HIDE DEF r
  <2> QED BY <2>1
<1>5. (\A k \in DOMAIN list : h[k] = f[k]) /\ h[n] = Units(it, id)
  BY <1>2, <1>3
<1> HIDE DEF f, h, n, r
<1>6. SumOver(h, DOMAIN list \cup {n}) = SumOver(h, DOMAIN list) + h[n]
  BY <1>1, <1>2, <1>4, SumAdd
<1>7. SumOver(h, DOMAIN list) = SumOver(f, DOMAIN list)
  BY <1>5, SumSame
<1> QED BY <1>2, <1>5, <1>6, <1>7 DEF InList, f, h, r

\* What is removed from a list is subtracted from what it holds.
LEMMA RemoveFromList ==
    ASSUME NEW list \in Seq(Stuff), NEW n \in DOMAIN list, NEW id
    PROVE  InList(RemoveAt(list, n), id) = InList(list, id) - Units(list[n], id)
<1> DEFINE r == RemoveAt(list, n)
<1> DEFINE b == [k \in DOMAIN r |-> IF k < n THEN k ELSE k + 1]
<1> DEFINE f == [k \in DOMAIN list |-> Units(list[k], id)]
<1> DEFINE h == [k \in DOMAIN r |-> Units(r[k], id)]
<1>1. Len(list) \in Nat /\ DOMAIN list = 1..Len(list) /\ IsFiniteSet(DOMAIN list) /\ n \in 1..Len(list)
  BY ListIs
<1>2. /\ r \in Seq(Stuff) /\ Len(r) = Len(list) - 1
      /\ \A k \in 1..(Len(list) - 1) : r[k] = list[IF k < n THEN k ELSE k + 1]
  BY <1>1, RemoveAtIs
<1>3. DOMAIN r = 1..(Len(list) - 1) /\ IsFiniteSet(DOMAIN r)
  BY <1>2, ListIs
<1>4. \A k \in DOMAIN r : h[k] \in Int
  <2>1. \A k \in DOMAIN r : Units(r[k], id) \in Nat
    <3> HIDE DEF r
    <3> QED BY <1>2, ListIs
  <2> HIDE DEF r
  <2> QED BY <2>1
<1>5. \A k \in DOMAIN list : f[k] \in Int
  <2>1. \A k \in DOMAIN list : Units(list[k], id) \in Nat
    BY ListIs
  <2> QED BY <2>1
<1>6. \A k \in DOMAIN r : b[k] \in DOMAIN list \ {n} /\ f[b[k]] = h[k]
  BY <1>1, <1>2, <1>3
<1>7. \A j, k \in DOMAIN r : b[j] = b[k] => j = k
  BY <1>1, <1>3
<1>8. {b[k] : k \in DOMAIN r} = DOMAIN list \ {n}
  <2>1. ASSUME NEW o \in DOMAIN list \ {n} PROVE \E k \in DOMAIN r : b[k] = o
    <3>1. CASE o < n
      <4>1. o \in DOMAIN r /\ b[o] = o
        BY <1>1, <1>3, <3>1
      <4> QED BY <4>1
    <3>2. CASE o > n
      <4>1. o - 1 \in DOMAIN r /\ b[o - 1] = o
        BY <1>1, <1>3, <3>2
      <4> QED BY <4>1
    <3> QED BY <1>1, <2>1, <3>1, <3>2
  <2>2. {b[k] : k \in DOMAIN r} \subseteq DOMAIN list \ {n}
    BY <1>6
  <2>3. DOMAIN list \ {n} \subseteq {b[k] : k \in DOMAIN r}
    <3> HIDE DEF b, r
    <3> QED BY <2>1
  <2> HIDE DEF b, r
  <2> QED BY <2>2, <2>3
<1>12. \A k \in DOMAIN r : f[b[k]] = h[k]
  BY <1>6
<1> HIDE DEF f, h, b, r
<1>9. SumOver(f, {b[k] : k \in DOMAIN r}) = SumOver(h, DOMAIN r)
  <2>1. IsFiniteSet(DOMAIN r)
    BY <1>3
  <2> QED BY <2>1, <1>4, <1>7, <1>12, SumRename
<1>10. SumOver(f, DOMAIN list) = f[n] + SumOver(f, DOMAIN list \ {n})
  BY <1>1, <1>5, SumRemove
<1>11. SumOver(h, DOMAIN r) \in Int /\ f[n] \in Int
  BY <1>3, <1>4, <1>5, SumRemove
<1>13. InList(r, id) = SumOver(h, DOMAIN r) /\ InList(list, id) = SumOver(f, DOMAIN list)
  BY DEF InList, f, h
<1>14. f[n] = Units(list[n], id)
  BY DEF f
<1>15. InList(r, id) = InList(list, id) - Units(list[n], id)
  <2>1. SumOver(f, DOMAIN list \ {n}) = SumOver(h, DOMAIN r)
    BY <1>8, <1>9, Zenon
  <2> QED BY <1>10, <1>11, <1>13, <1>14, <2>1
<1> QED BY <1>15 DEF r

\* There always is an item whose turn is last.
LEMMA LastIs ==
    ASSUME NEW items \in Seq(Item), NEW t \in SUBSET DOMAIN items, t # {}
    PROVE  /\ LastById(items, t) \in t
           /\ \A n \in t : items[n].id <= items[LastById(items, t)].id
<1> DEFINE Before(n, m) == items[n].id < items[m].id \/ (items[n].id = items[m].id /\ n <= m)
<1> DEFINE J == {s \in SUBSET t : s = {} \/ \E m \in s : \A n \in s : Before(n, m)}
<1>1. \A n \in t : items[n].id \in Nat /\ n \in Nat
  <2>1. \A n \in t : n \in 1..Len(items) /\ Len(items) \in Nat
    BY LenProperties
  <2>2. \A n \in t : items[n] \in Item
    BY ElementOfSeq, <2>1
  <2>3. \A it \in Item : it.id \in Nat
    BY DEF Item
  <2> QED BY <2>1, <2>2, <2>3
<1>2. \A m, n, o \in t : Before(m, n) /\ Before(n, o) => Before(m, o)
  BY <1>1
<1>3. \A m, n \in t : Before(m, n) \/ Before(n, m)
  BY <1>1
<1>4. IsFiniteSet(t)
  <2>1. DOMAIN items = 1..Len(items) /\ Len(items) \in Nat
    BY LenProperties
  <2>2. IsFiniteSet(DOMAIN items)
    BY <2>1, FS_Interval
  <2> QED BY <2>2, FS_Subset
<1>5. LastById(items, t) = CHOOSE m \in t : \A n \in t : Before(n, m)
  BY DEF LastById
<1> HIDE DEF Before
<1>6. \A s \in SUBSET t : s # {} => \E x \in s : s \ {x} \in J => s \in J
  <2> SUFFICES ASSUME NEW s \in SUBSET t, s # {} PROVE \E x \in s : s \ {x} \in J => s \in J
    OBVIOUS
  <2>1. PICK x \in s : TRUE OBVIOUS
  <2>2. ASSUME s \ {x} \in J PROVE s \in J
    <3>1. CASE s \ {x} = {}
      <4>1. \A n \in s : n = x
        BY <3>1
      <4>2. \A n \in s : Before(n, x)
        BY <1>3, <4>1
      <4> QED BY <4>2
    <3>2. CASE s \ {x} # {}
      <4>1. PICK m \in s \ {x} : \A n \in s \ {x} : Before(n, m)
        BY <2>2, <3>2
      <4>2. CASE Before(x, m)
        <5>1. \A n \in s : Before(n, m)
          BY <4>1, <4>2
        <5> QED BY <5>1
      <4>3. CASE Before(m, x)
        <5>1. \A n \in s : Before(n, x)
          BY <1>2, <1>3, <4>1, <4>3
        <5> QED BY <5>1
      <4> QED BY <1>3, <4>2, <4>3
    <3> QED BY <3>1, <3>2
  <2> QED BY <2>2
<1>7. t \in J
  <2>1. {} \in J OBVIOUS
  <2> HIDE DEF J
  <2> QED BY <1>4, <1>6, <2>1, Growing
<1>8. LastById(items, t) \in t /\ \A n \in t : Before(n, LastById(items, t))
  BY <1>5, <1>7
<1> QED BY <1>1, <1>8 DEF Before

\* What a list of items holds, summed over the list itself.
LEMMA SumOfItems ==
    ASSUME NEW items \in Seq(Item), NEW id
    PROVE  /\ items \in Seq(Stuff)
           /\ InList(items, id) = SumOver([n \in DOMAIN items |-> Q(items[n], id)], DOMAIN items)
<1> DEFINE f == [n \in DOMAIN items |-> Units(items[n], id)]
<1> DEFINE h == [n \in DOMAIN items |-> Q(items[n], id)]
<1>1. \A n \in DOMAIN items : items[n] \in Item
  BY LenProperties, ElementOfSeq
<1>2. \A n \in DOMAIN items : f[n] = h[n]
  BY <1>1, UnitsIs
<1>3. SumOver(f, DOMAIN items) = SumOver(h, DOMAIN items)
  <2> HIDE DEF f, h
  <2> QED BY <1>2, SumSame
<1> QED BY <1>3 DEF Stuff, InList

\* A fold that takes the item whose turn is last, with every value for t in W[t].
IsByLast(h, items, D, W, base, F) ==
    /\ h = [t \in SUBSET D |-> IF t = {} THEN base
                               ELSE F[LastById(items, t)][h[t \ {LastById(items, t)}]]]
    /\ \A t \in SUBSET D : h[t] \in W[t]

\* The fold that goes through the places of a list in the order of LastById exists,
\* and each of its values is where the steps keep it.
LEMMA FoldByLast ==
    ASSUME NEW items \in Seq(Item), NEW D, D = DOMAIN items, NEW W, NEW base \in W[{}], NEW F,
           \A t \in SUBSET D : t # {} => \A r \in W[t \ {LastById(items, t)}] :
                                             F[LastById(items, t)][r] \in W[t]
    PROVE  \E h : IsByLast(h, items, D, W, base, F)
<1> DEFINE pick == [t \in SUBSET D |-> LastById(items, t)]
<1>0. IsFiniteSet(D)
  <2>1. DOMAIN items = 1..Len(items) /\ Len(items) \in Nat
    BY LenProperties
  <2> QED BY <2>1, FS_Interval
<1>1. \A t \in SUBSET D : t # {} => pick[t] \in t /\ pick[t] = LastById(items, t)
  BY LastIs
<1>2. \A t \in SUBSET D : t # {} =>
               pick[t] \in t /\ \A r \in W[t \ {pick[t]}] : F[pick[t]][r] \in W[t]
  BY <1>1
<1>3. PICK h : IsFold(h, D, pick, base, F) /\ \A t \in SUBSET D : h[t] \in W[t]
  <2> HIDE DEF pick
  <2> QED BY <1>0, <1>2, FoldExists
<1>4. h = [t \in SUBSET D |-> IF t = {} THEN base ELSE F[pick[t]][h[t \ {pick[t]}]]]
  BY <1>3 DEF IsFold
<1>5. h = [t \in SUBSET D |-> IF t = {} THEN base
                              ELSE F[LastById(items, t)][h[t \ {LastById(items, t)}]]]
  <2> HIDE DEF pick
  <2> QED BY <1>1, <1>4
<1> QED BY <1>3, <1>5 DEF IsByLast

\* A list by id has the same items, ordered: as many places, and as many of each item.
LEMMA ByIdIs ==
    ASSUME NEW items \in Seq(Item)
    PROVE  LET r == ById(items)
           IN  /\ r \in Seq(Item) /\ Len(r) = Len(items)
               /\ \A k \in DOMAIN r : \E n \in DOMAIN items : r[k] = items[n]
               /\ \A id : InList(r, id) = InList(items, id)
               /\ \A k, n \in DOMAIN r : k < n => r[k].id <= r[n].id
<1> DEFINE D == DOMAIN items
<1> DEFINE base == <<>>
<1> DEFINE step(r, k) == Append(r, items[k])
<1> DEFINE Rec(f) == f = [t \in SUBSET D |-> IF t = {} THEN base
                             ELSE step(f[t \ {LastById(items, t)}], LastById(items, t))]
<1> DEFINE g == CHOOSE f : Rec(f)
<1>1. ById(items) = g[D]
  BY DEF ById, MapThenFoldSet
<1> DEFINE R == Seq(Item)
<1> DEFINE u(id) == [n \in D |-> Units(items[n], id)]
<1> DEFINE P(r, t) ==
             /\ Len(r) = Cardinality(t)
             /\ \A k \in DOMAIN r : \E n \in t : r[k] = items[n]
             /\ \A id : InList(r, id) = SumOver(u(id), t)
             /\ \A k, n \in DOMAIN r : k < n => r[k].id <= r[n].id
<1> DEFINE W == [t \in SUBSET D |-> {r \in R : P(r, t)}]
<1>7. D = 1..Len(items) /\ Len(items) \in Nat /\ \A n \in D : items[n] \in Item
  BY LenProperties, ElementOfSeq
<1>01. IsFiniteSet(D) /\ Cardinality(D) = Len(items)
  <2>1. PICK n \in Nat : n = Len(items)
    BY <1>7
  <2>2. IsFiniteSet(1..n) /\ Cardinality(1..n) = n
    BY FS_Interval
  <2> HIDE DEF D
  <2> QED BY <1>7, <2>1, <2>2
<1>8. \A id : \A n \in D : u(id)[n] = Units(items[n], id) /\ u(id)[n] \in Int
  <2> SUFFICES ASSUME NEW id, NEW n \in D
               PROVE  u(id)[n] = Units(items[n], id) /\ u(id)[n] \in Int
    OBVIOUS
  <2>1. Units(items[n], id) \in Int
    <3>1. items[n] \in Stuff
      BY <1>7 DEF Stuff
    <3> QED BY <3>1, UnitsIs
  <2> QED BY <2>1
<1>9. \A t \in SUBSET D : t # {} => /\ LastById(items, t) \in t
                                   /\ \A n \in t : items[n].id <= items[LastById(items, t)].id
  BY LastIs
<1>10. D = DOMAIN items OBVIOUS
<1> HIDE DEF D, u
<1>02. base \in W[{}]
  <2>1. \A id : SumOver(u(id), {}) = 0 /\ InList(<<>>, id) = 0
    BY FS_EmptySet, SumRemove, NothingInList
  <2>2. Len(<<>>) = 0 /\ Cardinality({}) = 0 /\ <<>> \in R /\ DOMAIN <<>> = {}
    BY FS_EmptySet
  <2>3. P(base, {}) /\ base \in R
    BY <2>1, <2>2
  <2> HIDE DEF P, R, base
  <2> QED BY <2>3
<1>03. \A t \in SUBSET D : t # {} => \A r \in W[t \ {LastById(items, t)}] : step(r, LastById(items, t)) \in W[t]
  <2> SUFFICES ASSUME NEW t \in SUBSET D, t # {}, NEW r \in W[t \ {LastById(items, t)}]
               PROVE  step(r, LastById(items, t)) \in W[t]
    OBVIOUS
  <2> DEFINE k == LastById(items, t)
  <2> DEFINE v == t \ {k}
  <2>1. k \in t /\ k \in D /\ IsFiniteSet(t)
    BY <1>01, <1>9, FS_Subset
  <2>2. r \in R /\ P(r, v)
    <3>1. v \in SUBSET D OBVIOUS
    <3> HIDE DEF P, R, v, k
    <3> QED BY <3>1 DEF v, k
  <2>10. \A n \in t : items[n].id <= items[k].id
    BY <1>9
  <2> HIDE DEF k
  <2> DEFINE it == items[k]
  <2> DEFINE a == Append(r, it)
  <2>3. it \in Item /\ it \in Stuff /\ r \in Seq(Item) /\ r \in Seq(Stuff)
    BY <1>7, <2>1, <2>2 DEF Stuff
  <2>4. a \in R /\ Len(a) = Len(r) + 1 /\ Len(r) \in Nat
    BY <2>3, AppendProperties, LenProperties
  <2>5. Cardinality(t) = Cardinality(v) + 1
    <3>1. Cardinality(t \ {k}) = Cardinality(t) - 1 /\ Cardinality(t) \in Nat
      BY <2>1, FS_RemoveElement, FS_CardinalityType
    <3> QED BY <3>1
  <2>6. Len(a) = Cardinality(t)
    BY <2>2, <2>4, <2>5
  <2>7. \A j \in DOMAIN a : \E n \in t : a[j] = items[n]
    <3> SUFFICES ASSUME NEW j \in DOMAIN a PROVE \E n \in t : a[j] = items[n]
      OBVIOUS
    <3>1. DOMAIN a = 1..(Len(r) + 1) /\ DOMAIN r = 1..Len(r) /\ Len(r) \in Nat
      BY <2>3, <2>4, LenProperties
    <3>2. CASE j \in 1..Len(r)
      <4>1. a[j] = r[j]
        BY <2>3, <3>2, AppendProperties
      <4> QED BY <2>2, <3>1, <3>2, <4>1
    <3>3. CASE j = Len(r) + 1
      <4>1. a[j] = it
        BY <2>3, <3>3, AppendProperties
      <4> QED BY <2>1, <4>1
    <3> QED BY <3>1, <3>2, <3>3
  <2>8. \A id : InList(a, id) = SumOver(u(id), t)
    <3> TAKE id
    <3> DEFINE f == u(id)
    <3>1. (\A n \in t : f[n] \in Int) /\ f[k] = Units(it, id)
      BY <1>8, <2>1
    <3>2. InList(a, id) = InList(r, id) + Units(it, id) /\ InList(r, id) \in Nat
      BY <2>3, AppendToList, ListIs
    <3>3. InList(r, id) = SumOver(f, t \ {k})
      BY <2>2
    <3> HIDE DEF f, it, a
    <3>4. SumOver(f, t) = f[k] + SumOver(f, t \ {k})
      BY <2>1, <3>1, SumRemove
    <3>5. f[k] \in Int
      BY <2>1, <3>1
    <3> QED BY <3>1, <3>2, <3>3, <3>4, <3>5 DEF f
  <2>11. \A m, n \in DOMAIN a : m < n => a[m].id <= a[n].id
    <3> SUFFICES ASSUME NEW m \in DOMAIN a, NEW n \in DOMAIN a, m < n PROVE a[m].id <= a[n].id
      OBVIOUS
    <3>1. DOMAIN a = 1..(Len(r) + 1) /\ DOMAIN r = 1..Len(r) /\ Len(r) \in Nat
      BY <2>3, <2>4, LenProperties
    <3>2. m \in DOMAIN r /\ a[m] = r[m]
      BY <2>3, <3>1, AppendProperties
    <3>3. CASE n \in DOMAIN r
      <4>1. a[n] = r[n]
        BY <2>3, <3>1, <3>3, AppendProperties
      <4> QED BY <2>2, <3>2, <3>3, <4>1
    <3>4. CASE n = Len(r) + 1
      <4>1. a[n] = it
        BY <2>3, <3>4, AppendProperties
      <4>2. \E o \in t : r[m] = items[o]
        BY <2>2, <3>2
      <4> QED BY <2>10, <3>2, <4>1, <4>2
    <3> QED BY <3>1, <3>3, <3>4
  <2>9. a \in R /\ P(a, t)
    BY <2>4, <2>6, <2>7, <2>8, <2>11
  <2> HIDE DEF P, R
  <2> QED BY <2>9 DEF k
<1>04. \A t \in SUBSET D : g[t] \in W[t]
  <2> DEFINE F == [k \in D |-> [r \in R |-> step(r, k)]]
  <2>1. \A t \in SUBSET D : t # {} => LastById(items, t) \in t /\ LastById(items, t) \in D
    BY <1>9
  <2>2. \A t \in SUBSET D : \A r \in W[t] : r \in R
    BY DEF W
  <2> HIDE DEF W, R, step, base
  <2>3. \A t \in SUBSET D : t # {} => \A r \in W[t \ {LastById(items, t)}] : F[LastById(items, t)][r] = step(r, LastById(items, t))
    <3> SUFFICES ASSUME NEW t \in SUBSET D, t # {}, NEW r \in W[t \ {LastById(items, t)}]
                 PROVE  F[LastById(items, t)][r] = step(r, LastById(items, t))
      OBVIOUS
    <3>1. t \ {LastById(items, t)} \in SUBSET D OBVIOUS
    <3>2. r \in R /\ LastById(items, t) \in D
      BY <2>1, <2>2, <3>1
    <3> QED BY <3>2
  <2>12. PICK h : IsByLast(h, items, D, W, base, F)
    <3> HIDE DEF F
    <3>1. \A t \in SUBSET D : t # {} => \A r \in W[t \ {LastById(items, t)}] : F[LastById(items, t)][r] \in W[t]
      BY <1>03, <2>3
    <3>2. D = DOMAIN items /\ base \in W[{}]
      BY <1>10, <1>02
    <3> QED BY <3>1, <3>2, FoldByLast
  <2>4. /\ h = [t \in SUBSET D |-> IF t = {} THEN base ELSE F[LastById(items, t)][h[t \ {LastById(items, t)}]]]
        /\ \A t \in SUBSET D : h[t] \in W[t]
    <3> HIDE DEF F
    <3> QED BY <2>12 DEF IsByLast
  <2>5. \A t \in SUBSET D : t # {} => F[LastById(items, t)][h[t \ {LastById(items, t)}]] = step(h[t \ {LastById(items, t)}], LastById(items, t))
    <3> HIDE DEF F
    <3> SUFFICES ASSUME NEW t \in SUBSET D, t # {}
                 PROVE  F[LastById(items, t)][h[t \ {LastById(items, t)}]] = step(h[t \ {LastById(items, t)}], LastById(items, t))
      OBVIOUS
    <3>1. t \ {LastById(items, t)} \in SUBSET D OBVIOUS
    <3>2. h[t \ {LastById(items, t)}] \in W[t \ {LastById(items, t)}]
      BY <2>4, <3>1
    <3> QED BY <2>3, <3>2
  <2>6. Rec(h)
    <3> HIDE DEF F
    <3> QED BY <2>4, <2>5
  <2>7. Rec(g)
    <3> HIDE DEF Rec
    <3> QED BY <2>6
  <2>8. g[{}] = base /\ \A t \in SUBSET D : t # {} => g[t] = step(g[t \ {LastById(items, t)}], LastById(items, t))
    <3> HIDE DEF g
    <3> QED BY <2>7
  <2> HIDE DEF g
  <2> DEFINE J == {t \in SUBSET D : g[t] \in W[t]}
  <2>9. \A t \in SUBSET D : t # {} => \E x \in t : t \ {x} \in J => t \in J
    <3> SUFFICES ASSUME NEW t \in SUBSET D, t # {}, t \ {LastById(items, t)} \in J PROVE LastById(items, t) \in t /\ t \in J
      <4>1. \A t \in SUBSET D : t # {} => LastById(items, t) \in t
        BY <2>1
      <4> HIDE DEF J
      <4> QED BY <4>1
    <3>1. g[t] = step(g[t \ {LastById(items, t)}], LastById(items, t)) /\ g[t \ {LastById(items, t)}] \in W[t \ {LastById(items, t)}]
      BY <2>8
    <3>2. g[t] \in W[t]
      BY <1>03, <3>1
    <3> QED BY <2>1, <3>2
  <2>10. {} \in J
    BY <1>02, <2>8
  <2>11. SUBSET D \subseteq J
    <3> HIDE DEF J
    <3> QED BY <1>01, <2>9, <2>10, Growing
  <2> QED BY <2>11
<1>5. P(g[D], D) /\ g[D] \in R
  <2>1. D \in SUBSET D OBVIOUS
  <2> HIDE DEF g, P, R
  <2> QED BY <2>1, <1>04
<1> HIDE DEF g
<1>6. \A id : SumOver(u(id), D) = InList(items, id)
  BY DEF InList, u, D
<1> QED BY <1>01, <1>1, <1>5, <1>6 DEF D

\* What some of the places of a list hold.
PartOf(list, t, id) == SumOver([n \in DOMAIN list |-> Units(list[n], id)], t)

\* The sum over some places of a list is at most that over all, and any of them may
\* be taken out.
LEMMA PartIs ==
    ASSUME NEW list \in Seq(Stuff), NEW t \in SUBSET DOMAIN list, NEW id
    PROVE  /\ PartOf(list, t, id) \in Nat /\ PartOf(list, t, id) <= InList(list, id)
           /\ \A k \in t : /\ PartOf(list, t, id) = PartOf(list, t \ {k}, id) + Units(list[k], id)
                           /\ PartOf(list, t \ {k}, id) \in Nat /\ Units(list[k], id) \in Nat
<1> DEFINE f == [n \in DOMAIN list |-> Units(list[n], id)]
<1> DEFINE D == DOMAIN list
<1>1. IsFiniteSet(D)
  BY ListIs
<1>2. \A n \in D : f[n] = Units(list[n], id) /\ f[n] \in Nat
  BY UnitsIs, ListIs
<1> HIDE DEF f, D
<1>3. \A v \in SUBSET D : IsFiniteSet(v) /\ SumOver(f, v) \in Nat
  <2> SUFFICES ASSUME NEW v \in SUBSET D PROVE IsFiniteSet(v) /\ SumOver(f, v) \in Nat
    OBVIOUS
  <2>1. IsFiniteSet(v) /\ \A n \in v : f[n] \in Nat
    BY <1>1, <1>2, FS_Subset
  <2> QED BY <2>1, SumNat
<1>4. t \in SUBSET D
  BY DEF D
<1>5. SumOver(f, t) <= SumOver(f, D)
  <2>1. (\A n \in D : f[n] \in Int) /\ (\A n \in D \ t : f[n] >= 0)
    BY <1>2
  <2> QED BY <1>1, <1>4, <2>1, SumSubset
<1>6. ASSUME NEW k \in t
      PROVE  SumOver(f, t) = f[k] + SumOver(f, t \ {k}) /\ SumOver(f, t \ {k}) \in Nat /\ f[k] \in Nat
  <2>1. IsFiniteSet(t) /\ \A n \in t : f[n] \in Int
    BY <1>2, <1>3, <1>4
  <2>2. t \ {k} \in SUBSET D
    BY <1>4
  <2> QED BY <1>2, <1>3, <1>4, <2>1, <2>2, SumRemove
<1>7. PartOf(list, t, id) = SumOver(f, t) /\ InList(list, id) = SumOver(f, D)
  BY DEF PartOf, InList, f, D
<1>8. \A k \in t : f[k] = Units(list[k], id)
  BY <1>2, <1>4
<1>9. SumOver(f, t) \in Nat
  BY <1>3, <1>4
<1>10. ASSUME NEW k \in t
       PROVE  /\ PartOf(list, t, id) = PartOf(list, t \ {k}, id) + Units(list[k], id)
              /\ PartOf(list, t \ {k}, id) \in Nat /\ Units(list[k], id) \in Nat
  <2>1. PICK v : v = t \ {k} OBVIOUS
  <2>2. SumOver(f, t) = f[k] + SumOver(f, v) /\ SumOver(f, v) \in Nat /\ f[k] \in Nat
    BY <1>6, <2>1
  <2>3. PartOf(list, v, id) = SumOver(f, v)
    BY DEF PartOf, f
  <2> QED BY <1>7, <1>8, <2>1, <2>2, <2>3
<1> QED BY <1>5, <1>7, <1>9, <1>10

\* The copies gathering works with.
Copies(s) == [n \in DOMAIN s |-> s[n].it]

\* The copies hold what the inventory holds.
LEMMA CopiesAre ==
    ASSUME NEW s, Sound(s)
    PROVE  /\ Copies(s) \in Seq(Item) /\ Len(Copies(s)) = Len(s)
           /\ \A n \in DOMAIN Copies(s) : Fits(Copies(s)[n]) /\ (NoEmpty(s) => Copies(s)[n].q # 0)
           /\ \A id : InList(Copies(s), id) = Held(s, id)
<1> DEFINE c == Copies(s)
<1>1. /\ Len(s) \in Nat /\ DOMAIN s = 1..Len(s)
      /\ \A n \in DOMAIN s : s[n].it \in Item /\ s[n].pos \in Taken(s) /\ At(s, s[n].pos) = s[n].it
  BY SoundIs
<1>2. c = [n \in 1..Len(s) |-> s[n].it]
  BY <1>1 DEF Copies
<1>3. c \in Seq(Item) /\ Len(c) = Len(s) /\ DOMAIN c = DOMAIN s
  BY <1>1, <1>2, IsASeq
<1>4. \A n \in DOMAIN s : c[n] = s[n].it
  BY DEF Copies
<1>5. \A n \in DOMAIN s : Fits(s[n].it) /\ (NoEmpty(s) => s[n].it.q # 0)
  BY <1>1 DEF Sound, NoEmpty
<1> HIDE DEF c
<1>6. ASSUME NEW id PROVE InList(c, id) = Held(s, id)
  <2>1. InList(c, id) = SumOver([n \in DOMAIN c |-> Q(c[n], id)], DOMAIN c)
    BY <1>3, SumOfItems
  <2>2. [n \in DOMAIN c |-> Q(c[n], id)] = [n \in DOMAIN s |-> Q(s[n].it, id)]
    BY <1>3, <1>4
  <2> QED BY <1>3, <2>1, <2>2, HeldByEntry
<1> QED BY <1>3, <1>4, <1>5, <1>6 DEF c

\* Gathering takes all copies out and puts them back by id.
AllTaken(s, list) ==
    LET TakeCopy(r, it) == RemoveById(r, it.id, it.q, FALSE).inv
    IN  FoldLeft(TakeCopy, s, list)
\* ... and its second pass: each copy is added again.
AllPutBack(s, list) ==
    LET PutBack(r, it) == AddFromDrop(r, it).inv
    IN  FoldLeft(PutBack, s, list)

\* Gathering is these two passes, the second in the order of ids.
LEMMA GatheredParts ==
    ASSUME NEW s
    PROVE  Gathered(s) = AllPutBack(AllTaken(s, Copies(s)), ById(Copies(s)))
BY DEF Gathered, AllPutBack, AllTaken, Copies

\* Taking out what a list says, where there is as much of each item.
LEMMA AllTakenIs ==
    ASSUME NEW s, Sound(s), NEW list \in Seq(Item), \A id : InList(list, id) <= Held(s, id)
    PROVE  LET r == AllTaken(s, list)
           IN  /\ Sound(r)
               /\ \A id : Held(r, id) = Held(s, id) - InList(list, id)
               /\ NoEmpty(s) => NoEmpty(r)
<1> DEFINE D == DOMAIN list
<1> DEFINE base == s
<1> DEFINE step(r, k) == RemoveById(r, list[k].id, list[k].q, FALSE).inv
<1> DEFINE Rec(f) == f = [t \in SUBSET D |-> IF t = {} THEN base ELSE step(f[t \ {Max(t)}], Max(t))]
<1> DEFINE g == CHOOSE f : Rec(f)
<1>1. AllTaken(s, list) = g[D]
  BY DEF AllTaken, FoldLeft, MapThenFoldSet
<1> DEFINE R == Seq(Entry)
<1> DEFINE P(r, t) ==
             /\ Sound(r) /\ (NoEmpty(s) => NoEmpty(r))
             /\ \A id : Held(r, id) = Held(s, id) - PartOf(list, t, id)
<1> DEFINE W == [t \in SUBSET D |-> {r \in R : P(r, t)}]
<1>7. D = 1..Len(list) /\ Len(list) \in Nat /\ list \in Seq(Stuff) /\ \A n \in D : list[n] \in Item
  BY LenProperties, ElementOfSeq, SumOfItems
<1>01. D \in SUBSET Int /\ IsFiniteSet(D)
  <2>1. IsFiniteSet(D)
    BY <1>7, ListIs
  <2> QED BY <1>7, <2>1
<1>10. \A id : Held(s, id) \in Nat
  BY HeldIs
<1>11. D = DOMAIN list OBVIOUS
<1> HIDE DEF D
<1>02. base \in W[{}]
  <2>1. \A id : PartOf(list, {}, id) = 0
    BY FS_EmptySet, SumRemove DEF PartOf
  <2>2. s \in R /\ P(s, {})
    BY <1>10, <2>1 DEF Sound
  <2> HIDE DEF P, R
  <2> QED BY <2>2
<1>03. \A t \in SUBSET D : t # {} => \A r \in W[t \ {Max(t)}] : step(r, Max(t)) \in W[t]
  <2> SUFFICES ASSUME NEW t \in SUBSET D, t # {}, NEW r \in W[t \ {Max(t)}]
               PROVE  step(r, Max(t)) \in W[t]
    OBVIOUS
  <2> DEFINE k == Max(t)
  <2> DEFINE u == t \ {k}
  <2>1. k \in t /\ k \in D /\ IsFiniteSet(t)
    BY <1>01, MaxIs, FS_Subset
  <2>2. P(r, u)
    <3>1. u \in SUBSET D OBVIOUS
    <3> HIDE DEF P, R, u, k
    <3> QED BY <3>1 DEF u, k
  <2> HIDE DEF k
  <2> DEFINE it == list[k]
  <2>3. it \in Item /\ it.id \in Ids /\ it.q \in Nat
    BY <1>7, <2>1 DEF Item
  <2>31. PICK v : v = t \ {k} OBVIOUS
  <2>4. \A id : /\ PartOf(list, t, id) = PartOf(list, v, id) + Units(it, id)
                /\ PartOf(list, t, id) <= InList(list, id)
                /\ PartOf(list, v, id) \in Nat /\ PartOf(list, t, id) \in Nat
                /\ InList(list, id) \in Nat /\ InList(list, id) <= Held(s, id) /\ Held(s, id) \in Nat
    BY <2>31, <1>7, <1>10, <1>11, <2>1, PartIs, ListIs
  <2>5. \A id : Units(it, id) = IF it.id = id THEN it.q ELSE 0
    BY <2>3, UnitsIs DEF Q
  <2> HIDE DEF it
  <2>6. Sound(r) /\ (NoEmpty(s) => NoEmpty(r)) /\ \A id : Held(r, id) = Held(s, id) - PartOf(list, v, id)
    BY <2>2, <2>31
  <2> HIDE DEF P, step, W, R, u
  <2>7. it.q <= Held(r, it.id)
    <3>1. PICK i \in Ids : i = it.id
      BY <2>3
    <3>2. Units(it, i) = it.q
      BY <2>5, <3>1
    <3>3. it.q <= Held(r, i)
      BY <2>3, <2>4, <2>6, <3>2
    <3> QED BY <3>1, <3>3
  <2>8. PICK a : a = RemoveById(r, it.id, it.q, FALSE) OBVIOUS
  <2>9. /\ Sound(a.inv) /\ \A id : id # it.id => Held(a.inv, id) = Held(r, id)
        /\ Held(a.inv, it.id) = Held(r, it.id) - it.q
        /\ NoEmpty(r) => NoEmpty(a.inv)
    <3>1. PICK i \in Ids, q \in Nat : i = it.id /\ q = it.q
      BY <2>3
    <3>2. q <= Held(r, i)
      BY <2>7, <3>1
    <3>3. PICK no \in BOOLEAN : no = FALSE OBVIOUS
    <3>4. PICK b : b = RemoveById(r, i, q, no) OBVIOUS
    <3>5. /\ Sound(b.inv) /\ \A id : id # i => Held(b.inv, id) = Held(r, id)
          /\ Held(b.inv, i) = Held(r, i) - q
          /\ ~no /\ NoEmpty(r) => NoEmpty(b.inv)
      BY <2>6, <3>2, <3>4, RemoveByIdIs
    <3>6. a = b
      BY <2>8, <3>1, <3>3, <3>4
    <3> QED BY <3>1, <3>3, <3>5, <3>6
  <2>10. \A id : Held(a.inv, id) = Held(s, id) - PartOf(list, t, id)
    <3> TAKE id
    <3>1. CASE id = it.id
      BY <2>3, <2>4, <2>5, <2>6, <2>9, <3>1
    <3>2. CASE id # it.id
      BY <2>3, <2>4, <2>5, <2>6, <2>9, <3>2
    <3> QED BY <3>1, <3>2
  <2>11. P(a.inv, t) /\ a.inv \in R
    BY <2>6, <2>9, <2>10 DEF Sound, P, R
  <2>12. step(r, k) = a.inv
    BY <2>8 DEF it, step
  <2> QED BY <2>11, <2>12 DEF k, W
<1>04. \A t \in SUBSET D : g[t] \in W[t]
  <2> DEFINE F == [k \in D |-> [r \in R |-> step(r, k)]]
  <2>1. \A t \in SUBSET D : t # {} => Max(t) \in t /\ Max(t) \in D
    BY <1>01, MaxIs, FS_Subset
  <2>2. \A t \in SUBSET D : \A r \in W[t] : r \in R
    BY DEF W
  <2> HIDE DEF W, R, step, base
  <2>3. \A t \in SUBSET D : t # {} => \A r \in W[t \ {Max(t)}] : F[Max(t)][r] = step(r, Max(t))
    <3> SUFFICES ASSUME NEW t \in SUBSET D, t # {}, NEW r \in W[t \ {Max(t)}]
                 PROVE  F[Max(t)][r] = step(r, Max(t))
      OBVIOUS
    <3>1. t \ {Max(t)} \in SUBSET D OBVIOUS
    <3>2. r \in R /\ Max(t) \in D
      BY <2>1, <2>2, <3>1
    <3> QED BY <3>2
  <2>12. PICK h : IsUp(h, D, W, base, F)
    <3> HIDE DEF F
    <3>1. \A t \in SUBSET D : t # {} => \A r \in W[t \ {Max(t)}] : F[Max(t)][r] \in W[t]
      BY <1>03, <2>3
    <3>2. D \in SUBSET Int /\ IsFiniteSet(D) /\ base \in W[{}]
      BY <1>01, <1>02
    <3> QED BY <3>1, <3>2, FoldUp
  <2>4. /\ h = [t \in SUBSET D |-> IF t = {} THEN base ELSE F[Max(t)][h[t \ {Max(t)}]]]
        /\ \A t \in SUBSET D : h[t] \in W[t]
    <3> HIDE DEF F
    <3> QED BY <2>12 DEF IsUp
  <2>5. \A t \in SUBSET D : t # {} => F[Max(t)][h[t \ {Max(t)}]] = step(h[t \ {Max(t)}], Max(t))
    <3> HIDE DEF F
    <3> SUFFICES ASSUME NEW t \in SUBSET D, t # {}
                 PROVE  F[Max(t)][h[t \ {Max(t)}]] = step(h[t \ {Max(t)}], Max(t))
      OBVIOUS
    <3>1. t \ {Max(t)} \in SUBSET D OBVIOUS
    <3>2. h[t \ {Max(t)}] \in W[t \ {Max(t)}]
      BY <2>4, <3>1
    <3> QED BY <2>3, <3>2
  <2>6. Rec(h)
    <3> HIDE DEF F
    <3> QED BY <2>4, <2>5
  <2>7. Rec(g)
    <3> HIDE DEF Rec
    <3> QED BY <2>6
  <2>8. g[{}] = base /\ \A t \in SUBSET D : t # {} => g[t] = step(g[t \ {Max(t)}], Max(t))
    <3> HIDE DEF g
    <3> QED BY <2>7
  <2> HIDE DEF g
  <2>9. \A t \in SUBSET D : t # {} /\ g[t \ {Max(t)}] \in W[t \ {Max(t)}] => g[t] \in W[t]
    BY <1>03, <2>8
  <2> QED BY <1>01, <1>02, <2>8, <2>9, Climb
<1>5. P(g[D], D)
  <2>1. D \in SUBSET D OBVIOUS
  <2> HIDE DEF g, P, R
  <2> QED BY <2>1, <1>04
<1>6. \A id : PartOf(list, D, id) = InList(list, id)
  BY DEF PartOf, InList, D
<1> HIDE DEF g
<1> QED BY <1>1, <1>5, <1>6

\* An inventory that holds nothing, empty sets of stars included, has no entry.
LEMMA NothingLeft ==
    ASSUME NEW s, Sound(s), NoEmpty(s), \A id : Held(s, id) = 0
    PROVE  Len(s) = 0
<1>1. ASSUME NEW p \in Taken(s) PROVE FALSE
  <2>1. At(s, p) \in Item /\ At(s, p).q # 0
    BY SoundIs DEF NoEmpty
  <2>2. Q(At(s, p), At(s, p).id) = At(s, p).q
    BY DEF Q
  <2>3. Q(At(s, p), At(s, p).id) <= 0 /\ Q(At(s, p), At(s, p).id) \in Nat
    BY HeldIs
  <2> QED BY <2>1, <2>2, <2>3
<1>2. Taken(s) = {} /\ Cardinality(Taken(s)) = Len(s)
  BY <1>1, SoundIs
<1> QED BY <1>2, FS_EmptySet

\* With a free slot a stack that is no second one of its kind finds room.
LEMMA RoomForOne ==
    ASSUME NEW s, Sound(s), NEW it, Loose(it), Fits(it), it.q # 0,
           ~HasTheOne(s, it.id), Len(s) < slotLimit
    PROVE  AddFromDrop(s, it).ok
<1>0. it \in Item /\ it.q \in Nat /\ it.id \in Ids
  BY DEF Loose, Item
<1>1. CASE Rech(it)
  <2>1. AddFromDrop(s, it) = AddRechargeable(s, it)
    BY <1>1 DEF AddFromDrop
  <2>2. ~Full(s)
    BY SoundIs DEF Full
  <2> QED BY <1>0, <1>1, <2>1, <2>2, AddRechargeableIs DEF Loose
<1>2. CASE ~Rech(it)
  <2> DEFINE D == MergeSlots(s, it)
  <2> DEFINE a == Added(Stack(s, it, D))
  <2>1. AddFromDrop(s, it) = a
    BY <1>2 DEF AddFromDrop, MergeSlots
  <2>2. D \in SUBSET Taken(s) /\ \A p \in D : At(s, p).id = it.id
    BY SlotsAre DEF Mergeable
  <2> HIDE DEF D
  <2>3. /\ SumOver(RoomAt(s, it), D) \in Nat
        /\ a.ok <=> it.q <= SumOver(RoomAt(s, it), D) + SlotMax[it.id] * (slotLimit - Len(s))
    BY <1>0, <1>2, <2>2, AddedIs
  <2>4. SlotMax[it.id] <= SlotMax[it.id] * (slotLimit - Len(s)) /\ SlotMax[it.id] \in Nat
    <3>1. PICK m \in Nat, n \in Nat : m = SlotMax[it.id] /\ n = slotLimit - Len(s) /\ n >= 1
      BY <1>0, SoundIs
    <3>2. m <= m * n
      <4>1. m * n = m + m * (n - 1) /\ m * (n - 1) >= 0
        BY <3>1
      <4> QED BY <4>1
    <3> QED BY <3>1, <3>2
  <2>5. it.q <= SlotMax[it.id]
    BY <1>2 DEF Fits
  <2>6. SlotMax[it.id] * (slotLimit - Len(s)) \in Int
    <3>1. PICK m \in Nat, n \in Nat : m = SlotMax[it.id] /\ n = slotLimit - Len(s) /\ n >= 1
      BY <1>0, SoundIs
    <3>2. m * n \in Int
      BY <3>1
    <3> QED BY <3>1, <3>2
  <2> HIDE DEF a
  <2> QED BY <1>0, <2>1, <2>3, <2>4, <2>5, <2>6
<1> QED BY <1>1, <1>2

\* Putting back a list into an inventory that holds nothing: never more than
\* the list holds, and as much, in neat order, unless there are empty sets of stars
\* in the way.
LEMMA AllPutBackIs ==
    ASSUME NEW s, Sound(s), \A id : Held(s, id) = 0,
           NEW list \in Seq(Item), \A n \in DOMAIN list : Fits(list[n]),
           \A id \in OneOfAKind : InList(list, id) <= 1,
           NEW whole \in BOOLEAN,
           whole => /\ Len(s) = 0 /\ Len(list) <= slotLimit /\ \A n \in DOMAIN list : list[n].q # 0
                    /\ \A k, n \in DOMAIN list : k < n => list[k].id <= list[n].id
    PROVE  LET r == AllPutBack(s, list)
           IN  /\ Sound(r)
               /\ \A id : Held(r, id) <= InList(list, id)
               /\ whole => Neat(r) /\ \A id : Held(r, id) = InList(list, id)
<1> DEFINE D == DOMAIN list
<1> DEFINE base == s
<1> DEFINE step(r, k) == AddFromDrop(r, list[k]).inv
<1> DEFINE Rec(f) == f = [t \in SUBSET D |-> IF t = {} THEN base ELSE step(f[t \ {Max(t)}], Max(t))]
<1> DEFINE g == CHOOSE f : Rec(f)
<1>1. AllPutBack(s, list) = g[D]
  BY DEF AllPutBack, FoldLeft, MapThenFoldSet
<1> DEFINE R == Seq(Entry)
<1> DEFINE P(r, t) ==
             /\ Sound(r) /\ \A id : Held(r, id) <= PartOf(list, t, id)
             /\ whole => /\ Len(r) <= Cardinality(t)
                         /\ \A id : Held(r, id) = PartOf(list, t, id)
                         /\ Neat(r) /\ \A p \in Taken(r) : \E j \in t : At(r, p).id <= list[j].id
<1> DEFINE W == [t \in SUBSET D |-> {r \in R : P(r, t)}]
<1>7. /\ D = 1..Len(list) /\ Len(list) \in Nat /\ list \in Seq(Stuff)
      /\ \A n \in D : list[n] \in Item /\ Fits(list[n]) /\ (whole => list[n].q # 0)
  BY LenProperties, ElementOfSeq, SumOfItems
<1>01. D \in SUBSET Int /\ IsFiniteSet(D)
  <2>1. IsFiniteSet(D)
    BY <1>7, ListIs
  <2> QED BY <1>7, <2>1
<1>8. Cardinality(D) = Len(list)
  <2>1. PICK n \in Nat : n = Len(list)
    BY <1>7
  <2>2. Cardinality(1..n) = n
    BY FS_Interval
  <2> HIDE DEF D
  <2> QED BY <1>7, <2>1, <2>2
<1>11. D = DOMAIN list OBVIOUS
<1> HIDE DEF D
<1>02. base \in W[{}]
  <2>1. \A id : PartOf(list, {}, id) = 0
    BY FS_EmptySet, SumRemove DEF PartOf
  <2>2. Cardinality({}) = 0
    BY FS_EmptySet
  <2>4. Len(s) = 0 => Taken(s) = {}
    BY SoundIs, FS_EmptySet
  <2>5. whole => Neat(s) /\ Taken(s) = {}
    BY <2>4 DEF Neat
  <2>3. s \in R /\ P(s, {})
    BY <2>1, <2>2, <2>5 DEF Sound
  <2> HIDE DEF P, R
  <2> QED BY <2>3
<1>03. \A t \in SUBSET D : t # {} => \A r \in W[t \ {Max(t)}] : step(r, Max(t)) \in W[t]
  <2> SUFFICES ASSUME NEW t \in SUBSET D, t # {}, NEW r \in W[t \ {Max(t)}]
               PROVE  step(r, Max(t)) \in W[t]
    OBVIOUS
  <2> DEFINE k == Max(t)
  <2> DEFINE u == t \ {k}
  <2>1. k \in t /\ k \in D /\ IsFiniteSet(t)
    BY <1>01, MaxIs, FS_Subset
  <2>2. P(r, u)
    <3>1. u \in SUBSET D OBVIOUS
    <3> HIDE DEF P, R, u, k
    <3> QED BY <3>1 DEF u, k
  <2>20. \A j \in t : j <= k
    <3>1. t \in SUBSET Int
      BY <1>01
    <3> QED BY <2>1, <3>1, MaxIs
  <2> HIDE DEF k
  <2>3. PICK it \in Item : it = list[k]
    BY <1>7, <2>1
  <2>4. PICK v : v = t \ {k} OBVIOUS
  <2>5. Fits(it) /\ (whole => it.q # 0) /\ it.id \in Ids /\ it.q \in Nat
    BY <1>7, <2>1, <2>3 DEF Item
  <2>6. \A id : /\ PartOf(list, t, id) = PartOf(list, v, id) + Units(it, id)
                /\ PartOf(list, t, id) <= InList(list, id)
                /\ PartOf(list, v, id) \in Nat /\ PartOf(list, t, id) \in Nat
                /\ InList(list, id) \in Nat
    BY <1>7, <1>11, <2>1, <2>3, <2>4, PartIs, ListIs
  <2>7. \A id : Units(it, id) = IF it.id = id THEN it.q ELSE 0
    BY UnitsIs DEF Q
  <2>8. /\ Sound(r) /\ \A id : Held(r, id) <= PartOf(list, v, id)
        /\ whole => Len(r) <= Cardinality(v) /\ \A id : Held(r, id) = PartOf(list, v, id)
    BY <2>2, <2>4
  <2>21. whole => Neat(r) /\ \A p \in Taken(r) : \E j \in v : At(r, p).id <= list[j].id
    BY <2>2, <2>4
  <2>9. Cardinality(t) = Cardinality(v) + 1 /\ Cardinality(v) \in Nat /\ Cardinality(t) <= Len(list)
    <3>1. Cardinality(t \ {k}) = Cardinality(t) - 1 /\ Cardinality(t) \in Nat /\ IsFiniteSet(t \ {k})
      BY <2>1, FS_RemoveElement, FS_CardinalityType
    <3>2. Cardinality(t \ {k}) \in Nat
      BY <3>1, FS_CardinalityType
    <3>3. Cardinality(t) <= Cardinality(D)
      BY <1>01, FS_Subset
    <3> QED BY <1>8, <2>4, <3>1, <3>2, <3>3
  <2> HIDE DEF P, step, W, R, u
  <2>10. \A id : Held(r, id) \in Nat
    BY <2>8, HeldIs
  <2>11. it.id \in OneOfAKind => it.q <= 1 /\ PartOf(list, v, it.id) + it.q <= 1
    <3>1. PICK i \in Ids : i = it.id
      BY <2>5
    <3>2. Units(it, i) = it.q
      BY <2>7, <3>1
    <3>3. i \in OneOfAKind => InList(list, i) <= 1 OBVIOUS
    <3>4. i \in OneOfAKind => it.q <= 1 /\ PartOf(list, v, i) + it.q <= 1
      BY <2>5, <2>6, <3>2, <3>3
    <3> QED BY <3>1, <3>4
  <2>12. Loose(it)
    BY <2>5, <2>11 DEF Loose, Fits
  <2>13. PICK a : a = AddFromDrop(r, it) OBVIOUS
  <2>14. Adds(a, r, it)
    BY <2>8, <2>12, <2>13, AddFromDropIs
  <2>15. /\ Sound(a.inv) /\ (\A id : id # it.id => Held(a.inv, id) = Held(r, id))
         /\ a.left \in 0..it.q /\ Held(a.inv, it.id) = Held(r, it.id) + (it.q - a.left)
         /\ a.ok => a.left = 0
         /\ Len(a.inv) <= Len(r) + 1
    BY <2>5, <2>14 DEF Adds, Fits
  <2>16. ASSUME whole PROVE a.left = 0 /\ Len(a.inv) <= Cardinality(t)
    <3>1. ~HasTheOne(r, it.id)
      <4>1. ASSUME it.id \in OneOfAKind, Held(r, it.id) = 1 PROVE FALSE
        <5>1. PartOf(list, v, it.id) = 1 /\ it.q # 0
          BY <2>5, <2>8, <2>16, <4>1
        <5> QED BY <2>5, <2>11, <4>1, <5>1
      <4> QED BY <4>1 DEF HasTheOne
    <3>2. Len(r) < slotLimit
      BY <1>7, <2>8, <2>9, <2>16, SoundIs
    <3>3. a.ok
      BY <2>5, <2>8, <2>12, <2>13, <2>16, <3>1, <3>2, RoomForOne
    <3>4. Len(r) \in Nat /\ Len(a.inv) \in Nat
      BY <2>8, <2>15, SoundIs
    <3> QED BY <2>8, <2>9, <2>15, <2>16, <3>3, <3>4
  <2>22. ASSUME whole PROVE Neat(a.inv) /\ \A p \in Taken(a.inv) : At(a.inv, p).id <= list[k].id
    <3>1. \A j \in v : list[j].id <= list[k].id
      <4> TAKE j \in v
      <4>1. j \in D /\ j \in Int /\ k \in Int /\ j < k
        BY <1>01, <2>1, <2>4, <2>20
      <4> QED BY <1>11, <2>1, <2>22, <4>1
    <3>2. ASSUME NEW p \in Taken(r) PROVE At(r, p).id <= it.id
      <4>1. PICK j \in v : At(r, p).id <= list[j].id
        BY <2>21, <2>22
      <4>2. At(r, p).id \in Nat /\ list[j].id \in Nat /\ it.id \in Nat
        <5>1. \A x \in Item : x.id \in Nat
          BY DEF Item
        <5>2. At(r, p) \in Item /\ list[j] \in Item
          BY <1>7, <2>4, <2>8, SoundIs
        <5> QED BY <5>1, <5>2
      <4> QED BY <2>3, <3>1, <4>1, <4>2
    <3>3. Neat(a.inv) /\ Below(a.inv, it)
      <4>1. Below(r, it)
        BY <3>2 DEF Below
      <4> QED BY <2>5, <2>8, <2>13, <2>21, <2>22, <4>1, AddFromDropNeat
    <3> QED BY <2>3, <3>3 DEF Below
  <2>17. \A id : /\ Held(a.inv, id) <= PartOf(list, t, id)
                 /\ whole => Held(a.inv, id) = PartOf(list, t, id)
    <3> TAKE id
    <3>1. /\ PartOf(list, t, id) = PartOf(list, v, id) + Units(it, id)
          /\ PartOf(list, v, id) \in Nat
          /\ Held(r, id) \in Nat /\ Held(r, id) <= PartOf(list, v, id)
          /\ whole => Held(r, id) = PartOf(list, v, id)
      BY <2>6, <2>8, <2>10
    <3>2. CASE id = it.id
      <4>1. Units(it, id) = it.q /\ Held(a.inv, id) = Held(r, id) + (it.q - a.left)
        BY <2>7, <2>15, <3>2
      <4>2. a.left \in 0..it.q /\ (whole => a.left = 0) /\ it.q \in Nat
        BY <2>5, <2>15, <2>16
      <4> QED BY <3>1, <4>1, <4>2
    <3>3. CASE id # it.id
      <4>1. Units(it, id) = 0 /\ Held(a.inv, id) = Held(r, id)
        BY <2>7, <2>15, <3>3
      <4> QED BY <3>1, <4>1
    <3> QED BY <3>2, <3>3
  <2>18. P(a.inv, t) /\ a.inv \in R
    BY <2>1, <2>15, <2>16, <2>17, <2>22 DEF Sound, P, R
  <2>19. step(r, k) = a.inv
    BY <2>3, <2>13 DEF step
  <2> QED BY <2>18, <2>19 DEF k, W
<1>04. \A t \in SUBSET D : g[t] \in W[t]
  <2> DEFINE F == [k \in D |-> [r \in R |-> step(r, k)]]
  <2>1. \A t \in SUBSET D : t # {} => Max(t) \in t /\ Max(t) \in D
    BY <1>01, MaxIs, FS_Subset
  <2>2. \A t \in SUBSET D : \A r \in W[t] : r \in R
    BY DEF W
  <2> HIDE DEF W, R, step, base
  <2>3. \A t \in SUBSET D : t # {} => \A r \in W[t \ {Max(t)}] : F[Max(t)][r] = step(r, Max(t))
    <3> SUFFICES ASSUME NEW t \in SUBSET D, t # {}, NEW r \in W[t \ {Max(t)}]
                 PROVE  F[Max(t)][r] = step(r, Max(t))
      OBVIOUS
    <3>1. t \ {Max(t)} \in SUBSET D OBVIOUS
    <3>2. r \in R /\ Max(t) \in D
      BY <2>1, <2>2, <3>1
    <3> QED BY <3>2
  <2>12. PICK h : IsUp(h, D, W, base, F)
    <3> HIDE DEF F
    <3>1. \A t \in SUBSET D : t # {} => \A r \in W[t \ {Max(t)}] : F[Max(t)][r] \in W[t]
      BY <1>03, <2>3
    <3>2. D \in SUBSET Int /\ IsFiniteSet(D) /\ base \in W[{}]
      BY <1>01, <1>02
    <3> QED BY <3>1, <3>2, FoldUp
  <2>4. /\ h = [t \in SUBSET D |-> IF t = {} THEN base ELSE F[Max(t)][h[t \ {Max(t)}]]]
        /\ \A t \in SUBSET D : h[t] \in W[t]
    <3> HIDE DEF F
    <3> QED BY <2>12 DEF IsUp
  <2>5. \A t \in SUBSET D : t # {} => F[Max(t)][h[t \ {Max(t)}]] = step(h[t \ {Max(t)}], Max(t))
    <3> HIDE DEF F
    <3> SUFFICES ASSUME NEW t \in SUBSET D, t # {}
                 PROVE  F[Max(t)][h[t \ {Max(t)}]] = step(h[t \ {Max(t)}], Max(t))
      OBVIOUS
    <3>1. t \ {Max(t)} \in SUBSET D OBVIOUS
    <3>2. h[t \ {Max(t)}] \in W[t \ {Max(t)}]
      BY <2>4, <3>1
    <3> QED BY <2>3, <3>2
  <2>6. Rec(h)
    <3> HIDE DEF F
    <3> QED BY <2>4, <2>5
  <2>7. Rec(g)
    <3> HIDE DEF Rec
    <3> QED BY <2>6
  <2>8. g[{}] = base /\ \A t \in SUBSET D : t # {} => g[t] = step(g[t \ {Max(t)}], Max(t))
    <3> HIDE DEF g
    <3> QED BY <2>7
  <2> HIDE DEF g
  <2>9. \A t \in SUBSET D : t # {} /\ g[t \ {Max(t)}] \in W[t \ {Max(t)}] => g[t] \in W[t]
    BY <1>03, <2>8
  <2> QED BY <1>01, <1>02, <2>8, <2>9, Climb
<1>5. P(g[D], D)
  <2>1. D \in SUBSET D OBVIOUS
  <2> HIDE DEF g, P, R
  <2> QED BY <2>1, <1>04
<1>6. \A id : PartOf(list, D, id) = InList(list, id)
  BY DEF PartOf, InList, D
<1> HIDE DEF g
<1> QED BY <1>1, <1>5, <1>6

\* Gathering keeps every quantity and is neat where no set of stars is empty, and never
\* makes a second one of what there may be only one of.
LEMMA GatheredIs ==
    ASSUME NEW s, Sound(s), \A id \in OneOfAKind : Held(s, id) <= 1
    PROVE  LET r == Gathered(s)
           IN  /\ Sound(r)
               /\ NoEmpty(s) => SameHeld(r, s) /\ Neat(r)
               /\ \A id \in OneOfAKind : Held(r, id) <= 1
<1> DEFINE c == Copies(s)
<1> DEFINE w == AllTaken(s, c)
<1> DEFINE list == ById(c)
<1> DEFINE r == AllPutBack(w, list)
<1>1. /\ c \in Seq(Item) /\ Len(c) = Len(s) /\ (\A id : InList(c, id) = Held(s, id))
      /\ \A n \in DOMAIN c : Fits(c[n]) /\ (NoEmpty(s) => c[n].q # 0)
  BY CopiesAre
<1>2. Gathered(s) = r
  BY GatheredParts
<1> HIDE DEF c
<1>3. \A id : Held(s, id) \in Nat /\ InList(c, id) <= Held(s, id)
  BY <1>1, HeldIs
<1>4. Sound(w) /\ (\A id : Held(w, id) = 0) /\ (NoEmpty(s) => NoEmpty(w))
  <2>1. Sound(w) /\ (\A id : Held(w, id) = Held(s, id) - InList(c, id)) /\ (NoEmpty(s) => NoEmpty(w))
    BY <1>1, <1>3, AllTakenIs
  <2> QED BY <1>1, <1>3, <2>1
<1>5. /\ list \in Seq(Item) /\ Len(list) = Len(s) /\ \A id : InList(list, id) = Held(s, id)
      /\ \A k \in DOMAIN list : Fits(list[k]) /\ (NoEmpty(s) => list[k].q # 0)
      /\ \A k, n \in DOMAIN list : k < n => list[k].id <= list[n].id
  <2>1. /\ list \in Seq(Item) /\ Len(list) = Len(c) /\ \A id : InList(list, id) = InList(c, id)
        /\ \A k \in DOMAIN list : \E n \in DOMAIN c : list[k] = c[n]
        /\ \A k, n \in DOMAIN list : k < n => list[k].id <= list[n].id
    BY <1>1, ByIdIs
  <2> HIDE DEF list
  <2> QED BY <1>1, <2>1
<1>6. NoEmpty(s) => Len(w) = 0
  BY <1>4, NothingLeft
<1>7. Len(list) <= slotLimit
  BY <1>5, FreeIs
<1> HIDE DEF w, list, r
<1>8. \A id \in OneOfAKind : InList(list, id) <= 1
  BY <1>5
<1>9. PICK whole \in BOOLEAN : whole <=> NoEmpty(s) OBVIOUS
<1>10. /\ Sound(r) /\ \A id : Held(r, id) <= InList(list, id)
       /\ whole => Neat(r) /\ \A id : Held(r, id) = InList(list, id)
  <2>1. whole => /\ Len(w) = 0 /\ Len(list) <= slotLimit /\ \A n \in DOMAIN list : list[n].q # 0
                 /\ \A k, n \in DOMAIN list : k < n => list[k].id <= list[n].id
    BY <1>5, <1>6, <1>7, <1>9
  <2>2. \A n \in DOMAIN list : Fits(list[n])
    BY <1>5
  <2>3. PICK b : b = AllPutBack(w, list) OBVIOUS
  <2>4. /\ Sound(b) /\ \A id : Held(b, id) <= InList(list, id)
        /\ whole => Neat(b) /\ \A id : Held(b, id) = InList(list, id)
    BY <1>4, <1>5, <1>8, <2>1, <2>2, <2>3, AllPutBackIs
  <2> QED BY <2>3, <2>4 DEF r
<1>11. NoEmpty(s) => SameHeld(r, s) /\ Neat(r)
  BY <1>5, <1>9, <1>10 DEF SameHeld
<1>12. ASSUME NEW id \in OneOfAKind PROVE Held(r, id) <= 1
  <2>1. Held(r, id) \in Nat /\ Held(s, id) \in Nat /\ Held(s, id) <= 1 /\ Held(r, id) <= Held(s, id)
    BY <1>5, <1>10, HeldIs
  <2> QED BY <2>1
<1> QED BY <1>2, <1>10, <1>11, <1>12
-----------------------------------------------------------------------------
(* What there is of an item, on the three sides of the books.               *)

\* How much of an item there is in all three places.
Sums(s, g, st, id) == Held(s, id) + OnMap(g, id) + InList(st, id)

\* Where items lie, on the map and in the storage room.
OnFloor(g) == g \in [Drops -> Stuff] /\ \A d \in Drops : g[d] # None => Loose(g[d])
\* The storage holds such items too.
InRoom(st) == st \in Seq(Stuff) /\ \A n \in DOMAIN st : st[n] # None => Loose(st[n])

\* The total over the places with an item is the sum over all places.
With(S, a, id) == {<<x, a[x].q>> : x \in {y \in S : a[y] # None /\ a[y].id = id}}
\* The units of an item over the places S of a.
UnitsOver(S, a, id) == SumOver([x \in S |-> Units(a[x], id)], S)

\* The total over the places with an item is the sum over all places.
LEMMA PlacesWith ==
    ASSUME NEW S, IsFiniteSet(S), NEW a, \A x \in S : a[x] \in Stuff, NEW id
    PROVE  Total(With(S, a, id)) = UnitsOver(S, a, id) /\ UnitsOver(S, a, id) \in Nat
<1> DEFINE f == [x \in S |-> Units(a[x], id)]
<1> DEFINE T == {y \in S : a[y] # None /\ a[y].id = id}
<1>1. \A x \in S : f[x] \in Nat
  BY UnitsIs
<1>2. \A x \in T : f[x] = a[x].q
  BY DEF Units, Q
<1>3. \A x \in S \ T : f[x] = 0
  BY DEF Units, Q
<1>4. T \in SUBSET S OBVIOUS
<1> HIDE DEF f, T
<1>5. SumOver(f, S) = SumOver(f, T)
  <2>1. \A x \in S : f[x] \in Int
    BY <1>1
  <2> QED BY <1>3, <1>4, <2>1, SumSubset
<1>6. {<<x, a[x].q>> : x \in T} = {<<x, f[x]>> : x \in T}
  BY <1>2
<1>7. SumOver(f, S) \in Nat
  BY <1>1, SumNat
<1> QED BY <1>5, <1>6, <1>7 DEF SumOver, f, T, With, UnitsOver

\* The amount of an item that the ledger checks is the sum of the three places.
LEMMA AmountIs ==
    ASSUME NEW s, Sound(s), NEW g \in [Drops -> Stuff], NEW st \in Seq(Stuff), NEW id
    PROVE  /\ Amount(s, g, st, id) = Sums(s, g, st, id)
           /\ Held(s, id) \in Nat /\ OnMap(g, id) \in Nat /\ InList(st, id) \in Nat
<1> DEFINE on == {d \in Drops : g[d] # None /\ g[d].id = id}
<1> DEFINE in == {n \in Present(st) : st[n].id = id}
<1>1. Total({<<d, g[d].q>> : d \in on}) = OnMap(g, id) /\ OnMap(g, id) \in Nat
  <2>1. Total(With(Drops, g, id)) = UnitsOver(Drops, g, id) /\ UnitsOver(Drops, g, id) \in Nat
    <3>1. \A d \in Drops : g[d] \in Stuff OBVIOUS
    <3> QED BY <3>1, PlacesWith
  <2>2. With(Drops, g, id) = {<<d, g[d].q>> : d \in on}
    BY DEF With
  <2>3. UnitsOver(Drops, g, id) = OnMap(g, id)
    BY DEF UnitsOver, OnMap
  <2> QED BY <2>1, <2>2, <2>3, Zenon
<1>2. Total({<<n, st[n].q>> : n \in in}) = InList(st, id) /\ InList(st, id) \in Nat
  <2>1. IsFiniteSet(DOMAIN st) /\ \A n \in DOMAIN st : st[n] \in Stuff
    BY ListIs
  <2>2. in = {n \in DOMAIN st : st[n] # None /\ st[n].id = id}
    BY DEF Present
  <2>3. Total(With(DOMAIN st, st, id)) = UnitsOver(DOMAIN st, st, id) /\ UnitsOver(DOMAIN st, st, id) \in Nat
    BY <2>1, PlacesWith
  <2>4. With(DOMAIN st, st, id) = {<<n, st[n].q>> : n \in in}
    BY <2>2 DEF With
  <2>5. UnitsOver(DOMAIN st, st, id) = InList(st, id)
    BY DEF UnitsOver, InList
  <2> QED BY <2>3, <2>4, <2>5, Zenon
<1>3. Held(s, id) \in Nat
  BY HeldIs
<1>4. Amount(s, g, st, id) =
        Held(s, id) + Total({<<d, g[d].q>> : d \in on}) + Total({<<n, st[n].q>> : n \in in})
  BY DEF Amount
<1> HIDE DEF on, in
<1> QED BY <1>1, <1>2, <1>3, <1>4 DEF Sums

\* A change at one place of the map.
LEMMA OnMapChange ==
    ASSUME NEW g \in [Drops -> Stuff], NEW d \in Drops, NEW it \in Stuff, NEW id
    PROVE  /\ OnMap([g EXCEPT ![d] = it], id) = OnMap(g, id) - Units(g[d], id) + Units(it, id)
           /\ OnMap(g, id) \in Nat /\ Units(g[d], id) \in Nat /\ Units(it, id) \in Nat
           /\ Units(g[d], id) <= OnMap(g, id)
<1> DEFINE r == [g EXCEPT ![d] = it]
<1> DEFINE f == [x \in Drops |-> Units(g[x], id)]
<1> DEFINE h == [x \in Drops |-> Units(r[x], id)]
<1>1. r \in [Drops -> Stuff] OBVIOUS
<1>2. \A x \in Drops : f[x] \in Nat /\ h[x] \in Nat
  <2> SUFFICES ASSUME NEW x \in Drops PROVE Units(g[x], id) \in Nat /\ Units(r[x], id) \in Nat
    OBVIOUS
  <2>1. g[x] \in Stuff /\ r[x] \in Stuff
    BY <1>1
  <2> HIDE DEF r
  <2> QED BY <2>1, UnitsIs
<1>3. (\A x \in Drops : x # d => f[x] = h[x]) /\ f[d] = Units(g[d], id) /\ h[d] = Units(it, id)
  OBVIOUS
<1>4. OnMap(g, id) = SumOver(f, Drops) /\ OnMap(r, id) = SumOver(h, Drops)
  BY DEF OnMap
<1> HIDE DEF f, h, r
<1>5. SumOver(h, Drops) = SumOver(f, Drops) - f[d] + h[d]
  <2>1. \A y \in Drops : f[y] \in Int /\ h[y] \in Int
    BY <1>2
  <2>2. SumOver(f, Drops) = f[d] + SumOver(f, Drops \ {d})
    BY <2>1, SumRemove
  <2>3. SumOver(h, Drops) = h[d] + SumOver(h, Drops \ {d})
    BY <2>1, SumRemove
  <2>4. SumOver(f, Drops \ {d}) = SumOver(h, Drops \ {d})
    BY <1>3, SumSame
  <2>5. IsFiniteSet(Drops \ {d}) /\ \A y \in Drops \ {d} : f[y] \in Int
    BY <2>1, FS_RemoveElement
  <2>6. SumOver(f, Drops \ {d}) \in Int
    BY <2>5, SumRemove
  <2>7. f[d] \in Int /\ h[d] \in Int
    BY <2>1
  <2>8. PICK n : n = SumOver(f, Drops \ {d}) OBVIOUS
  <2>9. SumOver(f, Drops) = f[d] + n /\ SumOver(h, Drops) = h[d] + n /\ n \in Int
    BY <2>2, <2>3, <2>4, <2>6, <2>8
  <2> QED BY <2>7, <2>9
<1>6. SumOver(f, Drops) \in Nat /\ f[d] <= SumOver(f, Drops)
  BY <1>2, SumNat
<1> QED BY <1>2, <1>3, <1>4, <1>5, <1>6 DEF r

\* An item taken out of a list, and one appended to what is left.
LEMMA RoomIs ==
    ASSUME NEW st, InRoom(st)
    PROVE  /\ st \in Seq(Stuff)
           /\ \A n \in DOMAIN st : /\ InRoom(RemoveAt(st, n))
                                   /\ \A id : /\ InList(RemoveAt(st, n), id) = InList(st, id) - Units(st[n], id)
                                              /\ InList(st, id) \in Nat /\ Units(st[n], id) \in Nat
           /\ \A it \in Stuff : (it # None => Loose(it)) =>
                 /\ InRoom(Append(st, it))
                 /\ \A id : /\ InList(Append(st, it), id) = InList(st, id) + Units(it, id)
                            /\ InList(st, id) \in Nat /\ Units(it, id) \in Nat
<1>1. st \in Seq(Stuff)
  BY DEF InRoom
<1>2. DOMAIN st = 1..Len(st) /\ Len(st) \in Nat
  BY <1>1, LenProperties
<1>3. ASSUME NEW n \in DOMAIN st PROVE InRoom(RemoveAt(st, n))
  <2> DEFINE r == RemoveAt(st, n)
  <2>1. /\ r \in Seq(Stuff) /\ Len(r) = Len(st) - 1
        /\ \A k \in 1..(Len(st) - 1) : r[k] = st[IF k < n THEN k ELSE k + 1]
    BY <1>1, <1>2, RemoveAtIs
  <2> HIDE DEF r
  <2>2. DOMAIN r = 1..(Len(st) - 1)
    BY <2>1, LenProperties
  <2>3. \A k \in DOMAIN r : \E o \in DOMAIN st : r[k] = st[o]
    BY <1>2, <2>1, <2>2
  <2>4. InRoom(r)
    BY <2>1, <2>3 DEF InRoom
  <2> QED BY <2>4 DEF r
<1>4. ASSUME NEW n \in DOMAIN st, NEW id
      PROVE  /\ InList(RemoveAt(st, n), id) = InList(st, id) - Units(st[n], id)
             /\ InList(st, id) \in Nat /\ Units(st[n], id) \in Nat
  BY <1>1, RemoveFromList, ListIs
<1>5. ASSUME NEW it \in Stuff, it # None => Loose(it) PROVE InRoom(Append(st, it))
  <2> DEFINE r == Append(st, it)
  <2>1. r \in Seq(Stuff) /\ Len(r) = Len(st) + 1
    BY <1>1, AppendProperties, LenProperties
  <2>2. DOMAIN r = 1..(Len(st) + 1) /\ (\A k \in 1..Len(st) : r[k] = st[k]) /\ r[Len(st) + 1] = it
    BY <1>1, <1>2, <2>1, AppendProperties, LenProperties
  <2> HIDE DEF r
  <2>3. \A k \in DOMAIN r : r[k] = it \/ \E o \in DOMAIN st : r[k] = st[o]
    BY <1>2, <2>2
  <2>4. InRoom(r)
    BY <1>5, <2>1, <2>3 DEF InRoom
  <2> QED BY <2>4 DEF r
<1>6. ASSUME NEW it \in Stuff, NEW id
      PROVE  /\ InList(Append(st, it), id) = InList(st, id) + Units(it, id)
             /\ InList(st, id) \in Nat /\ Units(it, id) \in Nat
  BY <1>1, AppendToList, ListIs, UnitsIs
<1> QED BY <1>1, <1>3, <1>4, <1>5, <1>6
-----------------------------------------------------------------------------
(* The invariant, and what a step must do to keep it.                       *)

\* Where everything is: a sound inventory, sound items on the map and in storage.
Placed ==
    /\ slotLimit \in DOMAIN Setting
    /\ Sound(inv) /\ OnFloor(ground) /\ InRoom(storage)
    /\ due \in [Ids -> Nat]

\* The books are right.
Books == \A id \in Ids : Amount(inv, ground, storage, id) = due[id]
\* There is at most one of what is one of a kind.
Single == \A id \in OneOfAKind : Held(inv, id) <= 1

\* What holds until a shop takes an amount it should have refused.  Because the
\* ground and the storage room hold restricted items only one by one, no addition
\* brings in two at once.
IInv == Placed /\ Books /\ Single

\* The books under the invariant: amounts are numbers, and due is what there is.
LEMMA BooksAre ==
    ASSUME IInv
    PROVE  /\ \A id : Held(inv, id) \in Nat /\ OnMap(ground, id) \in Nat /\ InList(storage, id) \in Nat
           /\ \A id : Amount(inv, ground, storage, id) = Sums(inv, ground, storage, id)
           /\ \A id \in Ids : due[id] = Sums(inv, ground, storage, id)
<1>1. Sound(inv) /\ ground \in [Drops -> Stuff] /\ storage \in Seq(Stuff)
  BY DEF IInv, Placed, OnFloor, InRoom
<1>2. \A id : /\ Amount(inv, ground, storage, id) = Sums(inv, ground, storage, id)
              /\ Held(inv, id) \in Nat /\ OnMap(ground, id) \in Nat /\ InList(storage, id) \in Nat
  BY <1>1, AmountIs
<1>3. \A id \in Ids : Amount(inv, ground, storage, id) = due[id]
  BY DEF IInv, Books
<1> QED BY <1>2, <1>3

\* A step that says what each place holds afterwards, and books it, keeps IInv.
LEMMA Moved ==
    ASSUME IInv, slotLimit' = slotLimit, NEW s, s = inv', NEW g, g = ground', NEW st, st = storage',
           Sound(s), OneKept(s, inv), OnFloor(g), InRoom(st),
           \A id \in Ids : due'[id] = Sums(s, g, st, id),
           \E f : due' = [id \in Ids |-> f[id]]
    PROVE  IInv'
<1>1. g \in [Drops -> Stuff] /\ st \in Seq(Stuff)
  BY DEF OnFloor, InRoom
<1>2. \A id : /\ Amount(s, g, st, id) = Sums(s, g, st, id)
              /\ Held(s, id) \in Nat /\ OnMap(g, id) \in Nat /\ InList(st, id) \in Nat
  BY <1>1, AmountIs
<1>3. \A id \in Ids : due'[id] = Amount(s, g, st, id) /\ due'[id] \in Nat
  BY <1>2 DEF Sums
<1>4. due' \in [Ids -> Nat]
  BY <1>3
<1>5. Sound(inv)' /\ OnFloor(ground)' /\ InRoom(storage)' /\ (slotLimit \in DOMAIN Setting)'
  <2>1. Sound(inv)'
    BY DEF Sound, Entry
  <2>2. OnFloor(ground)' /\ InRoom(storage)'
    BY DEF OnFloor, InRoom
  <2>3. slotLimit' \in DOMAIN Setting
    BY DEF IInv, Placed
  <2> QED BY <2>1, <2>2, <2>3
<1>6. Books'
  BY <1>3 DEF Books
<1>7. Single'
  <2>1. \A id \in OneOfAKind : Held(inv, id) <= 1
    BY DEF IInv, Single
  <2>2. \A id \in OneOfAKind : Held(s, id) <= 1
    BY <2>1 DEF OneKept
  <2> QED BY <2>2 DEF Single
<1> QED BY <1>4, <1>5, <1>6, <1>7 DEF IInv, Placed

\* A step that books a change of one item, or settles with what is there.
LEMMA Booked ==
    ASSUME IInv, slotLimit' = slotLimit, NEW s, s = inv', NEW g, g = ground', NEW st, st = storage',
           Sound(s), OneKept(s, inv), OnFloor(g), InRoom(st),
           NEW lapse \in BOOLEAN, NEW id0, NEW c \in Int, Book(lapse, id0, c),
           ~lapse => \A id \in Ids : Sums(s, g, st, id) =
                        Sums(inv, ground, storage, id) + (IF id = id0 THEN c ELSE 0)
    PROVE  IInv'
<1>1. g \in [Drops -> Stuff] /\ st \in Seq(Stuff)
  BY DEF OnFloor, InRoom
<1>2. \A id : Amount(s, g, st, id) = Sums(s, g, st, id)
  BY <1>1, AmountIs
<1>3. due \in [Ids -> Nat]
  BY DEF IInv, Placed
<1>4. CASE lapse
  <2>1. due' = [i \in Ids |-> Amount(s, g, st, i)]
    BY <1>4 DEF Book
  <2>2. \A id \in Ids : due'[id] = Sums(s, g, st, id)
    BY <1>2, <2>1
  <2>3. \E f : due' = [id \in Ids |-> f[id]]
    <3>1. due' = [id \in Ids |-> [i \in Ids |-> Amount(s, g, st, i)][id]]
      BY <2>1
    <3> QED BY <3>1
  <2> QED BY <2>2, <2>3, Moved
<1>5. CASE ~lapse
  <2>1. due' = [due EXCEPT ![id0] = @ + c]
    BY <1>5 DEF Book
  <2>2. \A id \in Ids : due'[id] = due[id] + (IF id = id0 THEN c ELSE 0)
    BY <1>3, <2>1
  <2>3. \A id \in Ids : due'[id] = Sums(s, g, st, id)
    BY <1>5, <2>2, BooksAre
  <2>4. \E f : due' = [id \in Ids |-> f[id]]
    <3>1. due' = [id \in Ids |-> due'[id]]
      BY <1>3, <2>1
    <3>2. PICK f : f = due' OBVIOUS
    <3> QED BY <3>1, <3>2
  <2> QED BY <2>3, <2>4, Moved
<1> QED BY <1>4, <1>5

\* A step that leaves as many of each item as there were.
LEMMA Steady ==
    ASSUME IInv, slotLimit' = slotLimit, NEW s, s = inv', NEW g, g = ground', NEW st, st = storage',
           Sound(s), OneKept(s, inv), OnFloor(g), InRoom(st), Keep,
           \A id \in Ids : Sums(s, g, st, id) = Sums(inv, ground, storage, id)
    PROVE  IInv'
<1>1. due \in [Ids -> Nat] /\ due' = due
  BY DEF IInv, Placed, Keep
<1>2. \A id \in Ids : due'[id] = Sums(s, g, st, id)
  BY <1>1, BooksAre
<1>3. \E f : due' = [id \in Ids |-> f[id]]
  BY <1>1
<1> QED BY <1>2, <1>3, Moved

\* The first state.
LEMMA InitIInv == Init => IInv
<1> SUFFICES ASSUME Init PROVE IInv OBVIOUS
<1>1. slotLimit \in DOMAIN Setting /\ slotLimit \in Nat /\ due \in [Ids -> Nat]
  BY DEF Init
<1>2. Sound(inv)
  BY <1>1 DEF Init, Sound
<1>3. OnFloor(ground) /\ InRoom(storage)
  BY DEF Init, OnFloor, InRoom, Stuff
<1>4. \A id : Held(inv, id) = 0 /\ OnMap(ground, id) = 0 /\ InList(storage, id) = 0
  <2> TAKE id
  <2>1. Held(inv, id) = 0
    <3>1. Taken(inv) = {}
      BY DEF Init, Taken
    <3>2. SumOver(QAt(inv, id), {}) = 0
      BY FS_EmptySet, SumRemove
    <3> QED BY <1>2, <3>1, <3>2, HeldIs
  <2>2. InList(storage, id) = 0
    BY NothingInList DEF Init
  <2>3. OnMap(ground, id) = 0
    <3> DEFINE f == [d \in Drops |-> Units(ground[d], id)]
    <3>1. \A d \in Drops : f[d] = 0
      BY UnitsIs DEF Init
    <3> HIDE DEF f
    <3>2. SumOver(f, Drops) = 0
      BY <3>1, SumNat
    <3> QED BY <3>2 DEF OnMap, f
  <2> QED BY <2>1, <2>2, <2>3
<1>5. \A id \in Ids : Amount(inv, ground, storage, id) = due[id]
  <2>1. ground \in [Drops -> Stuff] /\ storage \in Seq(Stuff)
    BY <1>3 DEF OnFloor, InRoom
  <2>2. \A id : Amount(inv, ground, storage, id) = Sums(inv, ground, storage, id)
    BY <1>2, <2>1, AmountIs
  <2>3. \A id \in Ids : due[id] = 0
    BY DEF Init
  <2> QED BY <1>4, <2>2, <2>3 DEF Sums
<1> QED BY <1>1, <1>2, <1>3, <1>4, <1>5 DEF IInv, Placed, Books, Single

-----------------------------------------------------------------------------
(* Each operation keeps the invariant.                                      *)

\* The parts of the invariant that the steps use.
LEMMA HereIs ==
    ASSUME IInv
    PROVE  /\ slotLimit \in DOMAIN Setting /\ slotLimit \in Nat
           /\ Sound(inv) /\ OnFloor(ground) /\ InRoom(storage)
           /\ ground \in [Drops -> Stuff] /\ storage \in Seq(Stuff)
           /\ \A id \in OneOfAKind : Held(inv, id) <= 1
           /\ OneKept(inv, inv)
<1>1. slotLimit \in DOMAIN Setting /\ Sound(inv) /\ OnFloor(ground) /\ InRoom(storage)
  BY DEF IInv, Placed
<1>2. \A id \in OneOfAKind : Held(inv, id) <= 1
  BY DEF IInv, Single
<1> QED BY <1>1, <1>2 DEF OnFloor, InRoom, OneKept

\* A stack in the inventory could as well lie on the map.
LEMMA StackAt ==
    ASSUME IInv, NEW slot \in Taken(inv)
    PROVE  LET it == At(inv, slot)
           IN  /\ it \in Item /\ it.id \in Ids /\ it.q \in Nat /\ Fits(it) /\ Loose(it)
               /\ it.q <= Held(inv, it.id)
<1> DEFINE it == At(inv, slot)
<1>1. it \in Item /\ Fits(it)
  BY HereIs, SoundIs
<1>2. it.id \in Ids /\ it.q \in Nat
  BY <1>1 DEF Item
<1>3. it.q <= Held(inv, it.id)
  <2>1. Q(it, it.id) <= Held(inv, it.id)
    BY HereIs, HeldIs
  <2> QED BY <2>1 DEF Q
<1>4. it.id \in OneOfAKind => it.q <= 1
  <2>1. it.id \in OneOfAKind => Held(inv, it.id) <= 1
    BY HereIs
  <2>2. Held(inv, it.id) \in Nat
    BY BooksAre
  <2> HIDE DEF it
  <2> QED BY <1>2, <1>3, <2>1, <2>2
<1> HIDE DEF it
<1>5. Loose(it)
  BY <1>1, <1>4 DEF Loose, Fits
<1> QED BY <1>1, <1>2, <1>3, <1>5 DEF it

\* What lies on the map.
LEMMA FloorIs ==
    ASSUME IInv, NEW g \in Drops
    PROVE  /\ ground[g] \in Stuff
           /\ ground[g] # None => /\ Loose(ground[g]) /\ ground[g] \in Item /\ ground[g].id \in Ids
                                  /\ ground[g].q \in Nat
           /\ \A it \in Stuff : (it # None => Loose(it)) => OnFloor([ground EXCEPT ![g] = it])
<1>1. OnFloor(ground)
  BY HereIs
<1>2. ground[g] \in Stuff /\ (ground[g] # None => Loose(ground[g]))
  BY <1>1 DEF OnFloor
<1>3. ground[g] # None => ground[g] \in Item /\ ground[g].id \in Ids /\ ground[g].q \in Nat
  BY <1>2 DEF Loose, Item
<1>4. ASSUME NEW it \in Stuff, it # None => Loose(it) PROVE OnFloor([ground EXCEPT ![g] = it])
  BY <1>1, <1>4 DEF OnFloor
<1> QED BY <1>2, <1>3, <1>4

\* An item appears on the map, and is booked.
LEMMA AppearStep ==
    ASSUME IInv, slotLimit' = slotLimit, NEW g \in Drops, NEW it \in Item, Appear(g, it)
    PROVE  IInv'
<1>1. /\ ground[g] = None /\ inv' = inv /\ storage' = storage
      /\ ground' = [ground EXCEPT ![g] = it] /\ Book(FALSE, it.id, it.q)
  BY DEF Appear
<1>2. Loose(it) /\ it.q \in Nat
  BY DEF Appear, Loose, Rech, Item
<1>3. it \in Stuff /\ it # None
  BY NoneAssumption DEF Stuff
<1>4. OnFloor(ground')
  BY <1>1, <1>2, <1>3, FloorIs
<1>5. \A id : OnMap(ground', id) = OnMap(ground, id) - Units(None, id) + Units(it, id)
  BY <1>1, <1>3, HereIs, OnMapChange
<1>6. \A id : Units(None, id) = 0 /\ Units(it, id) = (IF id = it.id THEN it.q ELSE 0)
  BY UnitsIs DEF Q
<1>7. \A id \in Ids : Sums(inv, ground', storage, id) =
                        Sums(inv, ground, storage, id) + (IF id = it.id THEN it.q ELSE 0)
  BY <1>2, <1>5, <1>6, BooksAre DEF Sums
<1>8. PICK lapse \in BOOLEAN : ~lapse OBVIOUS
<1>9. Book(lapse, it.id, it.q)
  BY <1>1, <1>8 DEF Book
<1>10. Sound(inv') /\ OneKept(inv', inv) /\ InRoom(storage') /\ it.q \in Int
  BY <1>1, <1>2, HereIs
<1>11. \A id \in Ids : Sums(inv', ground', storage', id) =
                         Sums(inv, ground, storage, id) + (IF id = it.id THEN it.q ELSE 0)
  BY <1>1, <1>7
<1> QED BY <1>4, <1>8, <1>9, <1>10, <1>11, Booked

\* An item on the map vanishes, and is taken from the books.
LEMMA VanishStep ==
    ASSUME IInv, slotLimit' = slotLimit, NEW g \in Drops, Vanish(g)
    PROVE  IInv'
<1> DEFINE it == ground[g]
<1>1. /\ it # None /\ inv' = inv /\ storage' = storage
      /\ ground' = [ground EXCEPT ![g] = None] /\ Book(FALSE, it.id, -it.q)
  BY DEF Vanish
<1>2. it \in Item /\ it \in Stuff /\ it.q \in Nat
  BY <1>1, FloorIs
<1>3. None \in Stuff
  BY DEF Stuff
<1>4. OnFloor(ground')
  BY <1>1, <1>3, FloorIs
<1>5. \A id : OnMap(ground', id) = OnMap(ground, id) - Units(it, id) + Units(None, id)
  BY <1>1, <1>3, HereIs, OnMapChange
<1>6. \A id : Units(None, id) = 0 /\ Units(it, id) = (IF id = it.id THEN it.q ELSE 0)
  BY <1>2, UnitsIs DEF Q
<1> HIDE DEF it
<1>7. \A id \in Ids : Sums(inv, ground', storage, id) =
                        Sums(inv, ground, storage, id) + (IF id = it.id THEN -it.q ELSE 0)
  BY <1>2, <1>5, <1>6, BooksAre DEF Sums
<1>8. PICK lapse \in BOOLEAN : ~lapse OBVIOUS
<1>9. PICK c \in Int : c = -it.q
  BY <1>2
<1>10. Book(lapse, it.id, c)
  BY <1>1, <1>8, <1>9 DEF Book
<1>11. Sound(inv') /\ OneKept(inv', inv) /\ InRoom(storage')
  BY <1>1, HereIs
<1>12. \A id \in Ids : Sums(inv', ground', storage', id) =
                         Sums(inv, ground, storage, id) + (IF id = it.id THEN c ELSE 0)
  BY <1>1, <1>7, <1>9
<1> QED BY <1>4, <1>8, <1>10, <1>11, <1>12, Booked

\* A pick-up moves from the map what the inventory has room for.
LEMMA PickUpStep ==
    ASSUME IInv, slotLimit' = slotLimit, NEW g \in Drops, PickUp(g)
    PROVE  IInv'
<1> DEFINE it == ground[g]
<1> DEFINE a == AddFromDrop(inv, it)
<1> DEFINE new == IF a.ok THEN None ELSE [it EXCEPT !.q = a.left]
<1>1. it # None /\ inv' = a.inv /\ storage' = storage /\ ground' = [ground EXCEPT ![g] = new] /\ Keep
  BY DEF PickUp
<1>2. it \in Item /\ it \in Stuff /\ it.q \in Nat /\ it.id \in Ids /\ Loose(it)
  BY <1>1, FloorIs
<1>3. Adds(a, inv, it) /\ OneKept(a.inv, inv)
  BY <1>2, HereIs, AddFromDropIs
<1> HIDE DEF it, a
<1>4. /\ Sound(a.inv) /\ (\A id : id # it.id => Held(a.inv, id) = Held(inv, id))
      /\ a.left \in 0..it.q /\ Held(a.inv, it.id) = Held(inv, it.id) + (it.q - a.left)
      /\ a.ok => a.left = 0
  BY <1>3 DEF Adds
<1>5. new \in Stuff /\ (new # None => Loose(new))
  BY <1>2, <1>4 DEF Stuff, Loose, Item, Rech
<1>6. \A id : Units(new, id) = IF id = it.id THEN a.left ELSE 0
  <2>1. CASE a.ok
    BY <1>4, <2>1, UnitsIs
  <2>2. CASE ~a.ok
    <3>1. [it EXCEPT !.q = a.left] \in Item
      BY <1>2, <1>4 DEF Item
    <3>2. /\ [it EXCEPT !.q = a.left].q = a.left
          /\ [it EXCEPT !.q = a.left].id = it.id
      BY <1>2 DEF Item
    <3> QED BY <2>2, <3>1, <3>2, UnitsIs DEF Q
  <2> QED BY <2>1, <2>2
<1>7. \A id : Units(it, id) = (IF id = it.id THEN it.q ELSE 0)
  BY <1>2, UnitsIs DEF Q
<1> HIDE DEF new
<1>8. OnFloor(ground')
  BY <1>1, <1>5, FloorIs
<1>9. \A id : OnMap(ground', id) = OnMap(ground, id) - Units(it, id) + Units(new, id)
  BY <1>1, <1>5, HereIs, OnMapChange DEF it
<1>10. \A id \in Ids : Sums(a.inv, ground', storage, id) = Sums(inv, ground, storage, id)
  <2> TAKE id \in Ids
  <2>1. Held(inv, id) \in Nat /\ OnMap(ground, id) \in Nat /\ InList(storage, id) \in Nat
    BY BooksAre
  <2>2. CASE id = it.id
    BY <1>2, <1>4, <1>6, <1>7, <1>9, <2>1, <2>2 DEF Sums
  <2>3. CASE id # it.id
    BY <1>2, <1>4, <1>6, <1>7, <1>9, <2>1, <2>3 DEF Sums
  <2> QED BY <2>2, <2>3
<1> QED BY <1>1, <1>3, <1>4, <1>8, <1>10, HereIs, Steady

\* A drop moves a quantity from a slot to the map.
LEMMA DropStep ==
    ASSUME IInv, slotLimit' = slotLimit, NEW slot, NEW q \in Nat, NEW g \in Drops, Drop(slot, q, g)
    PROVE  IInv'
<1> DEFINE it == At(inv, slot)
<1>1. slot \in Taken(inv) /\ ground[g] = None /\ q <= it.q /\ Keep /\ storage' = storage
  BY DEF Drop, At
<1>2. it \in Item /\ it.id \in Ids /\ it.q \in Nat /\ Fits(it) /\ Loose(it)
  BY <1>1, StackAt
<1>3. PICK new \in Item, n \in Nat :
        /\ ground' = [ground EXCEPT ![g] = new] /\ new.id = it.id /\ new.q = n /\ Loose(new)
        /\ Sound(inv') /\ \A id : Held(inv', id) = Held(inv, id) - (IF id = it.id THEN n ELSE 0)
  <2>1. CASE q < it.q /\ ~Rech(it)
    <3>1. inv' = WithQuantity(inv, slot, it.q - q) /\ ground' = [ground EXCEPT ![g] = [it EXCEPT !.q = q]]
      BY <2>1 DEF Drop, At
    <3>2. it.q - q \in Nat
      BY <1>1, <1>2
    <3>3. Fits([it EXCEPT !.q = it.q - q])
      BY <1>2, <2>1, <3>2 DEF Fits, Item, Rech
    <3>4. PICK m \in Nat : m = it.q - q
      BY <3>2
    <3>5. /\ Sound(WithQuantity(inv, slot, m))
          /\ \A id : Held(WithQuantity(inv, slot, m), id) =
                       IF id = it.id THEN Held(inv, id) + m - it.q ELSE Held(inv, id)
      BY <1>1, <3>3, <3>4, HereIs, WithQuantityIs
    <3> HIDE DEF it
    <3>6. /\ [it EXCEPT !.q = q] \in Item /\ [it EXCEPT !.q = q].id = it.id
          /\ [it EXCEPT !.q = q].q = q /\ Loose([it EXCEPT !.q = q])
      BY <1>1, <1>2, <2>1 DEF Item, Loose, Rech
    <3>7. \A id : Held(inv', id) = Held(inv, id) - (IF id = it.id THEN q ELSE 0)
      BY <1>2, <3>1, <3>4, <3>5, BooksAre
    <3> QED BY <3>1, <3>4, <3>5, <3>6, <3>7
  <2>2. CASE ~(q < it.q /\ ~Rech(it))
    <3>1. inv' = Without(inv, slot) /\ ground' = [ground EXCEPT ![g] = it]
      BY <2>2 DEF Drop, At
    <3>2. /\ Sound(Without(inv, slot))
          /\ \A id : Held(Without(inv, slot), id) = Held(inv, id) - Q(it, id)
      BY <1>1, HereIs, WithoutIs
    <3> HIDE DEF it
    <3>3. \A id : Q(it, id) = IF id = it.id THEN it.q ELSE 0
      BY DEF Q
    <3>4. Sound(inv') /\ \A id : Held(inv', id) = Held(inv, id) - (IF id = it.id THEN it.q ELSE 0)
      BY <3>1, <3>2, <3>3
    <3> QED BY <1>2, <3>1, <3>4
  <2> QED BY <2>1, <2>2
<1> HIDE DEF it
<1>4. new \in Stuff /\ None \in Stuff /\ new # None
  BY NoneAssumption DEF Stuff
<1>5. OnFloor(ground')
  BY <1>3, <1>4, FloorIs
<1>6. \A id : OnMap(ground', id) = OnMap(ground, id) - Units(None, id) + Units(new, id)
  BY <1>1, <1>3, <1>4, HereIs, OnMapChange
<1>7. \A id : Units(None, id) = 0 /\ Units(new, id) = (IF id = it.id THEN n ELSE 0)
  BY <1>3, UnitsIs DEF Q
<1>8. \A id : Held(inv, id) \in Nat /\ OnMap(ground, id) \in Nat /\ InList(storage, id) \in Nat
  BY BooksAre
<1>9. \A id \in Ids : Sums(inv', ground', storage, id) = Sums(inv, ground, storage, id)
  <2> TAKE id \in Ids
  <2>1. Held(inv', id) = Held(inv, id) - (IF id = it.id THEN n ELSE 0)
    BY <1>3
  <2>2. OnMap(ground', id) = OnMap(ground, id) - 0 + (IF id = it.id THEN n ELSE 0)
    BY <1>6, <1>7
  <2>3. n \in Nat /\ Held(inv, id) \in Nat /\ OnMap(ground, id) \in Nat /\ InList(storage, id) \in Nat
    BY <1>8
  <2> QED BY <1>1, <2>1, <2>2, <2>3 DEF Sums
<1>10. OneKept(inv', inv)
  <2>1. \A id : Held(inv', id) <= Held(inv, id) /\ Held(inv', id) \in Int
    BY <1>3, <1>8
  <2> QED BY <1>8, <2>1 DEF OneKept
<1> QED BY <1>1, <1>3, <1>5, <1>9, <1>10, HereIs, Steady

\* A step of the inventory alone that books a change of one item.
LEMMA BookedInv ==
    ASSUME IInv, slotLimit' = slotLimit, ground' = ground, storage' = storage,
           NEW s, s = inv', Sound(s), OneKept(s, inv),
           NEW lapse \in BOOLEAN, NEW id0, NEW c \in Int, Book(lapse, id0, c),
           ~lapse => \A id : Held(s, id) = Held(inv, id) + (IF id = id0 THEN c ELSE 0)
    PROVE  IInv'
<1>1. OnFloor(ground') /\ InRoom(storage')
  BY HereIs
<1>2. ~lapse => \A id \in Ids : Sums(inv', ground', storage', id) =
                         Sums(inv, ground, storage, id) + (IF id = id0 THEN c ELSE 0)
  <2> SUFFICES ASSUME ~lapse, NEW id \in Ids
               PROVE  Sums(inv', ground', storage', id) =
                         Sums(inv, ground, storage, id) + (IF id = id0 THEN c ELSE 0)
    OBVIOUS
  <2>1. Held(inv', id) = Held(inv, id) + (IF id = id0 THEN c ELSE 0) OBVIOUS
  <2>2. Held(inv, id) \in Nat /\ OnMap(ground, id) \in Nat /\ InList(storage, id) \in Nat
    BY BooksAre
  <2> QED BY <2>1, <2>2 DEF Sums
<1> QED BY <1>1, <1>2, Booked

\* ... and one that keeps how much there is.
LEMMA SteadyInv ==
    ASSUME IInv, slotLimit' = slotLimit, ground' = ground, storage' = storage,
           NEW s, s = inv', Sound(s), SameHeld(s, inv), Keep
    PROVE  IInv'
<1>1. OnFloor(ground') /\ InRoom(storage') /\ OneKept(s, inv)
  BY HereIs, SameKeepsOne
<1>2. \A id \in Ids : Sums(inv', ground', storage', id) = Sums(inv, ground, storage, id)
  BY DEF Sums, SameHeld
<1> QED BY <1>1, <1>2, Steady

\* A move from slot to slot.
LEMMA ItemMoveStep ==
    ASSUME IInv, slotLimit' = slotLimit, NEW src, NEW dst \in 1..slotLimit, ItemMove(src, dst)
    PROVE  IInv'
<1> DEFINE id0 == At(inv, src).id
<1>1. /\ src \in Taken(inv) /\ inv' = MoveItem(inv, src, dst)
      /\ ground' = ground /\ storage' = storage /\ Book(src = dst, id0, 0)
  BY DEF ItemMove, At
<1>2. PICK s : s = MoveItem(inv, src, dst) OBVIOUS
<1>3. Sound(s) /\ (src # dst => SameHeld(s, inv)) /\ OneKept(s, inv)
  BY <1>1, <1>2, HereIs, MoveItemIs
<1>4. PICK lapse \in BOOLEAN : lapse <=> src = dst OBVIOUS
<1> HIDE DEF id0
<1>5. Book(lapse, id0, 0)
  BY <1>1, <1>4 DEF Book
<1>6. ~lapse => \A id : Held(s, id) = Held(inv, id) + (IF id = id0 THEN 0 ELSE 0)
  BY <1>3, <1>4, BooksAre DEF SameHeld
<1> QED BY <1>1, <1>2, <1>3, <1>5, <1>6, BookedInv

\* A sort fills the gaps.
LEMMA ItemSortStep ==
    ASSUME IInv, slotLimit' = slotLimit, ItemSort
    PROVE  IInv'
<1>1. inv' = Sorted(inv) /\ Keep /\ ground' = ground /\ storage' = storage
  BY DEF ItemSort
<1>2. PICK s : s = Sorted(inv) OBVIOUS
<1>3. Sound(s) /\ SameHeld(s, inv)
  BY <1>2, HereIs, SortedIs
<1> QED BY <1>1, <1>2, <1>3, SteadyInv

\* A gather takes everything out and adds it again.
LEMMA ItemGatherStep ==
    ASSUME IInv, slotLimit' = slotLimit, ItemGather
    PROVE  IInv'
<1> DEFINE id0 == CHOOSE id \in Ids : TRUE
<1>1. inv' = Gathered(inv) /\ ground' = ground /\ storage' = storage /\ Book(HasEmpty, id0, 0)
  BY DEF ItemGather
<1>2. PICK s : s = Gathered(inv) OBVIOUS
<1>3. Sound(s) /\ (NoEmpty(inv) => SameHeld(s, inv)) /\ \A id \in OneOfAKind : Held(s, id) <= 1
  BY <1>2, HereIs, GatheredIs
<1>4. OneKept(s, inv)
  BY <1>3 DEF OneKept
<1>5. PICK lapse \in BOOLEAN : lapse <=> HasEmpty OBVIOUS
<1>6. ~lapse => NoEmpty(inv)
  <2>1. ~HasEmpty => \A p \in Taken(inv) : inv[EntryAt(inv, p)].it.q # 0
    BY HereIs, SoundIs DEF HasEmpty
  <2> QED BY <1>5, <2>1 DEF NoEmpty, At
<1> HIDE DEF id0
<1>7. Book(lapse, id0, 0)
  BY <1>1, <1>5 DEF Book
<1>8. ~lapse => \A id : Held(s, id) = Held(inv, id) + (IF id = id0 THEN 0 ELSE 0)
  BY <1>3, <1>6, BooksAre DEF SameHeld
<1> QED BY <1>1, <1>2, <1>3, <1>4, <1>7, <1>8, BookedInv

\* A script or a shop grants items: all of them or none.
LEMMA GrantStep ==
    ASSUME IInv, slotLimit' = slotLimit, NEW id0 \in Ids, NEW n \in Nat, Grant(id0, n), ~unchecked'
    PROVE  IInv'
<1> DEFINE q == IF id0 \in Rechargeable THEN SlotMax[id0] ELSE n
<1>21. unchecked' = (unchecked \/ (id0 \in OneOfAKind /\ n > 1))
  BY Zenon DEF Grant
<1>22. ~(id0 \in OneOfAKind /\ n > 1)
  BY <1>21, Zenon
<1>23. id0 \in OneOfAKind => n <= 1
  BY <1>22
<1>1. /\ CheckSpace(inv, id0, n, NoOwner) /\ (id0 \in OneOfAKind => n <= 1)
      /\ inv' = AddId(inv, id0, q).inv /\ ground' = ground /\ storage' = storage
      /\ Book(OtherDeadline(inv, id0, NoOwner, Forever), id0, q)
  BY <1>23 DEF Grant
<1>2. q \in Nat /\ (id0 \in Rechargeable => q <= MaxCharge[id0]) /\ (id0 \notin Rechargeable => q = n)
  OBVIOUS
<1>3. id0 \in OneOfAKind => q <= 1
  BY <1>1, <1>2, OneAssumption
<1> HIDE DEF q
<1>4. PICK it \in Item : it = [id |-> id0, owner |-> NoOwner, until |-> Forever, q |-> q]
  BY <1>2 DEF Item
<1>5. PICK a : a = AddId(inv, id0, q) OBVIOUS
<1>6. /\ Adds(a, inv, it) /\ ((id0 \in OneOfAKind => q <= 1) => OneKept(a.inv, inv))
      /\ \A m \in Nat : /\ CheckSpace(inv, id0, m, NoOwner)
                        /\ ~OtherDeadline(inv, id0, NoOwner, Forever)
                        /\ id0 \notin Rechargeable => q = m
                        => a.ok
  BY <1>2, <1>4, <1>5, HereIs, AddIdIs
<1>7. PICK lapse \in BOOLEAN : lapse <=> OtherDeadline(inv, id0, NoOwner, Forever)
  OBVIOUS
<1>8. Book(lapse, id0, q)
  BY <1>1, <1>7 DEF Book
<1>9. /\ Sound(a.inv) /\ (\A id : id # id0 => Held(a.inv, id) = Held(inv, id))
      /\ Held(a.inv, id0) = Held(inv, id0) + (q - a.left) /\ (a.ok => a.left = 0)
  BY <1>4, <1>6 DEF Adds
<1>10. ~lapse => a.ok
  BY <1>1, <1>2, <1>6, <1>7
<1>11. ~lapse => \A id : Held(a.inv, id) = Held(inv, id) + (IF id = id0 THEN q ELSE 0)
  <2> SUFFICES ASSUME ~lapse, NEW id PROVE Held(a.inv, id) = Held(inv, id) + (IF id = id0 THEN q ELSE 0)
    OBVIOUS
  <2>1. a.left = 0 /\ Held(inv, id) \in Nat
    BY <1>9, <1>10, BooksAre
  <2>2. CASE id = id0
    BY <1>2, <1>9, <2>1, <2>2
  <2>3. CASE id # id0
    BY <1>9, <2>1, <2>3
  <2> QED BY <2>2, <2>3
<1>12. q \in Int /\ OneKept(a.inv, inv) /\ inv' = a.inv
  BY <1>1, <1>2, <1>3, <1>5, <1>6
<1> QED BY <1>1, <1>8, <1>9, <1>11, <1>12, BookedInv

\* Items are taken away by their id.
LEMMA TakeAwayStep ==
    ASSUME IInv, slotLimit' = slotLimit, NEW id0 \in Ids, NEW q \in Nat, NEW consume \in BOOLEAN,
           TakeAway(id0, q, consume)
    PROVE  IInv'
<1>1. /\ inv' = RemoveById(inv, id0, q, consume).inv /\ ground' = ground /\ storage' = storage
      /\ Book(Held(inv, id0) < q, id0, -q)
  BY DEF TakeAway
<1>2. PICK a : a = RemoveById(inv, id0, q, consume) OBVIOUS
<1>3. /\ Sound(a.inv) /\ \A id : id # id0 => Held(a.inv, id) = Held(inv, id)
      /\ q <= Held(inv, id0) => Held(a.inv, id0) = Held(inv, id0) - q
      /\ q > Held(inv, id0) => Held(a.inv, id0) = 0
  BY <1>2, HereIs, RemoveByIdIs
<1>4. \A id : Held(inv, id) \in Nat
  BY BooksAre
<1>5. \A id : Held(a.inv, id) <= Held(inv, id)
  <2> TAKE id
  <2>1. CASE id = id0
    BY <1>3, <1>4, <2>1
  <2>2. CASE id # id0
    BY <1>3, <1>4, <2>2
  <2> QED BY <2>1, <2>2
<1>6. OneKept(a.inv, inv)
  <2>1. \A id : Held(a.inv, id) \in Nat
    BY <1>3, HeldIs
  <2> QED BY <1>4, <1>5, <2>1 DEF OneKept
<1>7. PICK lapse \in BOOLEAN : lapse <=> Held(inv, id0) < q OBVIOUS
<1>8. PICK c \in Int : c = -q OBVIOUS
<1>9. Book(lapse, id0, c)
  BY <1>1, <1>7, <1>8 DEF Book
<1>10. ~lapse => \A id : Held(a.inv, id) = Held(inv, id) + (IF id = id0 THEN c ELSE 0)
  <2> SUFFICES ASSUME ~lapse, NEW id PROVE Held(a.inv, id) = Held(inv, id) + (IF id = id0 THEN c ELSE 0)
    OBVIOUS
  <2>1. CASE id = id0
    BY <1>3, <1>4, <1>7, <1>8, <2>1
  <2>2. CASE id # id0
    BY <1>3, <1>4, <2>2
  <2> QED BY <2>1, <2>2
<1> QED BY <1>1, <1>2, <1>3, <1>6, <1>9, <1>10, BookedInv

\* A sale takes a quantity from a slot.
LEMMA SellStep ==
    ASSUME IInv, slotLimit' = slotLimit, NEW slot, NEW q \in Int, Sell(slot, q), ~unchecked'
    PROVE  IInv'
<1> DEFINE it == At(inv, slot)
<1>1. PICK sold : sold = IF Rech(it) THEN it.q ELSE IF q = 0 THEN 1 ELSE q OBVIOUS
<1>2. /\ slot \in Taken(inv) /\ sold <= it.q /\ ~(sold < 0) /\ inv' = RemoveFromSlot(inv, slot, sold, FALSE)
      /\ Book(FALSE, it.id, -sold) /\ ground' = ground /\ storage' = storage
  BY <1>1 DEF Sell, At
<1>3. it \in Item /\ it.id \in Ids /\ it.q \in Nat /\ sold \in Nat
  BY <1>1, <1>2, StackAt
<1>4. PICK no \in BOOLEAN : no = FALSE OBVIOUS
<1>5. PICK r : r = RemoveFromSlot(inv, slot, sold, no) OBVIOUS
<1>6. Sound(r) /\ \A id : Held(r, id) = IF id = it.id THEN Held(inv, id) - sold ELSE Held(inv, id)
  BY <1>2, <1>3, <1>5, HereIs, RemoveFromSlotIs
<1> HIDE DEF it
<1>7. \A id : Held(inv, id) \in Nat
  BY BooksAre
<1>8. OneKept(r, inv)
  BY <1>3, <1>6, <1>7 DEF OneKept
<1>9. PICK c \in Int : c = -sold
  BY <1>3
<1>10. Book(no, it.id, c)
  BY <1>2, <1>4, <1>9 DEF Book
<1>11. \A id : Held(r, id) = Held(inv, id) + (IF id = it.id THEN c ELSE 0)
  BY <1>3, <1>6, <1>7, <1>9
<1>12. inv' = r
  BY <1>2, <1>4, <1>5
<1> QED BY <1>2, <1>6, <1>8, <1>10, <1>11, <1>12, BookedInv

\* A recharge fills a stack.
LEMMA RechargeStep ==
    ASSUME IInv, slotLimit' = slotLimit, NEW slot, Recharge(slot)
    PROVE  IInv'
<1> DEFINE it == At(inv, slot)
<1> DEFINE full == MaxCharge[it.id]
<1>1. /\ slot \in Taken(inv) /\ Rech(it) /\ inv' = WithQuantity(inv, slot, full)
      /\ Book(FALSE, it.id, full - it.q) /\ ground' = ground /\ storage' = storage
  BY DEF Recharge, At
<1>2. it \in Item /\ it.id \in Ids /\ it.q \in Nat /\ full \in Nat
  BY <1>1, StackAt
<1>3. Fits([it EXCEPT !.q = full])
  BY <1>1, <1>2 DEF Fits, Item, Rech
<1>4. it.id \notin OneOfAKind
  BY <1>1, OneAssumption DEF Rech
<1>5. PICK m \in Nat : m = full
  BY <1>2
<1>6. PICK r : r = WithQuantity(inv, slot, m) OBVIOUS
<1>7. Sound(r) /\ \A id : Held(r, id) = IF id = it.id THEN Held(inv, id) + m - it.q ELSE Held(inv, id)
  BY <1>1, <1>3, <1>5, <1>6, HereIs, WithQuantityIs
<1> HIDE DEF it, full
<1>8. OneKept(r, inv)
  BY <1>4, <1>7 DEF OneKept
<1>13. PICK no \in BOOLEAN : ~no OBVIOUS
<1>9. PICK c \in Int : c = m - it.q
  BY <1>2
<1>10. Book(no, it.id, c)
  BY <1>1, <1>5, <1>9, <1>13 DEF Book
<1>11. \A id : Held(r, id) = Held(inv, id) + (IF id = it.id THEN c ELSE 0)
  BY <1>2, <1>7, <1>9, BooksAre
<1>12. inv' = r
  BY <1>1, <1>5, <1>6
<1> QED BY <1>1, <1>7, <1>8, <1>10, <1>11, <1>12, BookedInv

\* What is overdue expires.
LEMMA ExpireStep ==
    ASSUME IInv, slotLimit' = slotLimit, NEW d, Expire(d)
    PROVE  IInv'
<1> DEFINE gone(id) == Total({<<e.pos, e.it.q>> : e \in {x \in Entries(inv, id) : x.it.until = d}})
<1>1. /\ inv' = Upwards(Without, inv, Overdue(inv, d)) /\ ground' = ground /\ storage' = storage
      /\ due' = [id \in Ids |-> due[id] - gone(id)]
  BY DEF Expire, Overdue
<1>2. PICK r : r = Upwards(Without, inv, Overdue(inv, d)) OBVIOUS
<1>3. Sound(r) /\ \A id : Held(r, id) = Held(inv, id) - gone(id)
  BY <1>2, HereIs, ExpiredIs
<1>4. \A id : gone(id) \in Nat
  <2> TAKE id
  <2>1. gone(id) = SumOver(QAt(inv, id), {p \in SlotsOf(inv, id) : At(inv, p).until = d})
    <3>1. \A e \in Entries(inv, id) : /\ e.pos \in SlotsOf(inv, id) /\ At(inv, e.pos).until = e.it.until
                                      /\ QAt(inv, id)[e.pos] = e.it.q
      BY HereIs, RangeIs DEF Entries, SlotsOf, QAt, Q
    <3>2. {<<e.pos, e.it.q>> : e \in {x \in Entries(inv, id) : x.it.until = d}} =
            {<<p, QAt(inv, id)[p]>> : p \in {p \in SlotsOf(inv, id) : At(inv, p).until = d}}
      BY <3>1 DEF SlotsOf
    <3> QED BY <3>2 DEF SumOver
  <2>2. PICK T : T = {p \in SlotsOf(inv, id) : At(inv, p).until = d} OBVIOUS
  <2>3. T \in SUBSET Taken(inv) /\ IsFiniteSet(Taken(inv))
    BY <2>2, HereIs, HeldIs, SoundIs
  <2>4. IsFiniteSet(T)
    BY <2>3, FS_Subset
  <2>5. \A p \in T : QAt(inv, id)[p] \in Nat
    BY <2>3, HereIs, HeldIs
  <2>6. SumOver(QAt(inv, id), T) \in Nat
    BY <2>4, <2>5, SumNat
  <2> QED BY <2>1, <2>2, <2>6
<1> HIDE DEF gone
<1>5. \A id : Held(r, id) \in Nat /\ Held(inv, id) \in Nat /\ OnMap(ground, id) \in Nat /\ InList(storage, id) \in Nat
  BY <1>3, HeldIs, BooksAre
<1>6. OneKept(r, inv)
  <2>1. \A id : Held(r, id) <= Held(inv, id)
    BY <1>3, <1>4, <1>5
  <2> QED BY <1>5, <2>1 DEF OneKept
<1>7. \A id \in Ids : due'[id] = Sums(inv', ground', storage', id)
  <2> TAKE id \in Ids
  <2>1. due'[id] = due[id] - gone(id) /\ due[id] = Sums(inv, ground, storage, id)
    BY <1>1, BooksAre
  <2>2. Held(inv', id) = Held(inv, id) - gone(id)
    BY <1>1, <1>2, <1>3
  <2> QED BY <1>1, <1>4, <1>5, <2>1, <2>2 DEF Sums
<1>8. \E f : due' = [id \in Ids |-> f[id]]
  <2>1. due' = [id \in Ids |-> [i \in Ids |-> due[i] - gone(i)][id]]
    BY <1>1
  <2> QED BY <2>1
<1>9. OnFloor(ground') /\ InRoom(storage')
  BY <1>1, HereIs
<1> QED BY <1>1, <1>2, <1>3, <1>6, <1>7, <1>8, <1>9, Moved

\* An item goes to the storage.
LEMMA StoreStep ==
    ASSUME IInv, slotLimit' = slotLimit, NEW slot, NEW q \in Nat, Store(slot, q)
    PROVE  IInv'
<1> DEFINE it == At(inv, slot)
<1>1. PICK put : put = IF Rech(it) THEN it.q ELSE q OBVIOUS
<1>2. /\ slot \in Taken(inv) /\ put \in 1..it.q /\ inv' = RemoveFromSlot(inv, slot, put, FALSE)
      /\ storage' = Append(storage, [it EXCEPT !.q = put]) /\ Keep /\ ground' = ground
  BY <1>1 DEF Store, At
<1>3. it \in Item /\ it.id \in Ids /\ it.q \in Nat /\ Loose(it)
  BY <1>2, StackAt
<1>4. put \in Nat /\ put <= it.q
  BY <1>2, <1>3
<1>5. PICK no \in BOOLEAN : no = FALSE OBVIOUS
<1>6. PICK r : r = RemoveFromSlot(inv, slot, put, no) OBVIOUS
<1>7. Sound(r) /\ \A id : Held(r, id) = IF id = it.id THEN Held(inv, id) - put ELSE Held(inv, id)
  BY <1>2, <1>4, <1>6, HereIs, RemoveFromSlotIs
<1> HIDE DEF it
<1>8. PICK new : new = [it EXCEPT !.q = put] OBVIOUS
<1>9. new \in Item /\ new.id = it.id /\ new.q = put /\ Loose(new)
  BY <1>3, <1>4, <1>8 DEF Item, Loose, Rech
<1>10. new \in Stuff
  BY <1>9 DEF Stuff
<1>11. InRoom(storage') /\ \A id : InList(storage', id) = InList(storage, id) + Units(new, id)
  BY <1>2, <1>8, <1>9, <1>10, HereIs, RoomIs
<1>12. \A id : Units(new, id) = (IF id = it.id THEN put ELSE 0)
  BY <1>9, UnitsIs DEF Q
<1>13. \A id : Held(inv, id) \in Nat /\ OnMap(ground, id) \in Nat /\ InList(storage, id) \in Nat
  BY BooksAre
<1>14. inv' = r
  BY <1>2, <1>5, <1>6
<1>15. OneKept(r, inv)
  BY <1>4, <1>7, <1>13 DEF OneKept
<1>16. \A id \in Ids : Sums(inv', ground', storage', id) = Sums(inv, ground, storage, id)
  <2> TAKE id \in Ids
  <2>1. Held(inv', id) = Held(inv, id) - (IF id = it.id THEN put ELSE 0)
    BY <1>7, <1>13, <1>14
  <2>2. InList(storage', id) = InList(storage, id) + (IF id = it.id THEN put ELSE 0)
    BY <1>11, <1>12
  <2>3. Held(inv, id) \in Nat /\ OnMap(ground, id) \in Nat /\ InList(storage, id) \in Nat
    BY <1>13
  <2>4. OnMap(ground', id) = OnMap(ground, id)
    BY <1>2
  <2> QED BY <1>4, <2>1, <2>2, <2>3, <2>4 DEF Sums
<1>17. OnFloor(ground')
  BY <1>2, HereIs
<1> QED BY <1>2, <1>7, <1>11, <1>14, <1>15, <1>16, <1>17, Steady

\* Taking out: the item goes into the inventory as a whole, or back into the
\* list, unless the list has a null or another deadline was counted.
LEMMA TakeOutStep ==
    ASSUME IInv, slotLimit' = slotLimit, NEW n, NEW inTime \in BOOLEAN, TakeOut(n, inTime)
    PROVE  IInv'
<1> DEFINE it == storage[n]
<1> DEFINE rest == RemoveAt(storage, n)
<1> DEFINE fits == inTime /\ CheckSpace(inv, it.id, it.q, it.owner)
<1> DEFINE other == OtherDeadline(inv, it.id, it.owner, it.until)
<1>1. /\ n \in DOMAIN storage /\ it # None /\ ground' = ground
      /\ Book(Broken(rest) \/ (fits /\ other), it.id, 0)
  BY DEF TakeOut, Present
<1>2. \/ Broken(rest) /\ storage' = rest /\ inv' = inv
      \/ ~Broken(rest) /\ fits /\ storage' = rest /\ inv' = AddFromDrop(inv, it).inv
      \/ ~Broken(rest) /\ ~fits /\ storage' = Append(rest, it) /\ inv' = inv
  BY DEF TakeOut
<1>3. it \in Stuff /\ Loose(it)
  BY <1>1, HereIs DEF InRoom
<1>4. it \in Item /\ it.id \in Ids /\ it.q \in Nat
  BY <1>3 DEF Loose, Item
<1>5. InRoom(rest) /\ \A id : /\ InList(rest, id) = InList(storage, id) - Units(it, id)
                              /\ InList(storage, id) \in Nat /\ Units(it, id) \in Nat
  BY <1>1, HereIs, RoomIs
<1>6. \A id : Units(it, id) = (IF id = it.id THEN it.q ELSE 0)
  BY <1>4, UnitsIs DEF Q
<1>7. \A id : Held(inv, id) \in Nat /\ OnMap(ground, id) \in Nat /\ InList(storage, id) \in Nat
  BY BooksAre
<1>8. PICK lapse \in BOOLEAN : lapse <=> Broken(rest) \/ (fits /\ other) OBVIOUS
<1>20. fits => CheckSpace(inv, it.id, it.q, it.owner) OBVIOUS
<1>21. ~other => ~OtherDeadline(inv, it.id, it.owner, it.until) OBVIOUS
<1> HIDE DEF it, rest, fits, other
<1>9. Book(lapse, it.id, 0)
  BY <1>1, <1>8 DEF Book
<1>10. OnFloor(ground')
  BY <1>1, HereIs
<1>11. CASE Broken(rest) /\ storage' = rest /\ inv' = inv
  <2>1. lapse /\ Sound(inv') /\ OneKept(inv', inv) /\ InRoom(storage')
    BY <1>5, <1>8, <1>11, HereIs
  <2>2. ~lapse => \A id \in Ids : Sums(inv', ground', storage', id) =
                     Sums(inv, ground, storage, id) + (IF id = it.id THEN 0 ELSE 0)
    BY <2>1
  <2>3. Sound(inv') /\ OneKept(inv', inv) /\ InRoom(storage')
    BY <2>1
  <2> QED BY <1>9, <1>10, <2>2, <2>3, Booked
<1>12. CASE ~Broken(rest) /\ fits /\ storage' = rest /\ inv' = AddFromDrop(inv, it).inv
  <2>1. PICK a : a = AddFromDrop(inv, it) OBVIOUS
  <2>2. Adds(a, inv, it) /\ OneKept(a.inv, inv)
    BY <1>3, <2>1, HereIs, AddFromDropIs
  <2>3. /\ Sound(a.inv) /\ (\A id : id # it.id => Held(a.inv, id) = Held(inv, id))
        /\ Held(a.inv, it.id) = Held(inv, it.id) + (it.q - a.left) /\ (a.ok => a.left = 0)
    BY <2>2 DEF Adds
  <2>4. ~lapse => a.ok
    BY <1>4, <1>8, <1>12, <1>20, <1>21, <2>1, HereIs, SpaceAgrees
  <2>5. ~lapse => \A id \in Ids : Sums(inv', ground', storage', id) =
                     Sums(inv, ground, storage, id) + (IF id = it.id THEN 0 ELSE 0)
    <3> SUFFICES ASSUME ~lapse, NEW id \in Ids
                 PROVE  Sums(inv', ground', storage', id) = Sums(inv, ground, storage, id) + 0
      OBVIOUS
    <3>1. a.left = 0 /\ inv' = a.inv
      BY <1>12, <2>1, <2>3, <2>4
    <3>2. Held(inv', id) = Held(inv, id) + (IF id = it.id THEN it.q ELSE 0)
      BY <1>4, <1>7, <2>3, <3>1
    <3>3. InList(storage', id) = InList(storage, id) - (IF id = it.id THEN it.q ELSE 0)
      BY <1>5, <1>6, <1>12
    <3> QED BY <1>1, <1>4, <1>7, <3>2, <3>3 DEF Sums
  <2>6. Sound(inv') /\ OneKept(inv', inv) /\ InRoom(storage')
    BY <1>5, <1>12, <2>1, <2>2, <2>3
  <2> QED BY <1>9, <1>10, <2>5, <2>6, Booked
<1>13. CASE ~Broken(rest) /\ ~fits /\ storage' = Append(rest, it) /\ inv' = inv
  <2>1. InRoom(storage') /\ \A id : InList(storage', id) = InList(rest, id) + Units(it, id)
    BY <1>3, <1>5, <1>13, RoomIs
  <2>2. \A id \in Ids : Sums(inv', ground', storage', id) =
                     Sums(inv, ground, storage, id) + (IF id = it.id THEN 0 ELSE 0)
    BY <1>1, <1>5, <1>7, <1>13, <2>1 DEF Sums
  <2>3. Sound(inv') /\ OneKept(inv', inv)
    BY <1>13, HereIs
  <2> QED BY <1>9, <1>10, <2>1, <2>2, <2>3, Booked
<1> QED BY <1>2, <1>11, <1>12, <1>13

\* A request for an empty place leaves one more null in the storage.
LEMMA TakeOutNothingStep ==
    ASSUME IInv, slotLimit' = slotLimit, TakeOutNothing
    PROVE  IInv'
<1>1. storage' = Append(storage, None) /\ Keep /\ inv' = inv /\ ground' = ground
  BY DEF TakeOutNothing
<1>2. None \in Stuff
  BY DEF Stuff
<1>3. InRoom(storage') /\ \A id : /\ InList(storage', id) = InList(storage, id) + Units(None, id)
                                  /\ InList(storage, id) \in Nat
  BY <1>1, <1>2, HereIs, RoomIs
<1>4. \A id \in Ids : Sums(inv', ground', storage', id) = Sums(inv, ground, storage, id)
  BY <1>1, <1>3, UnitsIs, BooksAre DEF Sums
<1>5. Sound(inv') /\ OneKept(inv', inv) /\ OnFloor(ground')
  BY <1>1, HereIs
<1> QED BY <1>1, <1>3, <1>4, <1>5, Steady

\* The storage is arranged.
LEMMA ArrangeStep ==
    ASSUME IInv, slotLimit' = slotLimit, Arrange
    PROVE  IInv'
<1>1. ~Broken(storage) /\ storage' = ById(storage) /\ Keep /\ inv' = inv /\ ground' = ground
  BY DEF Arrange
<1>2. storage \in Seq(Stuff) /\ (\A n \in DOMAIN storage : storage[n] \in Stuff) /\ InRoom(storage)
  BY HereIs, ListIs
<1>3. \A n \in DOMAIN storage : storage[n] # None
  BY <1>1 DEF Broken, Range
<1>4. storage \in Seq(Item)
  <2>1. \A n \in 1..Len(storage) : storage[n] \in Item
    BY <1>2, <1>3, LenProperties DEF Stuff
  <2>2. storage = [n \in 1..Len(storage) |-> storage[n]] /\ Len(storage) \in Nat
    BY <1>2, LenProperties
  <2> QED BY <2>1, <2>2, IsASeq
<1>5. PICK r : r = ById(storage) OBVIOUS
<1>6. /\ r \in Seq(Item)
      /\ \A k \in DOMAIN r : \E n \in DOMAIN storage : r[k] = storage[n]
      /\ \A id : InList(r, id) = InList(storage, id)
  BY <1>4, <1>5, ByIdIs
<1>7. InRoom(r)
  <2>1. r \in Seq(Stuff)
    BY <1>6, SumOfItems
  <2>2. \A n \in DOMAIN storage : storage[n] # None => Loose(storage[n])
    BY <1>2 DEF InRoom
  <2> QED BY <1>6, <2>1, <2>2 DEF InRoom
<1>8. \A id \in Ids : Sums(inv', ground', storage', id) = Sums(inv, ground, storage, id)
  BY <1>1, <1>5, <1>6 DEF Sums
<1>9. Sound(inv') /\ OneKept(inv', inv) /\ OnFloor(ground') /\ InRoom(storage')
  BY <1>1, <1>5, <1>7, HereIs
<1> QED BY <1>1, <1>8, <1>9, Steady

\* Nothing happens.
LEMMA StutterStep ==
    ASSUME IInv, UNCHANGED vars
    PROVE  IInv'
BY DEF vars, IInv, Placed, Books, Single, Sound, Entry, OnFloor, InRoom, Amount, Present

\* What the bounds of a setting are, and which items it brings into play.
LEMMA SettingIs ==
    ASSUME IInv
    PROVE  /\ MaxAmount \in Nat
           /\ \A k \in Kinds, q \in Nat : Of(k, q) \in Item
           /\ \A k \in Kinds : k.id \in Ids
<1>1. Setting[slotLimit] \in [kinds: SUBSET [id: Ids, owner: Owners, until: Deadlines],
                              storage: Nat, amount: Nat, stored: Nat]
  BY HereIs
<1>2. MaxAmount \in Nat /\ Kinds \in SUBSET [id: Ids, owner: Owners, until: Deadlines]
  BY <1>1 DEF MaxAmount, Kinds
<1> QED BY <1>2 DEF Of, Item

\* Every step keeps the invariant.
LEMMA NextIInv ==
    ASSUME IInv, Next, ~unchecked'
    PROVE  IInv'
<1>1. slotLimit' = slotLimit /\ (Deal \/ Operation)
  BY DEF Next
<1>2. slotLimit \in Nat /\ MaxAmount \in Nat /\ Amounts \subseteq Nat
  BY HereIs, SettingIs DEF Amounts
<1>3. CASE \E g \in Drops, k \in Kinds, q \in Amounts : Appear(g, Of(k, q))
  BY <1>1, <1>2, <1>3, SettingIs, AppearStep
<1>4. CASE \E g \in Drops : Vanish(g) \/ PickUp(g)
  BY <1>1, <1>4, VanishStep, PickUpStep
<1>5. CASE \E slot \in 1..slotLimit :
        \/ \E q \in 0..MaxAmount, g \in Drops : Drop(slot, q, g)
        \/ \E dst \in 1..slotLimit : ItemMove(slot, dst)
        \/ \E q \in Amounts : Store(slot, q)
        \/ Recharge(slot)
  <2>1. PICK slot \in 1..slotLimit :
        \/ \E q \in 0..MaxAmount, g \in Drops : Drop(slot, q, g)
        \/ \E dst \in 1..slotLimit : ItemMove(slot, dst)
        \/ \E q \in Amounts : Store(slot, q)
        \/ Recharge(slot)
    BY <1>5
  <2>2. CASE \E q \in 0..MaxAmount, g \in Drops : Drop(slot, q, g)
    <3>1. PICK q \in 0..MaxAmount, g \in Drops : Drop(slot, q, g)
      BY <2>2
    <3>2. q \in Nat
      BY <1>2
    <3> QED BY <1>1, <3>1, <3>2, DropStep
  <2>3. CASE \E dst \in 1..slotLimit : ItemMove(slot, dst)
    BY <1>1, <2>3, ItemMoveStep
  <2>4. CASE \E q \in Amounts : Store(slot, q)
    <3>1. PICK q \in Nat : Store(slot, q)
      BY <1>2, <2>4
    <3> QED BY <1>1, <3>1, StoreStep
  <2>5. CASE Recharge(slot)
    BY <1>1, <2>5, RechargeStep
  <2> QED BY <2>1, <2>2, <2>3, <2>4, <2>5
<1>6. CASE ItemSort \/ ItemGather \/ Arrange \/ TakeOutNothing
  BY <1>1, <1>6, ItemSortStep, ItemGatherStep, ArrangeStep, TakeOutNothingStep
<1>7. CASE \E id \in {k.id : k \in Kinds}, n \in Amounts, consume \in BOOLEAN : TakeAway(id, n, consume)
  <2>1. PICK id \in Ids, n \in Nat, consume \in BOOLEAN : TakeAway(id, n, consume)
    BY <1>2, <1>7, SettingIs
  <2> QED BY <1>1, <2>1, TakeAwayStep
<1>8. CASE \E d \in Deadlines : Expire(d)
  BY <1>1, <1>8, ExpireStep
<1>9. CASE \E n \in DOMAIN storage, inTime \in BOOLEAN : TakeOut(n, inTime)
  BY <1>1, <1>9, TakeOutStep
<1>10. CASE Deal
  <2>1. CASE \E slot \in 1..slotLimit, q \in -MaxAmount..MaxAmount : Sell(slot, q)
    <3>1. PICK slot \in 1..slotLimit, q \in Int : Sell(slot, q)
      BY <1>2, <2>1
    <3> QED BY <1>1, <3>1, SellStep
  <2>2. CASE \E id \in {k.id : k \in Kinds}, n \in Amounts : Grant(id, n)
    <3>1. PICK id \in Ids, n \in Nat : Grant(id, n)
      BY <1>2, <2>2, SettingIs
    <3> QED BY <1>1, <3>1, GrantStep
  <2> QED BY <1>10, <2>1, <2>2 DEF Deal
<1> QED BY <1>1, <1>3, <1>4, <1>5, <1>6, <1>7, <1>8, <1>9, <1>10 DEF Operation

-----------------------------------------------------------------------------
(* The theorems.                                                            *)

\* In every state reached without an unsound deal the slots of the inventory hold one
\* fitting stack each, the map and the storage room hold items, and the books are right.
THEOREM Inductive == Spec => [](unchecked \in BOOLEAN /\ (~unchecked => IInv))
<1>1. Init => unchecked \in BOOLEAN /\ (~unchecked => IInv)
  BY InitIInv DEF Init
<1>2. (~unchecked => IInv) /\ [Next]_vars => (~unchecked => IInv)'
  <2> SUFFICES ASSUME ~unchecked => IInv, [Next]_vars, ~unchecked' PROVE IInv'
    OBVIOUS
  <2>1. ~unchecked
    BY DEF Next, Deal, Sell, Grant, vars
  <2> QED BY <2>1, NextIInv, StutterStep
<1>3. unchecked \in BOOLEAN /\ [Next]_vars => (unchecked \in BOOLEAN)'
  BY DEF Next, Deal, Sell, Grant, vars
<1> QED BY <1>1, <1>2, <1>3, PTL DEF Spec

\* No operation puts two entries into one slot of the LinkedHashMap, fills a
\* stack over its SlotMax or leaves an empty one that is not a set of stars,
\* until a shop takes an amount it should have refused.
THEOREM TypeCorrect == Spec => [](~unchecked => TypeOK)
<1>1. unchecked \in BOOLEAN /\ IInv => TypeOK
  <2> SUFFICES ASSUME unchecked \in BOOLEAN, IInv PROVE TypeOK OBVIOUS
  <2>1. \A n \in DOMAIN inv : /\ inv[n].pos \in 1..slotLimit /\ inv[n].it \in Item
                              /\ Fits(inv[n].it)
    BY HereIs, SoundIs DEF Sound, Entry
  <2>2. \A m, n \in DOMAIN inv : inv[m].pos = inv[n].pos => m = n
    BY HereIs DEF Sound
  <2>3. \A g \in Drops : ground[g] \in Item \cup {None}
    BY HereIs DEF Stuff
  <2>4. \A n \in DOMAIN storage : storage[n] \in Item \cup {None}
    BY HereIs, ListIs DEF Stuff
  <2>5. slotLimit \in DOMAIN Setting /\ due \in [Ids -> Nat] /\ unchecked \in BOOLEAN
    BY DEF IInv, Placed
  <2> QED BY <2>1, <2>2, <2>3, <2>4, <2>5 DEF TypeOK, Fits
<1> QED BY <1>1, Inductive, PTL

\* Pickups, drops, moves, merges, sorting, gathering, the shop and the storage
\* room create and destroy nothing beyond what they are asked to, except in
\* the cases that are settled in the books.
THEOREM LedgerHolds == Spec => []Ledger
<1>1. (~unchecked => IInv) => Ledger
  BY DEF IInv, Books, Ledger
<1> QED BY <1>1, Inductive, PTL

\* addFromDrop, addId, gathering and the storage room never bring a second one
\* of an item one may have only one of into the inventory.
THEOREM AtMostOneHolds == Spec => []AtMostOne
<1>1. (~unchecked => IInv) => AtMostOne
  BY DEF IInv, Single, AtMostOne
<1> QED BY <1>1, Inductive, PTL

\* What checkSpace answers is what addFromDrop does afterwards, in whichever
\* state the inventory is, unless a stack with another deadline is counted.
THEOREM SpaceIsSpaceHolds == Spec => []SpaceIsSpace
<1>1. (~unchecked => IInv) => SpaceIsSpace
  <2> SUFFICES ASSUME IInv, NEW k \in Kinds, NEW q \in 0..MaxAmount, NEW it, it = Of(k, q),
                      ~OtherDeadline(inv, it.id, it.owner, it.until)
               PROVE  CheckSpace(inv, it.id, it.q, it.owner) <=> AddFromDrop(inv, it).ok
    BY DEF SpaceIsSpace
  <2>1. it \in Item
    BY SettingIs
  <2> QED BY <2>1, HereIs, SpaceAgrees
<1> QED BY <1>1, Inductive, PTL

\* ItemSort closes every gap without changing the order; ItemGather, where no set of
\* stars is empty, leaves the items by id and at most one stack of a kind unfilled.
THEOREM TidiesHolds == Spec => Tidies
<1> DEFINE A ==
      ~unchecked =>
      /\ ItemSort => Taken(inv') = 1..Len(inv) /\ Ranked(inv') = Ranked(inv)
      /\ ItemGather /\ ~HasEmpty =>
           /\ Taken(inv') = 1..Len(inv')
           /\ \A a, b \in Range(inv') : a.pos < b.pos =>
                /\ a.it.id <= b.it.id
                /\ Mergeable(a.it, b.it) => SlotMax[a.it.id] \in {a.it.q, b.it.q}
<1>1. ASSUME IInv, ItemSort PROVE Taken(inv') = 1..Len(inv) /\ Ranked(inv') = Ranked(inv)
  <2>1. PICK s : s = Sorted(inv) OBVIOUS
  <2>2. Taken(s) = 1..Len(inv) /\ Ranked(s) = Ranked(inv)
    BY <1>1, <2>1, HereIs, SortedIs
  <2>3. inv' = s
    BY <1>1, <2>1 DEF ItemSort
  <2> QED BY <2>2, <2>3
<1>2. ASSUME IInv, ItemGather, ~HasEmpty
      PROVE  /\ Taken(inv') = 1..Len(inv')
             /\ \A a, b \in Range(inv') : a.pos < b.pos =>
                  /\ a.it.id <= b.it.id
                  /\ Mergeable(a.it, b.it) => SlotMax[a.it.id] \in {a.it.q, b.it.q}
  <2>1. PICK s : s = Gathered(inv) OBVIOUS
  <2>2. NoEmpty(inv)
    <3>1. \A p \in Taken(inv) : inv[EntryAt(inv, p)].it.q # 0
      BY <1>2, HereIs, SoundIs DEF HasEmpty
    <3> QED BY <3>1 DEF NoEmpty, At
  <2>3. Sound(s) /\ Neat(s)
    BY <1>2, <2>1, <2>2, HereIs, GatheredIs
  <2>4. \A e \in Range(s) : e.pos \in Taken(s) /\ At(s, e.pos) = e.it
    BY <2>3, RangeIs
  <2>5. \A a, b \in Range(s) : a.pos < b.pos =>
           /\ a.it.id <= b.it.id
           /\ Mergeable(a.it, b.it) => SlotMax[a.it.id] \in {a.it.q, b.it.q}
    BY <2>3, <2>4 DEF Neat
  <2>6. inv' = s /\ Taken(s) = 1..Len(s)
    BY <1>2, <2>1, <2>3 DEF ItemGather, Neat
  <2> QED BY <2>5, <2>6
<1>3. (~unchecked => IInv) => A
  BY <1>1, <1>2
<1> QED BY <1>3, Inductive, PTL DEF Tidies

-----------------------------------------------------------------------------
(* The mesos of the storage room.                                           *)

\* The storage's mesos: their range and their ledger, together inductive.
MesosIInv == MesosTypeOK /\ Kept

\* Each transfer and each payment keeps the amounts and their sum.
LEMMA MesosStep == MesosIInv /\ [MesosNext]_mesosVars => MesosIInv'
<1> SUFFICES ASSUME MesosTypeOK, Kept, [MesosNext]_mesosVars PROVE MesosTypeOK' /\ Kept'
  BY DEF MesosIInv
<1>1. ASSUME NEW meso \in Int32, Transfer(meso) PROVE MesosTypeOK' /\ Kept'
  BY <1>1, MaxIntAssumption, SMTT(60) DEF Transfer, MesosTypeOK, Kept, Shortened, Available,
     Deposited, Withdrawn, gainMeso, setMeso, Wrap, Int32
<1>2. ASSUME NEW meso \in Int32, Elsewhere(meso) PROVE MesosTypeOK' /\ Kept'
  BY <1>2, MaxIntAssumption, SMTT(60) DEF Elsewhere, MesosTypeOK, Kept, gainMeso, Wrap, Int32
<1>3. CASE UNCHANGED mesosVars
  BY <1>3 DEF mesosVars, MesosTypeOK, Kept
<1> QED BY <1>1, <1>2, <1>3 DEF MesosNext

\* The amounts stay between zero and the largest int, and purse and storage
\* room together keep what the account owns, for every width of int.
THEOREM MesosKept == MesosSpec => []MesosTypeOK /\ []Kept
<1>1. MesosInit => MesosIInv
  BY MaxIntAssumption DEF MesosInit, MesosIInv, MesosTypeOK, Kept
<1>2. MesosIInv => MesosTypeOK /\ Kept
  BY DEF MesosIInv
<1> QED BY <1>1, <1>2, MesosStep, PTL DEF MesosSpec
=============================================================================
