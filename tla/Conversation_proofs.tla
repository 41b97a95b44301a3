-------------------------- MODULE Conversation_proofs --------------------------
(* What holds of conversations whatever the scripts are.                      *)
EXTENDS Conversation, TLAPS

\* What an effect leaves to do.
LEMMA RestTyped ==
  ASSUME rest \in Seq(Effects), Calling
  PROVE  Head(rest) \in Effects /\ Tail(rest) \in Seq(Effects)
BY DEF Calling

\* A call of a row of a table has typed things to do, and a place to be in.
LEMMA CallTyped ==
  ASSUME NEW x \in Names, NEW row \in Scripts[x], Call(row)
  PROVE  at' \in Nat /\ rest' \in Seq(Effects) /\ marks' = {} /\ rest' = row.do
<1>1. row \in Rows
  BY ScriptsAssumption
<1>. QED BY <1>1 DEF Call, Rows

\* The number of the conversation stays one of the five.
LEMMA ArgTyped ==
  ASSUME rest \in Seq(Effects), Next1("window")
  PROVE  Arg.n \in 2 .. 4
<1>1. Head(rest) \in Effects /\ Head(rest).op = "window"
  BY RestTyped DEF Next1
<1>. QED BY <1>1 DEF Effects, Arg

\* The client has a cm of s only while s is a script.
Scripted == TypeOK /\ (cms = "mine" => s \in Names)

\* Every variable has its type in every state, whatever the tables say.
LEMMA ScriptedStep == Scripted /\ [Next]_vars => Scripted'
<1>. SUFFICES ASSUME Scripted, [Next]_vars
              PROVE  Scripted'
  OBVIOUS
<1>. USE DEF Scripted, TypeOK
<1>1. CASE UNCHANGED vars
  BY <1>1 DEF vars
<1>0. {0, 1} \subseteq 0 .. 4 OBVIOUS
<1>2. ASSUME NEW x \in Names, s = None, Open(x)
      PROVE  Scripted'
  <2>1. PICK row \in Scripts[x] : Call(row)
    BY <1>2 DEF Open
  <2>2. at' \in Nat /\ rest' \in Seq(Effects) /\ marks' = {}
    BY <2>1, CallTyped
  <2>3. conv' \in 0 .. 4 /\ last' \in STRING \cup {None}
    BY <1>0, <1>2 DEF Open
  <2>4. /\ s' \in Names /\ cms' = "mine" /\ pend' \in BOOLEAN /\ shop' \in BOOLEAN
    BY <1>2 DEF Open
  <2>. QED BY <2>2, <2>3, <2>4
<1>3. ASSUME NEW answer \in {"yes", "no"}, Reply(answer)
      PROVE  Scripted'
  <2>1. PICK row \in Scripts[s] : Call(row)
    BY <1>3 DEF Reply
  <2>2. s \in Names
    BY <1>3 DEF Reply, Answerable
  <2>3. at' \in Nat /\ rest' \in Seq(Effects) /\ marks' = {}
    BY <2>1, <2>2, CallTyped
  <2>. QED BY <1>3, <2>2, <2>3 DEF Reply
<1>4. ASSUME Effect
      PROVE  Scripted'
  <2>1. ASSUME NEW op \in Ops, Next1(op)
        PROVE  rest' \in Seq(Effects) /\ Arg \in Effects
    BY <2>1, RestTyped DEF Next1, Arg
  <2>2. CASE Ask
    <3>1. rest' \in Seq(Effects) /\ Arg.kind \in STRING
      BY <2>1, <2>2 DEF Ask, Ops, Effects
    <3>. QED BY <2>2, <3>1 DEF Ask, Marks
  <2>3. CASE DisposeCm
    BY <2>1, <2>3 DEF DisposeCm, Disposed, Marks, Ops
  <2>4. CASE SafeDisposeCm
    BY <2>1, <2>4 DEF SafeDisposeCm, Ops
  <2>5. CASE OpenOther
    <3>1. rest' \in Seq(Effects)
      BY <2>1, <2>5 DEF OpenOther, Ops
    <3>2. conv' \in 0 .. 4 /\ cms' \in {"none", "mine", "other"} /\ (cms' = "mine" => cms = "mine")
      BY <1>0, <2>5 DEF OpenOther
    <3>3. marks' \subseteq Marks
      BY <2>5 DEF OpenOther, Marks
    <3>. QED BY <2>5, <3>1, <3>2, <3>3 DEF OpenOther
  <2>6. CASE OpenWindow
    <3>1. Arg.n \in 2 .. 4 /\ rest' \in Seq(Effects)
      BY <2>1, <2>6, ArgTyped DEF OpenWindow, Ops
    <3>. QED BY <2>6, <3>1 DEF OpenWindow
  <2>7. CASE OpenShopWindow
    BY <2>1, <2>7 DEF OpenShopWindow, Ops
  <2>8. CASE TakeItem
    <3>1. rest' \in Seq(Effects) /\ UNCHANGED <<s, at, cms, last, pend, conv, shop>>
      BY <2>1, <2>8 DEF TakeItem, Ops
    <3>2. marks' \subseteq Marks
      BY <2>8 DEF TakeItem, Marks
    <3>. QED BY <3>1, <3>2
  <2>9. CASE TakeAllItems
    BY <2>1, <2>9 DEF TakeAllItems, Ops
  <2>10. CASE PayMesos
    BY <2>1, <2>10 DEF PayMesos, Marks, Ops
  <2>11. CASE EarnMesos
    BY <2>1, <2>11 DEF EarnMesos, Marks, Ops
  <2>12. CASE GiveItem
    <3>1. rest' \in Seq(Effects) /\ UNCHANGED <<s, at, cms, last, pend, conv, shop>>
      BY <2>1, <2>12 DEF GiveItem, Ops
    <3>2. marks' \subseteq Marks
      BY <2>12 DEF GiveItem, Marks
    <3>. QED BY <3>1, <3>2
  <2>13. CASE ChangeElse
    BY <2>1, <2>13 DEF ChangeElse, Ops
  <2>14. CASE Throw
    BY <2>14 DEF Throw
  <2>. QED
    BY <1>4, <2>2, <2>3, <2>4, <2>5, <2>6, <2>7, <2>8, <2>9, <2>10, <2>11, <2>12, <2>13, <2>14
    DEF Effect
<1>5. CASE ClickShop
  BY <1>5 DEF ClickShop
<1>6. CASE EndChat
  BY <1>6 DEF EndChat, Disposed
<1>7. CASE CloseWindow
  BY <1>7 DEF CloseWindow
<1>8. CASE CloseShop
  <2>1. conv' \in 0 .. 4 /\ shop' \in BOOLEAN
    BY <1>0, <1>8 DEF CloseShop
  <2>2. UNCHANGED <<s, at, rest, cms, last, pend, marks>>
    BY <1>8 DEF CloseShop
  <2>. QED BY <2>1, <2>2
<1>9. CASE Unstick \/ OtherEnds
  BY <1>9 DEF Unstick, OtherEnds, Disposed
<1>10. CASE Forget
  BY <1>10 DEF Forget, Marks
<1>. QED BY <1>1, <1>2, <1>3, <1>4, <1>5, <1>6, <1>7, <1>8, <1>9, <1>10 DEF Next

LEMMA ScriptedAlways == Spec => []Scripted
<1>1. ASSUME Init
      PROVE  Scripted
  <2>1. conv \in 0 .. 4 /\ at \in Nat
    BY <1>1 DEF Init
  <2>2. pend \in BOOLEAN /\ shop \in BOOLEAN /\ marks \subseteq Marks
    BY <1>1 DEF Init
  <2>3. rest \in Seq(Effects)
    BY <1>1 DEF Init
  <2>. QED BY <1>1, <2>1, <2>2, <2>3 DEF Init, Scripted, TypeOK
<1>. QED BY <1>1, ScriptedStep, PTL DEF Spec

\* Every variable has its type in every state, whatever the tables say.
THEOREM TypeCorrect == Spec => []TypeOK
<1>1. Scripted => TypeOK
  BY DEF Scripted
<1>. QED BY <1>1, ScriptedAlways, PTL

--------------------------------------------------------------------------------
(* Who holds the player.  Both properties speak of states between calls; what *)
(* is inductive speaks of every state.                                        *)

\* The conversation number is 1 only while a cm or a shop window will reset it.
Kept == conv = 1 => cms # "none" \/ shop

LEMMA KeptStep == Scripted /\ Kept /\ [Next]_vars => Kept'
<1>. SUFFICES ASSUME Scripted, Kept, [Next]_vars
              PROVE  Kept'
  OBVIOUS
<1>. USE DEF Kept
<1>1. CASE UNCHANGED vars
  BY <1>1 DEF vars
<1>2. ASSUME NEW x \in Names, Open(x)
      PROVE  Kept'
  BY <1>2 DEF Open
<1>3. ASSUME NEW answer \in {"yes", "no"}, Reply(answer)
      PROVE  Kept'
  BY <1>3 DEF Reply
<1>4. CASE Effect
  <2>1. CASE OpenWindow
    <3>1. Arg.n \in 2 .. 4
      BY <2>1, ArgTyped DEF OpenWindow, Scripted, TypeOK
    <3>2. conv' = 1 => conv = 1
      BY <2>1, <3>1 DEF OpenWindow
    <3>. QED BY <2>1, <3>2 DEF OpenWindow
  <2>2. CASE DisposeCm
    BY <2>2 DEF DisposeCm, Disposed
  <2>3. CASE OpenOther
    BY <2>3 DEF OpenOther
  <2>4. CASE OpenShopWindow
    BY <2>4 DEF OpenShopWindow
  <2>5. CASE Ask \/ SafeDisposeCm \/ ChangeElse \/ Throw
    BY <2>5 DEF Ask, SafeDisposeCm, ChangeElse, Throw
  <2>6. CASE TakeItem \/ TakeAllItems \/ PayMesos \/ EarnMesos \/ GiveItem
    <3>1. UNCHANGED <<cms, conv, shop>>
      BY <2>6 DEF TakeItem, TakeAllItems, PayMesos, EarnMesos, GiveItem
    <3>. QED BY <3>1
  <2>. QED BY <1>4, <2>1, <2>2, <2>3, <2>4, <2>5, <2>6 DEF Effect
<1>5. CASE ClickShop
  BY <1>5 DEF ClickShop
<1>6. CASE EndChat \/ Unstick \/ OtherEnds
  BY <1>6 DEF EndChat, Unstick, OtherEnds, Disposed
<1>7. CASE CloseWindow \/ CloseShop
  BY <1>7 DEF CloseWindow, CloseShop
<1>8. CASE Forget
  BY <1>8 DEF Forget
<1>. QED BY <1>1, <1>2, <1>3, <1>4, <1>5, <1>6, <1>7, <1>8 DEF Next

\* Whatever the tables say, no player stays "talking" with neither a cm nor a shop that
\* will end it (NPCScriptManager.dispose, NPCHandler.NPCShop).
THEOREM ReleasedAlways == Spec => []Released
<1>1. Init => Kept
  BY DEF Init, Kept
<1>2. Kept => Released
  BY DEF Kept, Released
<1>. QED BY <1>1, <1>2, KeptStep, ScriptedAlways, PTL DEF Spec

--------------------------------------------------------------------------------
\* What the call has still to do opens a window or a shop only if the table does; and the
\* cm goes without a conversation, or beside a shop, only then.
Windows == {"window", "shop"}
Opened ==
  /\ \A i \in DOMAIN rest : rest[i].op \in Windows => s \in Windowed
  /\ cms # "none" => (conv = 1 /\ ~shop) \/ s \in Windowed
  /\ Calling /\ shop => s \in Windowed

\* A call of a script does what its table says.
LEMMA CallOpens ==
  ASSUME NEW x \in Names, NEW row \in Scripts[x], rest' = row.do
  PROVE  \A i \in DOMAIN rest' : rest'[i].op \in Windows => x \in Windowed
BY DEF Windowed, Windows

\* An effect leaves less to do, and is of the table itself.
LEMMA TailOpens ==
  ASSUME Scripted, Opened, NEW op \in Ops, Next1(op)
  PROVE  /\ \A i \in DOMAIN rest' : rest'[i].op \in Windows => s \in Windowed
         /\ op \in Windows => s \in Windowed
<1>1. rest \in Seq(Effects) /\ rest # <<>> /\ rest' = Tail(rest) /\ rest[1].op = op
  BY DEF Scripted, TypeOK, Next1, Calling
<1>2. ASSUME NEW i \in DOMAIN rest'
      PROVE  i + 1 \in DOMAIN rest /\ rest'[i] = rest[i + 1]
  BY <1>1, <1>2
<1>3. 1 \in DOMAIN rest
  BY <1>1
<1>. QED BY <1>1, <1>2, <1>3 DEF Opened

LEMMA OpenedStep == Scripted /\ Opened /\ [Next]_vars => Opened'
<1>. SUFFICES ASSUME Scripted, Opened, [Next]_vars
              PROVE  Opened'
  OBVIOUS
<1>1. CASE UNCHANGED vars
  BY <1>1 DEF vars, Opened, Calling
<1>2. ASSUME NEW x \in Names, Open(x)
      PROVE  Opened'
  <2>1. PICK row \in Scripts[x] : Call(row)
    BY <1>2 DEF Open
  <2>2. \A i \in DOMAIN rest' : rest'[i].op \in Windows => x \in Windowed
    BY <2>1, CallOpens DEF Call
  <2>. QED BY <1>2, <2>2 DEF Open, Opened
<1>3. ASSUME NEW answer \in {"yes", "no"}, Reply(answer)
      PROVE  Opened'
  <2>1. PICK row \in Scripts[s] : Call(row)
    BY <1>3 DEF Reply
  <2>2. s \in Names
    BY <1>3 DEF Reply, Answerable, Scripted
  <2>3. \A i \in DOMAIN rest' : rest'[i].op \in Windows => s \in Windowed
    BY <2>1, <2>2, CallOpens DEF Call
  <2>. QED BY <1>3, <2>3 DEF Reply, Answerable, Opened
<1>4. CASE Effect
  <2>1. CASE OpenWindow
    BY <2>1, TailOpens DEF OpenWindow, Opened, Windows, Ops, Next1
  <2>2. CASE OpenShopWindow
    BY <2>2, TailOpens DEF OpenShopWindow, Opened, Windows, Ops, Next1
  <2>3. CASE DisposeCm
    BY <2>3, TailOpens DEF DisposeCm, Disposed, Opened, Ops, Next1
  <2>4. CASE OpenOther
    BY <2>4, TailOpens DEF OpenOther, Opened, Ops, Next1
  <2>5. CASE Ask
    <3>1. UNCHANGED <<s, cms, conv, shop>> /\ Next1("ask")
      BY <2>5 DEF Ask
    <3>. QED BY <3>1, TailOpens DEF Opened, Ops, Next1
  <2>6. CASE SafeDisposeCm \/ ChangeElse
    <3>1. UNCHANGED <<s, cms, conv, shop>> /\ (Next1("pend") \/ Next1("also"))
      BY <2>6 DEF SafeDisposeCm, ChangeElse
    <3>. QED BY <3>1, TailOpens DEF Opened, Ops, Next1
  <2>7. CASE TakeItem \/ TakeAllItems \/ PayMesos \/ EarnMesos \/ GiveItem
    <3>1. PICK op \in Ops : Next1(op)
      BY <2>7 DEF TakeItem, TakeAllItems, PayMesos, EarnMesos, GiveItem, Ops
    <3>2. UNCHANGED <<s, cms, conv, shop>>
      BY <2>7 DEF TakeItem, TakeAllItems, PayMesos, EarnMesos, GiveItem
    <3>. QED BY <3>1, <3>2, TailOpens DEF Opened, Next1
  <2>8. CASE Throw
    BY <2>8 DEF Throw, Opened, Calling
  <2>. QED BY <1>4, <2>1, <2>2, <2>3, <2>4, <2>5, <2>6, <2>7, <2>8 DEF Effect
<1>5. CASE ClickShop
  BY <1>5 DEF ClickShop, Opened, Calling
<1>6. CASE EndChat \/ Unstick \/ OtherEnds
  BY <1>6 DEF EndChat, Unstick, OtherEnds, Disposed, Opened, Calling
<1>7. CASE CloseWindow
  BY <1>7 DEF CloseWindow, Opened, Calling
<1>8. CASE CloseShop
  BY <1>8 DEF CloseShop, Opened, Calling
<1>9. CASE Forget
  BY <1>9 DEF Forget, Opened, Calling
<1>. QED BY <1>1, <1>2, <1>3, <1>4, <1>5, <1>6, <1>7, <1>8, <1>9 DEF Next

\* Whatever the tables say, a cm survives the conversation it belongs to only if its
\* script opens a window or a shop: sendStorage, openDuey, openMerchantItemStore and
\* openShop are the only ways into that trap.
THEOREM OnlyWindowsTrap == Spec => []TrappedByWindow
<1>1. Init => Opened
  BY DEF Init, Opened, Calling
<1>2. Opened => TrappedByWindow
  BY DEF Opened, TrappedByWindow
<1>. QED BY <1>1, <1>2, OpenedStep, ScriptedAlways, PTL DEF Spec
--------------------------------------------------------------------------------
(* What is left of a call, when its first effect does not throw.              *)

LEMMA TailIs ==
  ASSUME NEW do \in Seq(Effects), do # <<>>
  PROVE  /\ do[1] \in Effects /\ 1 \in DOMAIN do /\ Head(do) = do[1]
         /\ Tail(do) \in Seq(Effects)
         /\ \A i \in DOMAIN Tail(do) : i + 1 \in DOMAIN do /\ Tail(do)[i] = do[i + 1]
         /\ \A i \in DOMAIN do : i # 1 => i - 1 \in DOMAIN Tail(do)
         /\ DOMAIN do \subseteq Nat \ {0} /\ DOMAIN Tail(do) \subseteq Nat \ {0}
OBVIOUS

\* What is reached later is reached in the tail, and the reverse.
LEMMA TailReached ==
  ASSUME NEW do \in Seq(Effects), do # <<>>, do[1].op # "fail", NEW i \in DOMAIN Tail(do)
  PROVE  Reached(Tail(do), i) <=> Reached(do, i + 1)
<1>. DEFINE rs == Tail(do)
<1>0. i \in Nat \ {0}
  BY TailIs
<1>1. ASSUME NEW j \in 1 .. i - 1
      PROVE  rs[j] = do[j + 1] /\ j + 1 \in 1 .. i
  <2>1. j \in DOMAIN rs
    BY <1>0, i \in DOMAIN rs
  <2>. QED BY <1>0, <2>1, TailIs
<1>2. ASSUME Reached(do, i + 1)
      PROVE  Reached(rs, i)
  BY <1>0, <1>1, <1>2 DEF Reached
<1>3. ASSUME Reached(rs, i), NEW j \in 1 .. i
      PROVE  do[j].op # "fail"
  <2>1. CASE j = 1
    BY <2>1
  <2>2. CASE j # 1
    <3>1. j - 1 \in 1 .. i - 1 /\ (j - 1) + 1 = j
      BY <1>0, <2>2
    <3>2. rs[j - 1].op # "fail" /\ rs[j - 1] = do[j]
      BY <1>1, <1>3, <3>1 DEF Reached
    <3>. QED BY <3>2
  <2>. QED BY <2>1, <2>2
<1>4. 1 .. (i + 1) - 1 = 1 .. i
  BY <1>0
<1>. QED BY <1>2, <1>3, <1>4 DEF Reached

LEMMA TailDoes ==
  ASSUME NEW do \in Seq(Effects), do # <<>>, do[1].op # "fail", NEW E
  PROVE  Does(do, E) <=> do[1] \in E \/ Does(Tail(do), E)
<1>. DEFINE rs == Tail(do)
<1>1. ASSUME do[1] \in E
      PROVE  Does(do, E)
  <2>1. Reached(do, 1)
    BY DEF Reached
  <2>. QED BY <1>1, <2>1, TailIs DEF Does
<1>2. ASSUME Does(rs, E)
      PROVE  Does(do, E)
  <2>1. PICK i \in DOMAIN rs : rs[i] \in E /\ Reached(rs, i)
    BY <1>2 DEF Does
  <2>2. i + 1 \in DOMAIN do /\ do[i + 1] \in E /\ Reached(do, i + 1)
    BY <2>1, TailIs, TailReached
  <2>. QED BY <2>2 DEF Does
<1>3. ASSUME Does(do, E), do[1] \notin E
      PROVE  Does(rs, E)
  <2>1. PICK i \in DOMAIN do : do[i] \in E /\ Reached(do, i)
    BY <1>3 DEF Does
  <2>2. i # 1 /\ i \in Nat
    BY <1>3, <2>1, TailIs
  <2>3. i - 1 \in DOMAIN rs /\ (i - 1) + 1 = i
    BY <2>2, TailIs
  <2>4. rs[i - 1] = do[i] /\ Reached(rs, i - 1)
    BY <2>1, <2>3, TailIs, TailReached
  <2>. QED BY <2>1, <2>3, <2>4 DEF Does
<1>. QED BY <1>1, <1>2, <1>3

\* A call that throws now comes to nothing more; and a call that is over to nothing at all.
LEMMA NothingDone ==
  ASSUME NEW do \in Seq(Effects), NEW E,
         do = <<>> \/ (do[1].op = "fail" /\ \A e \in E : e.op # "fail")
  PROVE  ~Does(do, E)
<1>1. CASE do = <<>>
  BY <1>1 DEF Does
<1>2. ASSUME do # <<>>, do[1].op = "fail", \A e \in E : e.op # "fail",
             NEW i \in DOMAIN do, do[i] \in E, Reached(do, i)
      PROVE  FALSE
  <2>1. i # 1 /\ i \in Nat \ {0}
    BY <1>2, TailIs
  <2>2. 1 \in 1 .. i - 1
    BY <2>1
  <2>. QED BY <1>2, <2>2 DEF Reached
<1>. QED BY <1>1, <1>2 DEF Does

\* A call is judged by its tail as by itself.
LEMMA TailSaysOnce ==
  ASSUME NEW do \in Seq(Effects), do # <<>>, do[1].op # "fail", SaysOnce(do)
  PROVE  /\ SaysOnce(Tail(do))
         /\ do[1].op = "ask" => ~Does(Tail(do), Of({"ask"}))
<1>. DEFINE rs == Tail(do)
<1>1. ASSUME NEW i \in DOMAIN rs, NEW j \in DOMAIN rs,
             i < j, rs[i].op = "ask", rs[j].op = "ask", Reached(rs, j)
      PROVE  FALSE
  <2>1. /\ i + 1 \in DOMAIN do /\ j + 1 \in DOMAIN do /\ i + 1 < j + 1
        /\ do[i + 1].op = "ask" /\ do[j + 1].op = "ask"
    BY <1>1, TailIs
  <2>2. Reached(do, j + 1)
    BY <1>1, TailReached
  <2>. QED BY <2>1, <2>2 DEF SaysOnce
<1>2. ASSUME do[1].op = "ask", NEW j \in DOMAIN rs, rs[j] \in Of({"ask"}), Reached(rs, j)
      PROVE  FALSE
  <2>1. 1 \in DOMAIN do /\ j + 1 \in DOMAIN do /\ 1 < j + 1 /\ do[j + 1].op = "ask"
    BY <1>2, TailIs DEF Of
  <2>2. Reached(do, j + 1)
    BY <1>2, TailReached
  <2>. QED BY <1>2, <2>1, <2>2 DEF SaysOnce
<1>. QED BY <1>1, <1>2 DEF SaysOnce, Does

LEMMA TailOpensLast ==
  ASSUME NEW do \in Seq(Effects), do # <<>>, do[1].op # "fail", OpensLast(do)
  PROVE  /\ OpensLast(Tail(do))
         /\ do[1].op = "open" => ~Does(Tail(do), Of({"open", "dispose"}))
<1>. DEFINE rs == Tail(do)
<1>1. ASSUME NEW i \in DOMAIN rs, NEW j \in DOMAIN rs,
             i < j, rs[i].op = "open", rs[j].op \in {"open", "dispose"}, Reached(rs, j)
      PROVE  FALSE
  <2>1. /\ i + 1 \in DOMAIN do /\ j + 1 \in DOMAIN do /\ i + 1 < j + 1
        /\ do[i + 1].op = "open" /\ do[j + 1].op \in {"open", "dispose"}
    BY <1>1, TailIs
  <2>2. Reached(do, j + 1)
    BY <1>1, TailReached
  <2>. QED BY <2>1, <2>2 DEF OpensLast
<1>2. ASSUME do[1].op = "open", NEW j \in DOMAIN rs, rs[j] \in Of({"open", "dispose"}), Reached(rs, j)
      PROVE  FALSE
  <2>1. /\ 1 \in DOMAIN do /\ j + 1 \in DOMAIN do /\ 1 < j + 1
        /\ do[j + 1].op \in {"open", "dispose"}
    BY <1>2, TailIs DEF Of
  <2>2. Reached(do, j + 1)
    BY <1>2, TailReached
  <2>. QED BY <1>2, <2>1, <2>2 DEF OpensLast
<1>. QED BY <1>1, <1>2 DEF OpensLast, Does

LEMMA TailHandsOver ==
  ASSUME NEW do \in Seq(Effects), do # <<>>, do[1].op # "fail", HandsOver(do)
  PROVE  /\ do[1].op # "open"
         /\ do[1].op # "dispose" => HandsOver(Tail(do))
<1>. DEFINE rs == Tail(do)
<1>1. ASSUME do[1].op = "open"
      PROVE  FALSE
  <2>1. Reached(do, 1) /\ 1 \in DOMAIN do
    BY TailIs DEF Reached
  <2>. QED BY <1>1, <2>1 DEF HandsOver
<1>2. ASSUME do[1].op # "dispose", NEW j \in DOMAIN rs, rs[j].op = "open", Reached(rs, j)
      PROVE  \E i \in 1 .. j - 1 : rs[i].op = "dispose"
  <2>1. j + 1 \in DOMAIN do /\ do[j + 1].op = "open" /\ Reached(do, j + 1) /\ j \in Nat \ {0}
    BY <1>2, TailIs, TailReached
  <2>2. PICK i \in 1 .. (j + 1) - 1 : do[i].op = "dispose"
    BY <2>1 DEF HandsOver
  <2>3. i - 1 \in 1 .. j - 1 /\ (i - 1) + 1 = i
    BY <1>2, <2>1, <2>2
  <2>4. i - 1 \in DOMAIN rs
    BY <2>1, <2>3, j \in DOMAIN rs
  <2>5. rs[i - 1].op = "dispose"
    BY <2>2, <2>3, <2>4, TailIs
  <2>. QED BY <2>3, <2>5
<1>3. OpensLast(rs)
  BY TailOpensLast DEF HandsOver
<1>. QED BY <1>1, <1>2, <1>3 DEF HandsOver

\* A call that is over satisfies them all.
LEMMA OverIsFine == SaysOnce(<<>>) /\ OpensLast(<<>>) /\ HandsOver(<<>>)
BY DEF SaysOnce, OpensLast, HandsOver

--------------------------------------------------------------------------------
(* The effects, by what they leave to do and whom they leave in charge.       *)

\* An effect that moves items and mesos, or waits for the end of the call.
Quiet ==
  /\ rest[1].op \in {"pend", "take", "takeall", "pay", "earn", "give", "also"}
  /\ UNCHANGED <<s, cms, last, conv, shop>>
  /\ marks' \subseteq marks \cup {"short", "paid", "got", "missed", "looked"}

LEMMA NextOne ==
  ASSUME Scripted, NEW op, Next1(op)
  PROVE  rest \in Seq(Effects) /\ rest # <<>> /\ rest[1] = Arg /\ rest[1].op = op /\ rest' = Tail(rest)
BY DEF Scripted, TypeOK, Next1, Calling, Arg

LEMMA QuietOnes ==
  ASSUME Scripted, SafeDisposeCm \/ TakeItem \/ TakeAllItems \/ PayMesos \/ EarnMesos \/ GiveItem \/ ChangeElse
  PROVE  Quiet /\ rest # <<>> /\ rest' = Tail(rest)
<1>1. CASE SafeDisposeCm
  BY <1>1, NextOne DEF SafeDisposeCm, Quiet
<1>2. CASE TakeItem
  <2>1. Next1("take") /\ UNCHANGED <<s, at, cms, last, pend, conv, shop>>
    BY <1>2 DEF TakeItem
  <2>2. marks' \subseteq marks \cup {"short", "paid", "got", "missed", "looked"}
    BY <1>2 DEF TakeItem
  <2>. QED BY <2>1, <2>2, NextOne DEF Quiet
<1>3. CASE TakeAllItems
  <2>1. Next1("takeall") /\ UNCHANGED <<s, at, cms, last, pend, conv, shop, marks>>
    BY <1>3 DEF TakeAllItems
  <2>. QED BY <2>1, NextOne DEF Quiet
<1>4. CASE PayMesos
  <2>1. Next1("pay") /\ UNCHANGED <<s, at, cms, last, pend, conv, shop>>
    BY <1>4 DEF PayMesos
  <2>2. marks' \subseteq marks \cup {"short", "paid", "got", "missed", "looked"}
    BY <1>4 DEF PayMesos
  <2>. QED BY <2>1, <2>2, NextOne DEF Quiet
<1>5. CASE EarnMesos
  BY <1>5, NextOne DEF EarnMesos, Quiet
<1>6. CASE GiveItem
  <2>1. Next1("give") /\ UNCHANGED <<s, at, cms, last, pend, conv, shop>>
    BY <1>6 DEF GiveItem
  <2>2. marks' \subseteq marks \cup {"short", "paid", "got", "missed", "looked"}
    BY <1>6 DEF GiveItem
  <2>. QED BY <2>1, <2>2, NextOne DEF Quiet
<1>7. CASE ChangeElse
  BY <1>7, NextOne DEF ChangeElse, Quiet
<1>. QED BY <1>1, <1>2, <1>3, <1>4, <1>5, <1>6, <1>7

\* Every effect is one of these.
LEMMA EffectIs ==
  ASSUME Scripted, Effect
  PROVE  /\ rest \in Seq(Effects) /\ rest # <<>> /\ rest[1] = Arg /\ s' = s
         /\ \/ Throw
            \/ Ask /\ rest[1].op = "ask"
            \/ DisposeCm /\ rest[1].op = "dispose"
            \/ OpenOther /\ rest[1].op = "open"
            \/ OpenWindow /\ rest[1].op = "window"
            \/ OpenShopWindow /\ rest[1].op = "shop"
            \/ Quiet
         /\ ~Throw => rest[1].op # "fail" /\ rest' = Tail(rest)
<1>1. CASE Throw
  BY <1>1 DEF Throw, Calling, Arg, Scripted, TypeOK
<1>2. CASE Ask
  BY <1>2, NextOne DEF Ask
<1>3. CASE DisposeCm
  BY <1>3, NextOne DEF DisposeCm
<1>4. CASE OpenOther
  BY <1>4, NextOne DEF OpenOther
<1>5. CASE OpenWindow
  BY <1>5, NextOne DEF OpenWindow
<1>6. CASE OpenShopWindow
  BY <1>6, NextOne DEF OpenShopWindow
<1>7. CASE SafeDisposeCm \/ TakeItem \/ TakeAllItems \/ PayMesos \/ EarnMesos \/ GiveItem \/ ChangeElse
  <2>1. Quiet /\ rest # <<>> /\ rest' = Tail(rest)
    BY <1>7, QuietOnes
  <2>2. rest \in Seq(Effects) /\ rest[1] = Arg
    BY <2>1 DEF Scripted, TypeOK, Arg
  <2>. QED BY <2>1, <2>2 DEF Quiet
<1>. QED BY <1>1, <1>2, <1>3, <1>4, <1>5, <1>6, <1>7 DEF Effect

\* A call of s: what a row of its table does, with a new slate.
LEMMA CallIs ==
  ASSUME Scripted, \/ \E x \in Names : Open(x)
                   \/ \E answer \in {"yes", "no"} : Reply(answer)
  PROVE  /\ s' \in Names /\ last' = None /\ cms' = "mine" /\ marks' = {}
         /\ \E row \in Scripts[s'] : rest' = row.do
<1>1. ASSUME NEW x \in Names, Open(x)
      PROVE  /\ s' \in Names /\ last' = None /\ cms' = "mine" /\ marks' = {}
             /\ \E row \in Scripts[s'] : rest' = row.do
  <2>1. PICK row \in Scripts[x] : Call(row)
    BY <1>1 DEF Open
  <2>2. s' = x /\ last' = None /\ cms' = "mine"
    BY <1>1 DEF Open
  <2>. QED BY <2>1, <2>2 DEF Call
<1>2. ASSUME NEW answer \in {"yes", "no"}, Reply(answer)
      PROVE  /\ s' \in Names /\ last' = None /\ cms' = "mine" /\ marks' = {}
             /\ \E row \in Scripts[s'] : rest' = row.do
  <2>1. PICK row \in Scripts[s] : Call(row)
    BY <1>2 DEF Reply
  <2>2. s' = s /\ last' = None /\ cms' = cms /\ cms = "mine"
    BY <1>2 DEF Reply, Answerable
  <2>. QED BY <2>1, <2>2 DEF Call, Scripted
<1>. QED BY <1>1, <1>2

\* Between calls nothing is left to do, and nothing comes of it.
LEMMA Between ==
  ASSUME Scripted, ~Calling
  PROVE  rest = <<>> /\ \A E : ~Does(rest, E)
<1>1. rest = <<>>
  BY DEF Calling
<1>. QED BY <1>1 DEF Does

LEMMA OfFail ==
  ASSUME NEW ops, "fail" \notin ops
  PROVE  \A e \in Of(ops) : e.op # "fail"
BY DEF Of

LEMMA GoingFail == \A e \in Going : e.op \in {"ask", "dispose", "shop", "window"}
BY DEF Going, Of

--------------------------------------------------------------------------------
(* Who answers the player.                                                    *)

\* While s's cm holds the talk, a dialogue waits or something is to come.
Answered ==
  (s \notin Mute /\ cms = "mine" /\ Talking) => (last # None \/ Does(rest, Going))

LEMMA AnsweredStep == Scripted /\ Answered /\ [Next]_vars => Answered'
<1>. SUFFICES ASSUME Scripted, Answered, [Next]_vars
              PROVE  Answered'
  OBVIOUS
<1>1. CASE UNCHANGED vars
  BY <1>1 DEF vars, Answered, Talking
<1>2. CASE \/ \E x \in Names : Open(x)
           \/ \E answer \in {"yes", "no"} : Reply(answer)
  <2>1. s' \in Names /\ \E row \in Scripts[s'] : rest' = row.do
    BY <1>2, CallIs
  <2>2. s' \notin Mute => Does(rest', Going)
    BY <2>1, MuteAssumption
  <2>. QED BY <2>2 DEF Answered
<1>3. CASE Effect
  <2>0. /\ rest \in Seq(Effects) /\ rest # <<>> /\ rest[1] = Arg /\ s' = s
        /\ ~Throw => rest[1].op # "fail" /\ rest' = Tail(rest)
    BY <1>3, EffectIs
  <2>00. rest[1] \in Effects
    BY <2>0, TailIs
  <2>1. ASSUME ~Throw, rest[1] \notin Going
        PROVE  Does(rest, Going) <=> Does(rest', Going)
    BY <2>0, <2>1, TailDoes
  <2>2. CASE Throw
    <3>1. rest[1].op = "fail"
      BY <2>0, <2>2 DEF Throw
    <3>2. ~Does(rest, Going)
      BY <2>0, <3>1, NothingDone, GoingFail
    <3>3. UNCHANGED <<s, cms, last, conv, shop>>
      BY <2>2 DEF Throw
    <3>. QED BY <3>2, <3>3 DEF Answered, Talking
  <2>3. CASE Ask /\ rest[1].op = "ask"
    <3>1. Arg.kind # None
      BY <2>0, <2>00, <2>3, NoneAssumption DEF Effects
    <3>. QED BY <2>3, <3>1 DEF Ask, Answered
  <2>4. CASE DisposeCm
    BY <2>4 DEF DisposeCm, Disposed, Answered
  <2>5. CASE OpenOther /\ rest[1].op = "open"
    <3>1. rest[1] \notin Going /\ ~Throw
      BY <2>0, <2>5, GoingFail DEF Throw
    <3>2. cms' = "mine" => UNCHANGED <<s, cms, last, conv, shop>>
      BY <2>5 DEF OpenOther
    <3>. QED BY <2>1, <3>1, <3>2 DEF Answered, Talking
  <2>6. CASE OpenWindow /\ rest[1].op = "window"
    <3>1. conv' \in IF rest[1].n = 2 THEN {2} ELSE {rest[1].n, conv}
      BY <2>0, <2>6 DEF OpenWindow
    <3>2. rest[1].n \in 2 .. 4
      BY <2>00, <2>6 DEF Effects
    <3>3. conv' = 1 => conv = 1 /\ rest[1].n # 2
      BY <3>1, <3>2
    <3>4. UNCHANGED <<s, cms, last, shop>>
      BY <2>6 DEF OpenWindow
    <3>5. rest[1].n # 2 => rest[1] \notin Going /\ ~Throw
      BY <2>0, <2>6 DEF Going, Of, Throw
    <3>. QED BY <2>1, <3>3, <3>4, <3>5 DEF Answered, Talking
  <2>7. CASE OpenShopWindow
    BY <2>7 DEF OpenShopWindow, Answered, Talking
  <2>8. CASE Quiet
    <3>1. rest[1] \notin Going /\ ~Throw
      BY <2>0, <2>8, GoingFail DEF Throw, Quiet
    <3>2. UNCHANGED <<s, cms, last, conv, shop>>
      BY <2>8 DEF Quiet
    <3>. QED BY <2>1, <3>1, <3>2 DEF Answered, Talking
  <2>. QED BY <1>3, <2>2, <2>3, <2>4, <2>5, <2>6, <2>7, <2>8, EffectIs
<1>4. CASE ClickShop
  BY <1>4 DEF ClickShop, Answered, Talking
<1>5. CASE EndChat \/ Unstick \/ OtherEnds
  BY <1>5 DEF EndChat, Unstick, OtherEnds, Disposed, Answered
<1>6. CASE CloseWindow \/ CloseShop
  BY <1>6 DEF CloseWindow, CloseShop, Answered, Talking
<1>7. CASE Forget
  BY <1>7 DEF Forget, Answered
<1>. QED BY <1>1, <1>2, <1>3, <1>4, <1>5, <1>6, <1>7 DEF Next

\* Once a window or a shop is up or to come, the cm is gone or will go, for good.
LetGo ==
  s \notin Trapping =>
    /\ conv = 0 => cms = "none"
    /\ conv \notin {0, 1} \/ shop \/ Does(rest, Of({"window", "shop"})) =>
         /\ ~Does(rest, Of({"open"}))
         /\ cms = "none" \/ Does(rest, Of({"dispose"}))

LEMMA LetGoStep == Scripted /\ LetGo /\ [Next]_vars => LetGo'
<1>. SUFFICES ASSUME Scripted, LetGo, [Next]_vars
              PROVE  LetGo'
  OBVIOUS
<1>1. CASE UNCHANGED vars
  BY <1>1 DEF vars, LetGo
<1>2. ASSUME NEW x \in Names, Open(x)
      PROVE  LetGo'
  <2>1. s' \in Names /\ \E row \in Scripts[s'] : rest' = row.do
    BY <1>2, CallIs
  <2>2. s' \notin Trapping => LetsGo(rest')
    BY <2>1, TrappingAssumption
  <2>3. conv' = 1 /\ ~shop'
    BY <1>2 DEF Open
  <2>. QED BY <2>2, <2>3 DEF LetGo, LetsGo
<1>3. ASSUME NEW answer \in {"yes", "no"}, Reply(answer)
      PROVE  LetGo'
  <2>1. s' \in Names /\ \E row \in Scripts[s'] : rest' = row.do
    BY <1>3, CallIs
  <2>2. s' \notin Trapping => LetsGo(rest')
    BY <2>1, TrappingAssumption
  <2>3. UNCHANGED <<s, conv, shop, cms>> /\ cms = "mine" /\ conv # 0 /\ ~Calling
    BY <1>3 DEF Reply, Answerable
  <2>4. ~Does(rest, Of({"dispose"}))
    BY <2>3, Between
  <2>5. s \notin Trapping => conv = 1 /\ ~shop
    BY <2>3, <2>4 DEF LetGo
  <2>. QED BY <2>2, <2>3, <2>5 DEF LetGo, LetsGo
<1>4. CASE Effect
  <2>0. /\ rest \in Seq(Effects) /\ rest # <<>> /\ rest[1] = Arg /\ s' = s
        /\ ~Throw => rest[1].op # "fail" /\ rest' = Tail(rest)
    BY <1>4, EffectIs
  <2>00. rest[1] \in Effects
    BY <2>0, TailIs
  <2>1. ASSUME NEW ops, ~Throw
        PROVE  Does(rest, Of(ops)) <=> rest[1].op \in ops \/ Does(rest', Of(ops))
    <3>1. rest[1] \in Of(ops) <=> rest[1].op \in ops
      BY <2>00 DEF Of
    <3>. QED BY <2>0, <2>1, <3>1, TailDoes
  <2>2. CASE Throw
    <3>1. rest[1].op = "fail" /\ rest' = <<>> /\ UNCHANGED <<s, cms, conv, shop>>
      BY <2>0, <2>2 DEF Throw
    <3>2. /\ ~Does(rest, Of({"window", "shop"})) /\ ~Does(rest, Of({"open"}))
          /\ ~Does(rest, Of({"dispose"}))
      BY <2>0, <3>1, NothingDone, OfFail
    <3>3. \A E : ~Does(rest', E)
      BY <3>1 DEF Does
    <3>. QED BY <3>1, <3>2, <3>3 DEF LetGo
  <2>3. CASE (Ask /\ rest[1].op = "ask") \/ Quiet
    <3>1. rest[1].op \notin {"window", "shop", "open", "dispose", "fail"}
      BY <2>3 DEF Quiet
    <3>2. ~Throw /\ UNCHANGED <<s, cms, conv, shop>>
      BY <2>0, <2>3, <3>1 DEF Throw, Ask, Quiet
    <3>3. /\ Does(rest, Of({"window", "shop"})) <=> Does(rest', Of({"window", "shop"}))
          /\ Does(rest, Of({"open"})) <=> Does(rest', Of({"open"}))
          /\ Does(rest, Of({"dispose"})) <=> Does(rest', Of({"dispose"}))
      BY <2>1, <3>1, <3>2
    <3>. QED BY <3>2, <3>3 DEF LetGo
  <2>4. CASE DisposeCm /\ rest[1].op = "dispose"
    <3>1. ~Throw
      BY <2>0, <2>4 DEF Throw
    <3>2. /\ Does(rest, Of({"window", "shop"})) <=> Does(rest', Of({"window", "shop"}))
          /\ Does(rest, Of({"open"})) <=> Does(rest', Of({"open"}))
      BY <2>1, <2>4, <3>1
    <3>3. cms' = "none" /\ UNCHANGED <<s, shop>> /\ (conv' \notin {0, 1} => conv' = conv)
      BY <2>4 DEF DisposeCm, Disposed
    <3>. QED BY <3>2, <3>3 DEF LetGo
  <2>5. CASE OpenOther /\ rest[1].op = "open"
    <3>1. ~Throw
      BY <2>0, <2>5 DEF Throw
    <3>2. /\ Does(rest, Of({"open"}))
          /\ Does(rest, Of({"window", "shop"})) <=> Does(rest', Of({"window", "shop"}))
      BY <2>1, <2>5, <3>1
    <3>3. UNCHANGED <<s, shop>> /\ (conv' = 1 \/ UNCHANGED <<cms, conv>>)
      BY <2>5 DEF OpenOther
    <3>. QED BY <3>2, <3>3 DEF LetGo
  <2>6. CASE (OpenWindow /\ rest[1].op = "window") \/ (OpenShopWindow /\ rest[1].op = "shop")
    <3>1. ~Throw
      BY <2>0, <2>6 DEF Throw
    <3>2. /\ Does(rest, Of({"window", "shop"}))
          /\ Does(rest, Of({"open"})) <=> Does(rest', Of({"open"}))
          /\ Does(rest, Of({"dispose"})) <=> Does(rest', Of({"dispose"}))
      BY <2>1, <2>6, <3>1
    <3>3. UNCHANGED <<s, cms>>
      BY <2>6 DEF OpenWindow, OpenShopWindow
    <3>4. conv' = 0 => conv = 0
      <4>1. CASE OpenWindow /\ rest[1].op = "window"
        <5>1. conv' \in IF rest[1].n = 2 THEN {2} ELSE {rest[1].n, conv}
          BY <2>0, <4>1 DEF OpenWindow
        <5>2. rest[1].n \in 2 .. 4
          BY <2>00, <4>1 DEF Effects
        <5>. QED BY <5>1, <5>2
      <4>2. CASE OpenShopWindow
        BY <4>2 DEF OpenShopWindow
      <4>. QED BY <2>6, <4>1, <4>2
    <3>. QED BY <3>2, <3>3, <3>4 DEF LetGo
  <2>. QED BY <1>4, <2>2, <2>3, <2>4, <2>5, <2>6, EffectIs
<1>5. CASE ClickShop
  <2>1. /\ cms' = "none" /\ conv' = 1 /\ rest' = rest /\ ~Does(rest, Of({"open"}))
    BY <1>5, Between DEF ClickShop
  <2>. QED BY <2>1 DEF LetGo
<1>6. CASE EndChat \/ Unstick \/ OtherEnds
  <2>1. cms' = "none" /\ rest' = rest /\ ~Does(rest, Of({"open"}))
    BY <1>6, Between DEF EndChat, Unstick, OtherEnds, Disposed, Answerable
  <2>. QED BY <2>1 DEF LetGo
<1>7. CASE CloseWindow \/ CloseShop
  <2>1. /\ conv \notin {0, 1} \/ shop
        /\ UNCHANGED <<s, cms, rest>> /\ ~Calling /\ conv' = 0
    BY <1>7 DEF CloseWindow, CloseShop
  <2>2. ~Does(rest, Of({"open"})) /\ ~Does(rest, Of({"dispose"}))
    BY <2>1, Between
  <2>. QED BY <2>1, <2>2 DEF LetGo
<1>8. CASE Forget
  <2>1. cms' = "none" /\ rest' = rest /\ ~Does(rest, Of({"open"}))
    BY <1>8, Between DEF Forget
  <2>. QED BY <2>1 DEF LetGo
<1>. QED BY <1>1, <1>2, <1>3, <1>4, <1>5, <1>6, <1>7, <1>8 DEF Next

\* Whatever order clicks, answers, windows and commands come in, a script whose every row
\* ends in a dialogue, a dispose(), a shop or a delivery leaves nobody talking to no one,
\* and one whose every row with a window has a dispose() leaves no cm behind
\* (NPCScriptManager.start, dispose; sendStorage, openShop).
THEOREM NeverStuckHolds == Spec => []NeverStuck
<1>1. Init => Answered /\ LetGo
  <2>1. ASSUME Init
        PROVE  cms = "none" /\ rest = <<>>
    BY <2>1 DEF Init
  <2>2. ASSUME rest = <<>>
        PROVE  ~Does(rest, Of({"open"}))
    BY <2>2 DEF Does
  <2>. QED BY <2>1, <2>2 DEF Answered, LetGo
<1>2. Scripted /\ Answered /\ LetGo => NeverStuck
  BY Between DEF Answered, LetGo, NeverStuck
<1>. QED BY <1>1, <1>2, AnsweredStep, LetGoStep, ScriptedAlways, PTL DEF Spec

--------------------------------------------------------------------------------
(* What the player is told.                                                   *)

\* A call has one dialogue to send, and none while one waits.
Silent ==
  s \notin Talkative =>
    /\ "unsaid" \notin marks /\ SaysOnce(rest)
    /\ last # None /\ Calling => ~Does(rest, Of({"ask"}))

LEMMA SilentStep == Scripted /\ Silent /\ [Next]_vars => Silent'
<1>. SUFFICES ASSUME Scripted, Silent, [Next]_vars
              PROVE  Silent'
  OBVIOUS
<1>1. CASE UNCHANGED vars
  BY <1>1 DEF vars, Silent, Calling
<1>2. CASE \/ \E x \in Names : Open(x)
           \/ \E answer \in {"yes", "no"} : Reply(answer)
  <2>1. /\ s' \in Names /\ last' = None /\ marks' = {}
        /\ \E row \in Scripts[s'] : rest' = row.do
    BY <1>2, CallIs
  <2>2. s' \notin Talkative => SaysOnce(rest')
    BY <2>1, TalkativeAssumption
  <2>. QED BY <2>1, <2>2 DEF Silent
<1>3. CASE Effect
  <2>0. /\ rest \in Seq(Effects) /\ rest # <<>> /\ rest[1] = Arg /\ s' = s /\ Calling
        /\ ~Throw => rest[1].op # "fail" /\ rest' = Tail(rest)
    BY <1>3, EffectIs DEF Calling
  <2>1. CASE Throw
    <3>1. rest' = <<>> /\ UNCHANGED <<s, marks>>
      BY <2>1 DEF Throw
    <3>2. SaysOnce(rest') /\ ~Does(rest', Of({"ask"}))
      BY <3>1, OverIsFine DEF Does
    <3>. QED BY <3>1, <3>2 DEF Silent
  <2>2. CASE Ask /\ rest[1].op = "ask"
    <3>1. ~Throw
      BY <2>0, <2>2 DEF Throw
    <3>2. rest[1] \in Of({"ask"})
      BY <2>0, <2>2, TailIs DEF Of
    <3>3. Does(rest, Of({"ask"}))
      BY <2>0, <3>1, <3>2, TailDoes
    <3>4. s \notin Talkative => last = None /\ "unsaid" \notin marks /\ SaysOnce(rest)
      BY <2>0, <3>3 DEF Silent
    <3>5. SaysOnce(rest) => SaysOnce(rest') /\ ~Does(rest', Of({"ask"}))
      BY <2>0, <2>2, <3>1, TailSaysOnce
    <3>6. last = None => marks' = marks
      BY <2>2 DEF Ask
    <3>. QED BY <2>0, <3>4, <3>5, <3>6 DEF Silent
  <2>3. ASSUME ~Throw, ~(Ask /\ rest[1].op = "ask")
        PROVE  /\ last' = last
               /\ "unsaid" \in marks' => "unsaid" \in marks
    <3>1. \/ DisposeCm \/ OpenOther \/ OpenWindow \/ OpenShopWindow \/ Quiet
      BY <1>3, <2>3, EffectIs
    <3>2. CASE DisposeCm
      BY <3>2 DEF DisposeCm
    <3>3. CASE OpenOther
      BY <3>3 DEF OpenOther
    <3>4. CASE OpenWindow \/ OpenShopWindow
      BY <3>4 DEF OpenWindow, OpenShopWindow
    <3>5. CASE Quiet
      BY <3>5 DEF Quiet
    <3>. QED BY <3>1, <3>2, <3>3, <3>4, <3>5
  <2>4. ASSUME ~Throw, ~(Ask /\ rest[1].op = "ask")
        PROVE  Silent'
    <3>1. SaysOnce(rest) => SaysOnce(rest')
      BY <2>0, <2>4, TailSaysOnce
    <3>2. Does(rest', Of({"ask"})) => Does(rest, Of({"ask"}))
      BY <2>0, <2>4, TailDoes
    <3>. QED BY <2>0, <2>3, <2>4, <3>1, <3>2 DEF Silent
  <2>. QED BY <2>1, <2>2, <2>4
<1>4. ASSUME ~Calling, UNCHANGED rest, marks' \in {marks, {}}, SaysOnce(<<>>),
             s' = s \/ marks' = {}
      PROVE  Silent'
  <2>1. rest' = <<>> /\ ~Calling'
    BY <1>4 DEF Calling
  <2>2. SaysOnce(rest')
    BY <1>4, <2>1
  <2>. QED BY <1>4, <2>1, <2>2 DEF Silent
<1>5. CASE ClickShop \/ EndChat \/ CloseWindow \/ CloseShop \/ Unstick \/ OtherEnds \/ Forget
  <2>1. ~Calling /\ UNCHANGED rest /\ marks' \in {marks, {}} /\ (s' = s \/ marks' = {})
    BY <1>5 DEF ClickShop, EndChat, Answerable, CloseWindow, CloseShop, Unstick, OtherEnds, Forget
  <2>. QED BY <1>4, <2>1, OverIsFine
<1>. QED BY <1>1, <1>2, <1>3, <1>5 DEF Next

\* Whatever order clicks, answers and windows come in, no dialogue is swallowed unless a
\* row of the script's own table sends two: none is left over from an earlier call (the
\* check of lastMsg that every send method starts with).
THEOREM AllSaidHolds == Spec => []AllSaid
<1>1. Init => Silent
  <2>1. ASSUME Init
        PROVE  marks = {} /\ rest = <<>> /\ ~Calling
    BY <2>1 DEF Init, Calling
  <2>. QED BY <2>1, OverIsFine DEF Silent
<1>2. Silent => AllSaid
  BY DEF Silent, AllSaid
<1>. QED BY <1>1, <1>2, SilentStep, ScriptedAlways, PTL DEF Spec

--------------------------------------------------------------------------------
(* Who has the cm.                                                            *)

\* A call hands over only what it has let go of, and does not touch what it has handed over.
Handing ==
  /\ marks \cap {"refused", "cut"} = {}
  /\ cms = "mine" => HandsOver(rest)
  /\ cms = "none" => OpensLast(rest)
  /\ cms = "other" => ~Does(rest, Of({"open", "dispose"}))

LEMMA HandingStep == Scripted /\ Handing /\ [Next]_vars => Handing'
<1>. SUFFICES ASSUME Scripted, Handing, [Next]_vars
              PROVE  Handing'
  OBVIOUS
<1>1. CASE UNCHANGED vars
  BY <1>1 DEF vars, Handing
<1>2. CASE \/ \E x \in Names : Open(x)
           \/ \E answer \in {"yes", "no"} : Reply(answer)
  <2>1. /\ s' \in Names /\ cms' = "mine" /\ marks' = {}
        /\ \E row \in Scripts[s'] : rest' = row.do
    BY <1>2, CallIs
  <2>2. HandsOver(rest')
    BY <2>1, OpeningAssumption
  <2>. QED BY <2>1, <2>2 DEF Handing
<1>3. ASSUME rest' = <<>>, marks' \cap {"refused", "cut"} = {}
      PROVE  Handing'
  <2>1. HandsOver(rest') /\ OpensLast(rest') /\ ~Does(rest', Of({"open", "dispose"}))
    BY <1>3, OverIsFine DEF Does
  <2>. QED BY <1>3, <2>1 DEF Handing
<1>4. CASE Effect
  <2>0. /\ rest \in Seq(Effects) /\ rest # <<>> /\ rest[1] = Arg /\ s' = s
        /\ ~Throw => rest[1].op # "fail" /\ rest' = Tail(rest)
    BY <1>4, EffectIs
  <2>00. rest[1] \in Effects
    BY <2>0, TailIs
  <2>1. CASE Throw
    <3>1. rest' = <<>> /\ marks' = marks
      BY <2>1 DEF Throw
    <3>. QED BY <1>3, <3>1 DEF Handing
  <2>2. ASSUME ~Throw
        PROVE  /\ Does(rest', Of({"open", "dispose"})) => Does(rest, Of({"open", "dispose"}))
               /\ rest[1].op \in {"open", "dispose"} => Does(rest, Of({"open", "dispose"}))
               /\ OpensLast(rest) => OpensLast(rest')
               /\ HandsOver(rest) => OpensLast(rest) /\ rest[1].op # "open"
               /\ HandsOver(rest) /\ rest[1].op # "dispose" => HandsOver(rest')
    <3>1. rest[1] \in Of({"open", "dispose"}) <=> rest[1].op \in {"open", "dispose"}
      BY <2>00 DEF Of
    <3>2. Does(rest, Of({"open", "dispose"})) <=>
            rest[1].op \in {"open", "dispose"} \/ Does(rest', Of({"open", "dispose"}))
      BY <2>0, <2>2, <3>1, TailDoes
    <3>3. OpensLast(rest) => OpensLast(rest')
      BY <2>0, <2>2, TailOpensLast
    <3>4. HandsOver(rest) => rest[1].op # "open"
      BY <2>0, <2>2, TailHandsOver
    <3>5. HandsOver(rest) /\ rest[1].op # "dispose" => HandsOver(rest')
      BY <2>0, <2>2, TailHandsOver
    <3>6. HandsOver(rest) => OpensLast(rest)
      BY DEF HandsOver
    <3>. QED BY <3>2, <3>3, <3>4, <3>5, <3>6
  <2>3. CASE DisposeCm /\ rest[1].op = "dispose"
    <3>1. ~Throw /\ cms' = "none"
      BY <2>0, <2>3 DEF Throw, DisposeCm, Disposed
    <3>2. cms # "other"
      BY <2>2, <2>3, <3>1 DEF Handing
    <3>3. OpensLast(rest')
      BY <2>2, <3>1, <3>2 DEF Handing, Scripted, TypeOK
    <3>4. marks' = marks
      BY <2>3, <3>2 DEF DisposeCm
    <3>. QED BY <3>1, <3>3, <3>4 DEF Handing
  <2>4. CASE OpenOther /\ rest[1].op = "open"
    <3>1. ~Throw
      BY <2>0, <2>4 DEF Throw
    <3>2. cms = "none"
      BY <2>2, <2>4, <3>1 DEF Handing, Scripted, TypeOK
    <3>3. cms' = "other" /\ marks' = marks
      BY <2>4, <3>2 DEF OpenOther
    <3>4. ~Does(rest', Of({"open", "dispose"}))
      BY <2>0, <2>4, <3>1, <3>2, TailOpensLast DEF Handing
    <3>. QED BY <3>3, <3>4 DEF Handing
  <2>5. CASE \/ Ask /\ rest[1].op = "ask"
             \/ OpenWindow /\ rest[1].op = "window"
             \/ OpenShopWindow /\ rest[1].op = "shop"
             \/ Quiet
    <3>1. rest[1].op \notin {"open", "dispose", "fail"}
      BY <2>5 DEF Quiet
    <3>2. ~Throw
      BY <2>0, <3>1 DEF Throw
    <3>3. cms' = cms
      BY <2>5 DEF Ask, OpenWindow, OpenShopWindow, Quiet
    <3>4. marks' \cap {"refused", "cut"} \subseteq marks
      BY <2>5 DEF Ask, OpenWindow, OpenShopWindow, Quiet
    <3>5. marks' \cap {"refused", "cut"} = {}
      BY <3>4 DEF Handing
    <3>. QED BY <2>2, <3>1, <3>2, <3>3, <3>5 DEF Handing
  <2>. QED BY <1>4, <2>1, <2>3, <2>4, <2>5, EffectIs
<1>5. CASE ClickShop \/ EndChat \/ CloseWindow \/ CloseShop \/ Unstick \/ OtherEnds \/ Forget
  <2>1. ~Calling /\ UNCHANGED rest /\ marks' \in {marks, {}}
    BY <1>5 DEF ClickShop, EndChat, Answerable, CloseWindow, CloseShop, Unstick, OtherEnds, Forget
  <2>2. rest' = <<>> /\ marks' \cap {"refused", "cut"} = {}
    BY <2>1 DEF Calling, Handing
  <2>. QED BY <1>3, <2>2
<1>. QED BY <1>1, <1>2, <1>4, <1>5 DEF Next

\* Whatever order clicks, answers and windows come in, no script is refused the other one
\* it opens, and none disposes of the one it opened: each has let go of its own cm by then
\* (AbstractPlayerInteraction.openNpc, NPCScriptManager.dispose).
THEOREM HandedOverHolds == Spec => []HandedOver
<1>1. Init => Handing
  <2>1. ASSUME Init
        PROVE  marks = {} /\ rest = <<>> /\ cms = "none"
    BY <2>1 DEF Init
  <2>. QED BY <2>1, OverIsFine DEF Handing
<1>2. Handing => HandedOver
  BY DEF Handing, HandedOver
<1>. QED BY <1>1, <1>2, HandingStep, ScriptedAlways, PTL DEF Spec
================================================================================
