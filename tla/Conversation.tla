----------------------------- MODULE Conversation ------------------------------
(* Conversations of one player with scripts: NPCScriptManager keeps at most   *)
(* one NPCConversationManager (a "cm") per client, a script shows dialogues   *)
(* through it and NPCHandler.NPCMoreTalk passes the answers on.  The player's *)
(* "conversation" number says what the client is busy with; packets, scripts  *)
(* and windows set it independently of the cm.                                *)
(* A script is a table (ScriptTables).  A call of it runs its effects one by  *)
(* one, and nothing else of this client runs in between (one event loop per   *)
(* client, and the client's NPC lock).  What the player holds is chosen anew  *)
(* for every call: while a dialogue is open the server lets the player pick   *)
(* up, use up and lose items and mesos.                                       *)
(* Assumed of the client: it answers only the dialogue it shows, as that      *)
(* dialogue allows, and does not click while it shows a dialogue or a window. *)
EXTENDS Integers, Sequences, ScriptTables

CONSTANTS
  Scripts,    \* name of a script -> its table
  None,
  Mute,       \* scripts that may leave a conversation open without a dialogue
  Trapping,   \* scripts that may outlive the window they open
  Talkative,  \* scripts that ask for a dialogue while another one waits
  OnCredit,   \* scripts that hand out goods though the price may be short
  Careless,   \* scripts that take the price though the goods may not fit
  Cramped     \* scripts that look for slots and still hand out what does not fit

Names == DOMAIN Scripts

ASSUME ScriptsAssumption == \A x \in Names : Scripts[x] \subseteq Rows
ASSUME NoneAssumption == None \notin Names \cup Dialogues
\* What the scripts are that the properties do not except, row by row.
ASSUME MuteAssumption == \A x \in Names \ Mute : \A row \in Scripts[x] : Does(row.do, Going)
ASSUME TrappingAssumption == \A x \in Names \ Trapping : \A row \in Scripts[x] : LetsGo(row.do)
ASSUME TalkativeAssumption == \A x \in Names \ Talkative : \A row \in Scripts[x] : SaysOnce(row.do)
ASSUME OpeningAssumption == \A x \in Names : \A row \in Scripts[x] : HandsOver(row.do)

VARIABLES
  s,      \* the script of the last call, None once that is over
  at,     \* the place it is in
  rest,   \* what the call has still to do
  cms,    \* NPCScriptManager.cms: "none", "mine": a cm of s, "other": one that s opened
  last,   \* lastMsg of s's cm: the dialogue that waits for an answer
  pend,   \* its pendingDisposal
  conv,   \* MapleCharacter.conversation: 1 talk, 2 delivery, 3 merchant store, 4 storage
  shop,   \* the client shows a shop
  bag,    \* what the player holds during the call
  marks   \* history: what went wrong in this call

vars == <<s, at, rest, cms, last, pend, conv, shop, bag, marks>>

--------------------------------------------------------------------------------
(* What the player holds during a call.  Of every item, of mesos and of slots *)
(* a call finds the least or the most that the tests of its row allow, each   *)
(* independently of the others: it is settled when it first matters, and kept *)
(* in `held` and `free` from then on.                                         *)
(* Unknown here are the data of the items: a stack is taken to hold 100 or    *)
(* more (getSlotMax: 100 unless the data say otherwise), and no goods to be   *)
(* of a kind one may have only one of.                                        *)
Plenty == 1000000000
Slots == 24    \* free slots of an empty tab
Stack == 100
NoBag == [tests |-> {}, held |-> <<>>, free |-> <<>>]

Amounts(kind, ids) == {t.n : t \in {u \in bag.tests : u.kind = kind /\ u.id \in ids}}
Least(S) == IF S = {} THEN 0 ELSE CHOOSE n \in S : \A m \in S : m <= n
Below(S, most) == IF S = {} THEN most ELSE (CHOOSE n \in S : \A m \in S : n <= m) - 1

\* Mutant: a test that is passed with one too few.
FoundOneLess(id) == {Least(Amounts("has", {id})) - 1, Below(Amounts("lacks", {id}), Plenty)}

\* MapleCharacter.haveItem, getMeso: what a call may have found.
Found(id) == {Least(Amounts("has", {id})), Below(Amounts("lacks", {id}), Plenty)}

\* GameConstants.getInventoryType.  Goods that the script computes (0) are taken to go
\* where it has looked for slots.
Tab(id) == id \div 1000000
TabsOf(tab) == IF tab = 0 THEN 0 .. 5 ELSE {0, tab}

\* Mutant: the test of free slots counts one that is taken.
RoomOneLess(tab) == {Least(Amounts("room", TabsOf(tab))) - 1, Below(Amounts("full", {tab}), Slots)}
\* Mutant: the test of every tab looks at none.
RoomOwnTab(tab) == {Least(Amounts("room", {tab})), Below(Amounts("full", {tab}), Slots)}

\* MapleInventory.getNumFreeSlot: the free slots of a tab that a call may have found.
RoomIn(tab) == {Least(Amounts("room", TabsOf(tab))), Below(Amounts("full", {tab}), Slots)}

\* What there is by now.
Held(id) == IF id \in DOMAIN bag.held THEN {bag.held[id]} ELSE Found(id)
Free(tab) == IF tab \in DOMAIN bag.free THEN {bag.free[tab]} ELSE RoomIn(tab)

Looked(tab) == Amounts("room", TabsOf(tab)) # {}

With(f, x, v, S) == [y \in (DOMAIN f \cup {x}) \cap S |-> IF y = x THEN v ELSE f[y]]

\* What is settled is kept as long as the call has still to do with it.
Later == {rest'[i].id : i \in DOMAIN rest'}
Bag(id, has, free) ==
  [bag EXCEPT !.held = With(@, id, has, Later),
              !.free = With(@, Tab(id), free, {Tab(i) : i \in Later})]
Purse(has) == [bag EXCEPT !.held = With(@, Mesos, has, Later)]

\* MapleInventoryManipulator.checkSpace: the slots that n of an item may need.  Of what
\* is held the stacks may be full or take all; stars, bullets and equipment do not stack.
Stackable(id) == Tab(id) # 1 /\ id \div 10000 \notin {207, 233}
Needs(id, n, has) ==
  IF ~Stackable(id) \/ n = Some THEN {1}
  ELSE {(n + Stack - 1) \div Stack} \cup IF has > 0 THEN {0} ELSE {}

\* removeById: the slots that taking n of an item frees at least.
Frees(id, n, has) == IF Tab(id) = 1 THEN n ELSE IF n = has /\ n > 0 THEN 1 ELSE 0

--------------------------------------------------------------------------------
Calling == rest # <<>>
Talking == conv = 1 /\ ~shop

\* Mutant: dispose forgets the conversation number.
NotReset == cms' = "none" /\ UNCHANGED conv
\* Mutant: dispose resets the conversation number and forgets the cm.
CmKept == conv' = 0 /\ UNCHANGED cms
\* NPCScriptManager.dispose.
Disposed == cms' = "none" /\ conv' = IF conv = 1 THEN 0 ELSE conv

\* invokeFunction: the call that one row of the table stands for.
Call(row) ==
  at' = row.to /\ rest' = row.do /\ marks' = {} /\ bag' = [NoBag EXCEPT !.tests = row.when]

\* A click on an NPC, a quest packet or a command: NPCScriptManager.start, startQuest
\* and endQuest.  With a cm in place they only say that the player is stuck.
Open(x) ==
  /\ ~Calling /\ cms = "none" /\ conv = 0 /\ ~shop
  /\ \E row \in Scripts[x] :
       row.from = 0 /\ row.on \cap (Start \cup Finish) # {} /\ Call(row)
  /\ s' = x /\ cms' = "mine" /\ conv' = 1 /\ last' = None /\ pend' = FALSE
  /\ UNCHANGED shop

\* A click on an NPC that has a shop (NPCHandler.handleNPCTalk).
ClickShop ==
  /\ ~Calling /\ cms = "none" /\ conv = 0 /\ ~shop
  /\ conv' = 1 /\ shop' = TRUE
  /\ UNCHANGED <<s, at, rest, cms, last, pend, bag, marks>>

\* NPCHandler.NPCMoreTalk with an answer that the dialogue offers.
Backs == {"prev", "nextprev", "yesno", "accept", "number", "style"}
Offers(kind) == (IF kind = "prev" THEN {} ELSE {"yes"}) \cup (IF kind \in Backs THEN {"no"} ELSE {})
Answerable == ~Calling /\ cms = "mine" /\ conv # 0 /\ last # None

\* Mutant: setLastMsg(-1) is missing.
ReplyKeepsLast(answer) ==
  /\ Answerable /\ ~pend /\ answer \in Offers(last)
  /\ \E row \in Scripts[s] : row.from = at /\ answer \in row.on /\ Call(row)
  /\ UNCHANGED <<s, cms, last, pend, conv, shop>>
Reply(answer) ==
  /\ Answerable /\ ~pend /\ answer \in Offers(last)
  /\ last' = None
  /\ \E row \in Scripts[s] : row.from = at /\ answer \in row.on /\ Call(row)
  /\ UNCHANGED <<s, cms, pend, conv, shop>>

\* Mutant: a cancelled dialogue is not disposed of.
CancelOnly ==
  /\ Answerable
  /\ last' = None
  /\ UNCHANGED <<s, at, rest, cms, pend, conv, shop, bag, marks>>
\* An answer after safeDispose(), a cancelled text or menu, or "end chat" anywhere.
EndChat ==
  /\ Answerable
  /\ last' = None /\ Disposed
  /\ UNCHANGED <<s, at, rest, pend, shop, bag, marks>>

--------------------------------------------------------------------------------
(* The effects of a call, one action each.                                    *)
Next1(op) == Calling /\ Head(rest).op = op /\ rest' = Tail(rest)
Arg == Head(rest)

\* NPCConversationManager.sendNext and its like: nothing is sent, and nobody
\* told, when another dialogue waits.
Ask ==
  /\ Next1("ask")
  /\ IF last = None THEN last' = Arg.kind /\ UNCHANGED marks
     ELSE marks' = marks \cup {"unsaid"} /\ UNCHANGED last
  /\ UNCHANGED <<s, at, cms, pend, conv, shop, bag>>

\* Mutant: dispose() waits for the end of the call.
DisposeLater ==
  /\ Next1("dispose") /\ pend' = TRUE
  /\ UNCHANGED <<s, at, cms, last, conv, shop, bag, marks>>

\* cm.dispose(): removes whatever cm the client has now.
DisposeCm ==
  /\ Next1("dispose") /\ Disposed
  /\ marks' = IF cms = "other" THEN marks \cup {"cut"} ELSE marks
  /\ UNCHANGED <<s, at, last, pend, shop, bag>>

SafeDisposeCm ==
  /\ Next1("pend") /\ pend' = TRUE
  /\ UNCHANGED <<s, at, cms, last, conv, shop, bag, marks>>

\* AbstractPlayerInteraction.openNpc.
OpenOther ==
  /\ Next1("open")
  /\ IF cms = "none" THEN cms' = "other" /\ conv' = 1 /\ UNCHANGED marks
     ELSE marks' = marks \cup {"refused"} /\ UNCHANGED <<cms, conv>>
  /\ UNCHANGED <<s, at, last, pend, shop, bag>>

\* sendStorage, openMerchantItemStore, openDuey; the first two refuse while the
\* server shuts down, the first also to a dead player.
OpenWindow ==
  /\ Next1("window")
  /\ conv' \in IF Arg.n = 2 THEN {2} ELSE {Arg.n, conv}
  /\ UNCHANGED <<s, at, cms, last, pend, shop, bag, marks>>

OpenShopWindow ==
  /\ Next1("shop") /\ shop' = TRUE
  /\ UNCHANGED <<s, at, cms, last, pend, conv, bag, marks>>

\* gainItem(id, -n) takes what there is of an item.
TakeItem ==
  /\ Next1("take")
  /\ IF Some \in {Arg.id, Arg.n}
     THEN /\ marks' = marks \cup {"paid"}
          /\ \E free \in Free(0) : bag' = IF Arg.id = Some THEN Bag(Some, 0, free + 1) ELSE bag
     ELSE \E has \in Held(Arg.id), free \in Free(Tab(Arg.id)) :
            LET n == IF has < Arg.n THEN has ELSE Arg.n
            IN  /\ marks' = marks \cup {IF has < Arg.n THEN "short" ELSE "paid"}
                /\ bag' = Bag(Arg.id, has - n, free + Frees(Arg.id, n, has))
  /\ UNCHANGED <<s, at, cms, last, pend, conv, shop>>

\* removeAll(id).
TakeAllItems ==
  /\ Next1("takeall")
  /\ IF Arg.id = Some THEN UNCHANGED bag
     ELSE \E has \in Held(Arg.id), free \in Free(Tab(Arg.id)) :
            bag' = Bag(Arg.id, 0, free + Frees(Arg.id, has, has))
  /\ UNCHANGED <<s, at, cms, last, pend, conv, shop, marks>>

\* MapleCharacter.gainMeso takes nothing, silently, when the mesos are short.
PayMesos ==
  /\ Next1("pay")
  /\ IF Arg.n = Some THEN marks' = marks \cup {"paid"} /\ UNCHANGED bag
     ELSE \E has \in Held(Mesos) :
            /\ marks' = marks \cup {IF has < Arg.n THEN "short" ELSE "paid"}
            /\ bag' = Purse(IF has < Arg.n THEN has ELSE has - Arg.n)
  /\ UNCHANGED <<s, at, cms, last, pend, conv, shop>>

EarnMesos ==
  /\ Next1("earn")
  /\ marks' = marks \cup {"got"}
  /\ \E has \in Held(Mesos) : bag' = Purse(has + Arg.n)
  /\ UNCHANGED <<s, at, cms, last, pend, conv, shop>>

\* AbstractPlayerInteraction.gainItem hands over nothing, silently, when
\* MapleInventoryManipulator.checkSpace does not find the slots.
GiveItem ==
  /\ Next1("give")
  /\ \E has \in Held(Arg.id), free \in Free(Tab(Arg.id)) : \E slots \in Needs(Arg.id, Arg.n, has) :
       IF slots <= free
       THEN marks' = marks \cup {"got"} /\ bag' = Bag(Arg.id, has + Arg.n, free - slots)
       ELSE /\ marks' = marks \cup {"missed"} \cup IF Looked(Tab(Arg.id)) THEN {"looked"} ELSE {}
            /\ bag' = Bag(Arg.id, has, free)
  /\ UNCHANGED <<s, at, cms, last, pend, conv, shop>>

\* A change of state that this module does not follow.
ChangeElse ==
  /\ Next1("also")
  /\ UNCHANGED <<s, at, cms, last, pend, conv, shop, bag, marks>>

\* The script throws: the manager swallows the exception and keeps the cm.
Throw ==
  /\ Calling /\ Arg.op = "fail" /\ rest' = <<>>
  /\ UNCHANGED <<s, at, cms, last, pend, conv, shop, bag, marks>>

Effect ==
  \/ Ask \/ DisposeCm \/ SafeDisposeCm \/ OpenOther \/ OpenWindow \/ OpenShopWindow
  \/ TakeItem \/ TakeAllItems \/ PayMesos \/ EarnMesos \/ GiveItem \/ ChangeElse \/ Throw

--------------------------------------------------------------------------------
\* The player closes the storage room, the delivery or the merchant store.
CloseWindow ==
  /\ ~Calling /\ conv \in 2 .. 4
  /\ conv' = 0
  /\ UNCHANGED <<s, at, rest, cms, last, pend, shop, bag, marks>>

\* NPCHandler.NPCShop, the packet that leaves a shop.
CloseShop ==
  /\ ~Calling /\ shop
  /\ shop' = FALSE /\ conv' = 0
  /\ UNCHANGED <<s, at, rest, cms, last, pend, bag, marks>>

\* @ea, a change of channel, the end of the session.
Unstick ==
  /\ ~Calling /\ cms # "none" /\ ~shop
  /\ Disposed
  /\ UNCHANGED <<s, at, rest, last, pend, shop, bag, marks>>

\* The script that s opened disposes of itself.
OtherEnds ==
  /\ ~Calling /\ cms = "other"
  /\ Disposed
  /\ UNCHANGED <<s, at, rest, last, pend, shop, bag, marks>>

\* Nothing is left of s (bookkeeping of the model).
Forget ==
  /\ ~Calling /\ s # None /\ cms = "none"
  /\ s' = None /\ at' = 0 /\ last' = None /\ pend' = FALSE /\ bag' = NoBag /\ marks' = {}
  /\ UNCHANGED <<rest, cms, conv, shop>>

Init ==
  /\ s = None /\ at = 0 /\ rest = <<>> /\ cms = "none" /\ last = None /\ pend = FALSE
  /\ conv = 0 /\ shop = FALSE /\ bag = NoBag /\ marks = {}

Next ==
  \/ \E x \in Names : s = None /\ Open(x)
  \/ \E answer \in {"yes", "no"} : Reply(answer)
  \/ Effect \/ ClickShop \/ EndChat
  \/ CloseWindow \/ CloseShop \/ Unstick \/ OtherEnds \/ Forget

Spec == Init /\ [][Next]_vars

--------------------------------------------------------------------------------
Marks == {"unsaid", "cut", "refused", "short", "paid", "got", "missed", "looked"}

\* Scripts that open a window or a shop.
Windowed ==
  {x \in Names : \E row \in Scripts[x] : \E i \in DOMAIN row.do : row.do[i].op \in {"window", "shop"}}

\* Every variable has its type (NPCConversationManager, MapleCharacter.conversation).
TypeOK ==
  /\ s \in Names \cup {None} /\ at \in Nat /\ rest \in Seq(Effects)
  /\ cms \in {"none", "mine", "other"} /\ last \in STRING \cup {None} /\ pend \in BOOLEAN
  /\ conv \in 0 .. 4 /\ shop \in BOOLEAN /\ marks \subseteq Marks

\* A player is held in a conversation only by something: while the conversation number
\* is 1 and no call runs, there is a cm or a shop window that will reset it
\* (NPCScriptManager.dispose, NPCHandler.NPCShop).
Released == ~Calling /\ conv = 1 => cms # "none" \/ shop

\* After a call the player has something to answer, a window to close or is free: no
\* script but the Mute leaves him "talking" to nobody, unable to click, drop or trade,
\* until he types @ea (NPCScriptManager.start keeps the cm when a script returns or
\* throws without dispose()); and no script but the Trapping leaves its cm behind, so
\* that nobody answers a player whose conversation number says he is free.
NeverStuck ==
  ~Calling =>
    /\ cms = "mine" /\ Talking /\ s \notin Mute => last # None
    /\ conv = 0 /\ s \notin Trapping => cms = "none"

\* Whatever the scripts are, it takes one that opens a window or a shop to trap a player
\* like this: closing them resets the number and not the cm, dispose() does the reverse.
TrappedByWindow == ~Calling /\ conv = 0 /\ cms # "none" => s \in Windowed

\* No script but the listed sends a dialogue while another waits: the second never
\* reaches the player (the check of lastMsg that every send method starts with).
AllSaid == "unsaid" \in marks => s \in Talkative

\* No script opens another script while its own cm is still there, which is refused, or
\* disposes of the one it opened.
HandedOver == marks \cap {"refused", "cut"} = {}

\* Deals are whole.  No script but those OnCredit hands out goods in a call in which the
\* price can be short: gainItem and gainMeso take less, or nothing, without saying so,
\* and what an earlier call found may be gone.  None but the Careless takes a price in a
\* call whose goods may find no slot, and none but the Cramped looks for slots in a call
\* and hands out what does not fit.
WholeDeals ==
  /\ {"short", "got"} \subseteq marks => s \in OnCredit
  /\ {"paid", "missed"} \subseteq marks => s \in Careless
  /\ "looked" \in marks => s \in Cramped
================================================================================
