# Formal models of the FengYe v079 game server

This directory holds TLA+ specifications of the server in `src/`: a MapleStory
v079 private server of the OdinMS family, written in Java, with NPC and event
scripts in JavaScript. The repository has no tests and no design documents; the
source is the reference, and every mapped definition is a reading of it.

## The system

One process runs a login server, a cash-shop server and several channel servers
(all in one JVM), a Netty front end, timer threads and a MySQL database.

| component | state | operations | what makes it correct |
|---|---|---|---|
| Drops on a map (`MapleMapItem`, `InventoryHandler.PlayerPickup/PetPickup`, `MapleMap`) | per item: in the object table or not, `pickedUp`, owner, drop type, two deadlines, a `ReentrantLock` | spawn, FFA, expiry, pickup by player or pet, meso explosion, vacuum, `returnEverLastItem` | a drop is credited once, to somebody entitled; marked drops go away; locks are given back |
| Trade (`MapleTrade`, `PlayerInteractionHandler`) | per character: the `MapleTrade` (partner link, offered items and mesos, `locked`, the partner's exchange) | start, invite, visit, decline, offer, confirm, cancel, map change | items and mesos are conserved; both sides exchange or neither does |
| Inventories (`MapleInventoryManipulator`, `MapleInventory`) | slots with item and quantity | add with stacking, `addFromDrop`, `checkSpace`, move/merge, remove, drop | no quantity appears or disappears; no slot over its limit; `checkSpace` predicts `add` |
| Parties (`MapleParty`, `World.Party`, `PartyHandler`) | members, leader; each character's party reference | create, invite, join, leave, expel, leader change, disband, log on/off | members and references agree; one party each; who else can come to lead |
| Login and channels (`MapleClient`, `CharLoginHandler`, `InterServerHandler`, `PlayerStorage`, `LoginServer`) | account login state in the database, connected and pending characters, connection state | login, select, migrate, enter channel or shop, disconnect, 70 s and 40 s timeouts | an account plays in one place; a migrating character is not loaded twice |
| Saving (`MapleCharacter.saveToDB/loadCharFromDB`, `MapleStorage.saveToDB`, `NPCHandler.Storage`, the console's button) | memory of a character and his storage room, their rows, the open transaction of each thread | save, save the room alone, load, quit, stop | a restart gives back what a character had at one instant |
| Storage mesos (`NPCHandler.Storage` mode 7, `MapleStorage.setMeso`, `MapleCharacter.gainMeso`) | two `int`s | deposit, withdraw, payments | no meso appears or disappears, at the limits of `int` either |
| Player shops and hired merchants (`AbstractPlayerStore`, `HiredMerchant`, `MaplePlayerShop`) | items with bundles, mesos, visitors, open/available flags, the channel's list of merchants, the package in the database | create, visit, add, buy, take back, maintenance, close, expire, claim | goods and mesos are conserved; closed shops sell nothing |
| Conversations (`NPCScriptManager`, `NPCConversationManager`, `NPCHandler.NPCMoreTalk`, the scripts of NPCs, quests and items) | per client: the conversation manager, the dialogue that waits, the number of `setConversation`; the place a script is in | click, answer, dispose, open a window, hand out and take items and mesos | a player always has something to answer or is free; a script's deal is whole |
| Mini games (`MapleMiniGame`) | board, ready flags, who moves | ready, start, move, skip, tie, give up | turns alternate, results are recorded once |
| Guilds, alliances, BBS, families, buddies, messengers (`World.Guild`, ...) | member lists, ranks, contact lists | invite, join, leave, expel, rank changes, log on/off | lists agree with the characters that refer to them |
| Event instances (`EventManager`, `EventInstanceManager`) | registered players, monsters, timers | register, kill, time out, disband | each player is in one instance; a disposed instance is not used |
| Squads, carnival, spawn points, reactors | queues, points, spawn counters | sign up, ban, respawn | limits hold |
| Event, portal and reactor scripts, skills, formulas, packets, WZ data, GUI console | static data | | data and layout, not modelled |

**Concurrency.** Netty event loops run the packet handlers: the packets of one
client in order, clients of different loops in parallel, with no lock around a
handler (`handling/mina/ServerConnection`). Beside them run `server/Timer`'s
executors: `World.Respawn` every five seconds over all maps, map, event, buff
and ping timers. An exception in a handler is logged and what it did before
stays. Shared objects have locks of their own or none.

**Hard parts.** Two handlers in two objects that refer to each other (trade,
party, shop visits); check-then-act without a lock; hand-over of a character
between servers with two timeouts; items moved by deleting here and adding
there, where adding may refuse; timers acting on what a handler is using.

## The files

| module | models | runs | proved in |
|---|---|---|---|
| `MapDrops` | drops on a map: spawning, FFA, expiry, pickups, meso explosion, vacuums | `drops_pickup`, `drops_live` | `MapDrops_proofs` |
| `Trade` | trades between characters | `trade` | `Trade_proofs` |
| `Inventory` | one inventory, the storage room, drops of items | `inventory` | `Inventory_proofs` |
| `Sessions` | one account's logins, entries, moves and disconnects | `sessions` | `Sessions_proofs` |
| `Parties` | parties and the memberships of characters that come and go | `parties` | `Parties_proofs` |
| `Saving` | belongings and storage rooms in memory and in the database | `saving`, `saving_live` | `Saving_proofs` |
| `Durable` | what saving promises; `Saving` implements it | `saving` | `Saving_proofs` |
| `StorageMesos` | mesos between purse and storage room, in `int`s | `storage_mesos` | `Inventory_proofs` |
| `Merchants` | hired merchants | `merchants`, `merchants_live` | `Merchants_proofs` |
| `Conversation` | the conversation engine | `conversation` | `Conversation_proofs` |
| `ScriptTables` | the vocabulary of the tables of scripts | `conversation` | |
| `NpcScripts*`, `QuestScripts`, `SpecialScripts` | one table for each script | `conversation` | |

`MC<module>` gives the constants of a module their values for TLC. A definition
whose comment starts with *Mutant of* is a wrong version of the definition
after it, kept to show that a property notices the mistake; no action uses it.
`PROJECT.json` maps each definition to the lines it models.

The modules keep to a few conventions. A step is one access to state that other
threads share, where threads interleave (`MapDrops`, `Sessions`, `Saving`, `Merchants`, the comings
and goings of `Parties`), or one handler where the code gives no guarantee for
overlapping ones anyway (`Trade`, `Inventory`, operations on a party). Where the
code has a hole of its own, a variable records that behaviour has gone through
it (`lapse`, `abandoned`) and the properties speak of behaviours that have not:
the names of the lapses are the list of what the code does not guard against.
Several questions share a run where one state space answers them all; a `Scope`
in the MC module then keeps the combinations small ("either two characters deal
in one item, or one has an item and mesos"), and is a `CONSTRAINT` of the run.
`TypeOK` is an invariant of the runs `trade` and `inventory`; it is proved for
all modules but `Merchants`, where it is there to be read.

## MapDrops

An item is `where` (unborn, in the object table, removed), `pickedUp`, its
record `drop` (owner, player's drop, drop type, mesos, timers set), the
deadlines that are `due` and the `holder` of its `ReentrantLock`. `handler[l]`
is what event loop `l` is executing, `cleaner[t]` the `expire()` call of the
respawn timer, an item reactor or a map reset. `picked` and `returned` count
credits and exist for the properties only.

| action | code |
|---|---|
| `SpawnDrop`, `SpawnAndVacuum` | `MapleMap.spawnMobDrop`, `spawnMobMesoDrop`, `spawnItemDrop`, `spawnMesoDrop` |
| `Tick`, `FreeForAll`, `StartExpire`, `ExpireMark`, `ExpireRemove` | `MapleMapItem.registerFFA/registerExpire/expire`, `World.handleMap`, `ActivateItemReactor`, `removeDrops` |
| `StartPickup`, `Lock`, `Check`, `Give`, `Mark`, `Remove`, `PetGive`, `Unlock` | `InventoryHandler.PlayerPickup`, `PetPickup` |
| `StartGrab`, `Grab`, `GrabLock` | meso explosion in `DamageParse.applyAttack`, pet vacuum in `PetHandler.MovePet`: both lock and never unlock |
| `StartReturn`, `ReturnMark`, `UnlockedGive` | `MapleMap.returnEverLastItem` and the automatic vacuum |

The lock belongs to a *thread*: two clients of one event loop do not exclude
each other, which the model has because a loop runs one handler at a time.
A credit to the inventory may be refused, which `Give` leaves open.

- `drops_pickup` (one drop, three players on two loops, all cleaning threads,
  leaked locks, an ordinary map): `PickedOnce`, `RightfulPick` though the drop
  type changes under the reader, and `BlockedOnlyByLeak`. Loops do block for good
  behind leaked locks; the property says that nobody else is waited for.
- `drops_live` (an everlasting map): `ReturnedOnce` for the paths that neither
  lock nor look at `pickedUp` (such a path and a pickup may both credit a drop:
  no property excludes that, the code does not), and under `FairSpec`
  `Cleaned` and `LockReleased`.

One drop is enough because a handler holds one item's lock at a time and items
share nothing.

*Fairness.* `FairSpec` has weak fairness of the next step of a handler or
`expire()` call that has begun: the JVM schedules runnable threads. A thread
waiting for a lock is not runnable (its action is disabled), nobody is obliged to
send a packet, and no timer is obliged to start a pass.

## Trade

`trade[c]` is `MapleCharacter.trade`, `obj` the `MapleTrade` objects: owner,
partner, `items`, `meso`, `locked`, and what the other confirmed (`exFrom`: the
list is shared; `exMeso`: the amount is a copy). `inv`, `fill` and `wallet` are
the belongings; `Elsewhere` lets anything else change them in between, so that
room checked earlier may be gone. Handlers are functions from a state record to
the state they leave and whether they threw: a Java exception leaves the earlier
effects, and `Throw` stops the rest.

| action | code |
|---|---|
| `startTrade`, `inviteTrade`, `inviteShopkeeper`, `declineTrade` | the methods of `MapleTrade` of these names |
| `setItems`, `setMeso` | cases 14 and 15 of `PlayerInteraction`, `MapleTrade.setItems`, `setMeso` |
| `completeTrade` | `MapleTrade.completeTrade`, `check`, `CompleteTrade` |
| `exitTrade`, `leaveMap` | case 10, `MapleCharacter.leaveMap`, `changeRemoval`: `MapleTrade.cancelTrade` |

The module assumes that the handlers of two traders do not overlap, as when one
event loop serves both; no lock protects the objects, so there is nothing to
state for the other case. `abandoned` is set when somebody invites a character
whose shop is open while already having a partner: `inviteTrade` then drops the
inviter's trade without telling the partner, who keeps a link to a dead trade.

`trade` has three characters who exchange two items, or (the third apart) two
with mesos, wallets that overflow and one free slot: `CONSTRAINT OneThingAtATime`.
`Mutual`: partner links agree. `OnePlace`: no item is in two places.
`LostOnlyWithoutRoom` names the two ways in which the code does lose items.
`OfferStands` and `AllOrNothing`: what was confirmed is what is exchanged, and a
trade that ends swaps everything or returns everything. Items do not stack in
this module, see `Inventory`; left out are chat, logging, the ban on trading
within an account and items that may not be traded.

## Inventory

`inv` is the sequence of entries of the `LinkedHashMap` in insertion order, each
with its slot; `storage` the list of `MapleStorage`, with `null`s; `ground` what
lies on the map. The additions and removals of `MapleInventoryManipulator` are
operators (`Stack`, `AddFromDrop`, `AddId`, `RemoveById`, `CheckSpace`), folds over
slots (`Upwards`) or over items in the order of their ids (`ById`); the
handlers around them actions: `PickUp`, `Drop`, `ItemMove`, `ItemSort`,
`ItemGather`, `Grant` (shops and scripts that asked `checkSpace`), `TakeAway`,
`Sell`, `Recharge`, `Expire`, `Store`, `TakeOut`, `TakeOutNothing`, `Arrange`.

`due` is a ledger: each operation books what its caller is told. Operations that
the code is known not to carry through settle it with what is there: a stack
moved onto itself, gathering with a used-up set of stars, a grant or a taking
out that `checkSpace` allowed because of a stack with another expiration,
`removeById` of more than there is, and taking out of a storage list that has a
`null`. `Ledger` says that no other operation creates or destroys anything.

A shop does not check the amounts it is sent: `Sell` takes negative ones, which
`removeItem` adds to the stack whatever its `SlotMax`, and `Grant` several of a
one-of-a-kind item. `unchecked` records that this has happened; from then on stacks
may be fuller than full, and every property speaks of the states before. `Scope`
explores what comes after with three slots and nothing stored. Amounts stay
within `MaxAmount`, so no `short` overflows.

`inventory` has three settings, one for each size of the inventory: two slots and
one id with name tags and expirations; three slots, a stackable item, stars and a
one-of-a-kind item; four slots and two stackable items. `AtMostOne` is about the
one-of-a-kind item, `SpaceIsSpace` about `checkSpace` and `addFromDrop`, `Tidies`
about sorting (which closes the gaps) and gathering (which merges what it can).
Stacks of two are enough for a stack to be empty, partial or full; `MaxAmount` and
`MaxStored` bound what appears, in the guards. `OneAssumption`: what is one of a
kind is not a rechargeable, whose quantity is its charges. Equipment is left out; for mesos in
the storage room see `StorageMesos`, for saving `Saving`.

## Sessions

`cl[s]` is the `MapleClient` of connection `s` and `at` where its handler is
between the points at which another loop may come in. `online` and `pending`
are the `PlayerStorage`s, `find` is `World.Find`, `state` the account row,
`saved` the version of a character in the database, `played` the last version
anybody has played. The three login keys are random strings; all that matters
is whether a copy is still the account's, hence `keys` and `current`. Names of
connections are used again once nobody remembers them.

| action | code |
|---|---|
| `login`, `loginRefused`, `finishLogin`, `ServerListRequest`, `ServerStatusRequest`, `CharlistRequest`, `SelectCharacter` | `MapleClient.login`, `LoginWorker`, `CharLoginHandler` |
| `connect`, `loadCharFromDB`, `allowLogin`, `registerPlayer`, `entered` | `InterServerHandler.LoggedIn`, `CashShopOperation.EnterCashShop` |
| `transfer`, `depart`, `LeaveCashShop`, `letGo` | `MapleCharacter.changeChannel`, `InterServerHandler.EnterCashShop`, `CashShopOperation.LeaveCashShop` |
| `Drop`, `PingTimeout`, `channelInactive`, `PersistingTask` | lost connections, `MapleClient.sendPing`, `MapleServerHandler`, `PlayerStorage.PersistingTask` |

`disconnect` of another's connection is one step, as is a selection with its
ticket. The other connection's loop goes on meanwhile: what that does to the character before
`saveToDB` it does before the step, what it does between there and `player = null` is
in the step (`PlayedOn`) and a lapse, *kicked*. A login needs the right password; packets come in any order the handlers
accept. The other lapses are *entries* (two entries at once: "is a character of the
account connected" is asked before either registers), *tail* (`LeaveCashShop`
saves after it has sent the client on), *kept* (a refused move disconnects with
the old copy still set) and *evicted* (a selection removes a live character from
the storage of the cash shop). `Listed` is about a finding of another sort: a
connection to a channel has world 1 (`MapleClient.java:110`), so the question
for connected characters of the account finds those of the second world only.

`sessions` has three connections and two logins: one that plays, one that is on
its way and one that kicks. Either one character of the first world moves between
two channels and the shop (`OneCopy`, `Latest`, `Located`, `SavesForward`), or two
of the second, which are what `listed` says the account's question can find, have
one channel and the shop (`OneCopy`). The run stops exploring at a lapse and
has `CHECK_DEADLOCK FALSE`: after the last counted login, with everybody gone,
nothing is left to do.

## Parties

`parties`, `members`, `leader` and `offline` are the objects of `World.Party`,
`ref[c]` is the party of `c`'s character object, and `carried`, `saved` and
`left` are the places that keep a party id while there is no object: the
transfer, the database, and the local variable of a disconnect. `at` is where
the character is: `off`, `arriving` (object made, nobody finds it), `joining`
(registered), `channel`, `moving`/`toChannel`/`toShop`/`shop`, `leaving`/`out`
(in `MapleClient.disconnect`).

| action | code |
|---|---|
| `createParty`, `join`, `disband`, `leave`, `expel`, `changeLeader` | `PartyHandler.PartyOperatopn`, `DenyPartyRequest`, `World.Party.updateParty` |
| `silentPartyUpdate`, `unstick` | `MapleCharacter.silentPartyUpdate`, the command `@解卡组队` |
| `login`, `arrive`, `refused`, `registerPlayer`, `enter` | `loadCharFromDB`, `ReconstructChr`, `InterServerHandler.LoggedIn` |
| `transfer`, `removePlayer`, `LeaveCashShop` | `changeChannel`, `EnterCashShop`, `LeaveCashShop` |
| `disconnect`, `logOff`, `deregister`, `disconnectFromCS` | `MapleClient.disconnect` |
| `restart` | the static initializer of `World.Party` |

Updates reach only characters that are found in a channel; whoever is elsewhere
finds out from the list of members when the next object is made (`PartyOf`).
`RefAgrees`, `OneParty`, `LedByMember` and `ShownOnline` are what has to come out
of that. The lapses are *arriving* (expelled or disbanded between the making of
the object and its registration), *kicked* (a party joined or founded after a
disconnect on another thread has noted and saved the old one) and *unstuck* (the
command). `LedByMember` is about steps, and names the one by which a party comes to be
led by somebody outside it: the leader expels itself, which `PartyHandler` does not
refuse (the party then stays in the table, and the next who could lead it is its old
leader, come back). Overlapping updates of one party (an unsynchronized `LinkedList`) are not
modelled, nor levels, doors, hit points, and event instances.

`Parties.cfg` has three characters and three party ids, enough for a member in
each of three places at once, a full party, and two parties side by side. Once
the ids are used up no party can be founded until a restart, and the program
itself never has to do anything, hence `CHECK_DEADLOCK FALSE`.

## Durable and Saving

A `Token` is an item or, in `Meso`, an amount of mesos: what is asked is where it
is, in memory (`inv`, `sto`, `hand` of a trade, `ground`) and in the database
(`dbInv`, `dbSto`, the latter as rows, each with the thread that wrote it, since
rows may come twice). `task[t]` is what thread `t` is executing, statement by
statement; a transaction's deletions and insertions are in its task until `Commit`.

| action | code |
|---|---|
| `Save`, `SaveAll`, `ReadRow`, `UpdateRow`, `SaveInventory`, `SaveRest`, `SaveStorage`, `Commit` | `MapleCharacter.saveToDB`, called by handlers or by the console's button `保存角色` |
| `InventoryFails`, `RestFails`, `StorageFails`, `NoConnection` | its `catch` and `finally`: exceptions swallowed, `setAutoCommit(true)` commits |
| `Store`/`PutIn`, `TakeOut`/`TooSoon`/`DoesNotFit`/`Fits`, `Deposit`/`Withdraw`/`Purse` | `NPCHandler.Storage` modes 5, 4 and 7 |
| `ApartUpdate`, `ApartDelete`, `ApartInsert`, `ApartFails` | `MapleStorage.saveToDB`, on a connection of its own in autocommit |
| `Drop`, `PickUp`, `StartTrade`, `Offer`, `CancelTrade`, `CompleteTrade`, `PartnerCompletes` | what moves belongings without saving them, and the two saves of a trade |
| `PartnerIsGone`, `TakerIsGone` | a handler that ends in a `NullPointerException`, as its player was disconnected by another thread |
| `Quit`, `Gone`, `Login`, `Stop` | `MapleClient.disconnect`, `loadCharFromDB`/`MapleStorage.loadStorage`, the end of the process |

`Other` are the threads that save or disconnect a character without being the
loop that serves him: the console's, and the login server's loops, which
kick the old connection of an account that logs in. `Quit` is by the
character's loop or by one of them, and in the second case the loop goes on
between the save and `Gone`: it may drop, trade, store, or be in the middle of
handing over a trade, whose two locked sides `changeRemoval` leaves alone.

`Stop` is possible at any moment. A proper stop is no different: `ShutdownServer.run`
saves no characters and there is no timed saving.

`Durable` is the abstract specification: an owner has something *now* and
something *saved*; a save copies all he has at one instant and puts the copy in
place in one step; anything else that is written leaves him *damaged* until the
next whole save. `Durability == Saved!Spec` says that `Saving` implements it,
where the copy is what the transaction has read. It is the answer to "what does a
restart give back": something the character had at one instant, or, after a
swallowed failure, a save torn by a second thread or the room saved alone, nobody
knows what. `Clean` says more of the undisturbed case: what was written and not
changed since is there, one row per item. `KeptOnQuit`: who left after a save
without fault finds everything, with one lapse: `late` are the characters changed by
their own loop after a thread of `Other` had begun to read them for the last time.

Duplication by stopping the server between the save of the storage room and that
of the character (`Fits`), and loss in a trade, are behaviours of the model: they
are what *damaged* stands for. No property excludes them, since nothing in the
code does.

Assumed: the tables are transactional (a table without transactions is the mutant
`UpdateRowUnlocked`); traders share a loop (see `Trade`); a character does not
come back while some thread is still busy with his old object. Costs of the storage
are left out.

`saving`: two characters who deal in one item, alone, or while another thread
disconnects them; or one with an item and mesos whom it saves and disconnects
(`Scope`); one failing statement. One item is enough for two
owners to have it at once or for nobody to have it; a second kind is mesos, whose
row is updated and not replaced. `saving_live`: `SavesEnd`, under strong fairness
of each thread: the database grants a row to those who wait for it in their order,
so a thread that is able to go on again and again goes on.

## StorageMesos

`Transfer` is mode 7 of `NPCHandler.Storage` with Java's `int`s (`Wrap`): the
packet names any `int`, the smallest included, whose negation is itself; the code
shortens what would overflow and asks again whether that much is there. `gainMeso`
refuses silently. `Kept` relates both amounts with what the account owns, which
only `Elsewhere` changes. The run has ints of five bits, with every value; the
theorem holds for every width. `MesosInit`, `stored` and the like have names of their
own because one module of proofs extends this one and `Inventory`.

## Merchants

`shop[s]` is a `HiredMerchant`: goods as indices into `left` (the bundles left of
every good ever put up, a `MaplePlayerShopItem` being shared by the list and the
handlers that hold it), till, flags, visitors and alarm; `index` is
`ChannelServer.merchants`, `package[o]` the rows of `hiredmerch`, `pc[t]` what
thread `t` is in the middle of.

| action | code |
|---|---|
| `AskPackage`, `AskMerchant`, `Create`, `Open`, `Leave` | `HiredMerchantHandler.UseHiredMerchant`, `PlayerInteraction` create, open, exit |
| `Put`, `TakeBack`/`TakenBack`, `Withdraw`/`Withdrawn`, `Enter`, `Reopen` | adding and removing goods, tidying and emptying the till, maintenance |
| `Knock`/`StepIn`, `Buy`/`Handed`/`CountDown`/`Paid` | visiting, `HiredMerchant.buy` |
| `Close`, `Ring`, `CloseAll`, `Disconnect`, then `Save`, `Clear`, `Unregister` | `closeShop`, called by the owner, the alarm of the constructor, `closeAllMerchants`, `MapleClient.removalTask` |
| `Load`, `Claim` | `MerchantItemStore` |

Nothing in a merchant is locked, so each of its reads and writes is a step. `overlapped` records that two threads
have been busy with one merchant at once, `lapses` what has happened that loses
goods: goods put into a merchant that is closing, a package replaced by another,
an unopened merchant left, a merchant closed around its owner, another's entry
struck off the list (the store id of a merchant that was never opened is 0, which
is the id of the first that was). `Kept` says that goods are lost in no other way
and that without overlap goods and mesos are conserved; `Safekeeping` says when a
package can be replaced at all; `Listed` when a selling merchant can be missing
from the list. `Retires`, under fairness: every merchant leaves the map.

Assumed of the client: it creates a merchant only after the box for its title, opens
one only once, and reopens only one that is open for sale. A unit sells for one
meso, for which there is no tax (tax begins at 100000 mesos). Left out:
`MaplePlayerShop`, black lists, chat, a full bag of the owner, and a stop of the
server, in which unsold goods are lost with the process.

`merchants`: one merchant with its owner, two buyers, the alarm and the console, at
every interleaving; or two owners and two merchants, without overlap (`Scope`). One
good of two units is enough for a purchase of a part; a second good is needed only
for the tidying loop, which `Tidied` computes for any list. `merchants_live` has one
of each. Both have `CHECK_DEADLOCK FALSE`: when the merchants to be hired are used
up and everybody is gone, nothing has to happen. Fairness: `WF` of a closing that has
begun (its thread runs) and of the alarm (`EtcTimer` rings it).

## ScriptTables, the script modules and Conversation

A script is a JavaScript file with a function that is called at the beginning of a
conversation and at each answer; between calls it keeps its place in globals. Its
*table* has a row for each outcome of such a call: place, answers, what the player
must have, what is done, in order, next place.

    T(1, Yes, {Has(4000463, 5), Room(4, 1)}, <<Take(4000463, 5), Give(4001083, 1), Dispose>>, 0)

Kept are every dialogue, disposal, hand-over and window, every item and meso that
is moved, every other change of state by the name of its method (`Also`), and every
test of items, mesos and free slots. Which option was picked and which number, and
tests of anything else (level, job, quest, map, time, records) are abstracted: the rows
they decide between are alternatives. Wording is left out. A loop over something
the table does not know (the members of a party, the items in a bag, the rows of a
query) either finds nothing or is one round that stands for all; a table exists
only if a round that runs to its end moves nothing, so that it is a search, a count
or a menu being built. A `try` with a `catch` may fail at its first call. A computed
id or amount is `Some`. `gainGachaponItem` hands over nothing unless every tab has a
free slot (`MapleInventoryManipulator.addbyId_Gachapon`), which is `Room(0, 1)`, a
little more than the code asks: it does not look at the cash tab. The database is
taken to answer every query.

There are tables of 342 scripts of NPCs (`脚本/npc`), quests (`脚本/任务`)
and items or commands (`脚本/special`), each named after its file (`npc_9330074`)
and mapped to it. They are the long ones, in which it is hard to see what the branches
have in common, and some short ones for the windows and dialogues the long ones do
not use. The table of a script of several hundred lines is a union of parts: a part
has every row whose effects begin or end in its lines, so a row that several branches
share (`sendOk`, `dispose`) may be in more than one. An option that no menu
offers, in a line that is commented out, mostly, has no row.

A script that could not have a table keeps more between two calls than a
place, moves goods in a loop of unknown length or through methods the vocabulary has
no word for (`gainPet`, goods of other players, capacity of guilds), hands out what it
computes in ways a table cannot say, or does not parse.

`Conversation` is the engine: `cms` is `NPCScriptManager.cms` for the client, `last`
and `pend` are `lastMsg` and `pendingDisposal`, `conv` is
`MapleCharacter.conversation`, `shop` an open shop. `Open` and `Reply` begin a call of
a row of the table; each effect is an action (`Ask`, `DisposeCm`, `OpenOther`,
`OpenWindow`, `TakeItem`, `PayMesos`, `GiveItem`, ...), with the silence of the
code: a second dialogue is not sent (`Ask`), `gainMeso` takes nothing when the mesos
are short, `gainItem` takes what there is and hands over nothing when `checkSpace` does
not find the slots. `EndChat`, `CloseWindow`, `CloseShop`, `Unstick` (`@ea` and changes of channel)
and `OtherEnds` come in between calls; within a call nothing does, as the NPC lock of the
client is held and its loop is busy.

What the player holds is chosen for each call anew, since the server lets a player pick
up and use up things while a dialogue is open: of each item and of mesos (`Found`) and
of the slots of each tab (`RoomIn`) the least or the most that the row's tests allow,
each independently, so that a full tab may hold more than the price. What an item takes
up follows `checkSpace` (`Needs`) and `removeById` (`Frees`): goods join what is held of
them or, the stacks being full, need slots of their own; stars do not stack; a part of
a stack that is taken frees no slot. Amounts in between do no worse. The data of the
items are not in the repository: a stack is taken to hold 100 or more, as `getSlotMax`
has it without data, and no goods are one of a kind. Goods that a script computes go
where it has looked for slots, or into the slot of what it has just computed and taken
(equipment that is changed and put back). The client is assumed to answer the dialogue it shows, as that
dialogue allows (`Offers`), and not to click while it shows one.

The properties except the scripts that the constants list, and the lists are what the
run finds out: a script missing from a list is a counterexample, and each that is listed
fails in some state, given what is said above of the unknown data.

| list | scripts | what they do |
|---|---|---|
| `Mute` | 115 | a branch returns or throws without a dialogue and without `dispose()`: the player is stuck until `@ea` |
| `Trapping` | 1 | `sendStorage()` without `dispose()` |
| `Talkative` | 28 | two dialogues in one call, the second never shown; mostly a missing `return` |
| `OnCredit` | 10 | goods are handed out though the price may be short: it was tested in an earlier call only, for fewer, or not at all |
| `Careless` | 31 | the price is taken though the goods may find no slot: none was looked for, or too few |
| `Cramped` | 6 | slots are tested, and not enough of them |

`Released` and `TrappedByWindow` hold whatever the tables are, and are proved.
`NeverStuck`, `AllSaid` and `HandedOver` are proved from conditions on the rows of the scripts
they do not except. `WholeDeals` is about the arithmetic of each row.

## What is proved

`MapDrops_proofs`, for any players, drops, loops, cleaning threads: `TypeCorrect`;
`PickupOnce`, which is `Spec => []PickedOnce`. The invariant `IInv` says: a
pickup past its `Lock` step owns the lock (`Holding`); before its credit the drop
is uncredited (`Uncredited`); a credited drop is marked or its handler is just
about to mark it (`CreditedIsMarked`); and an item is marked before it is taken
off the map (`MarkedFirst`). `PickedOnce` alone is not inductive: a second pickup
must find the mark, which is set only after the credit and under the lock.
`RightfullyPicked` (`Spec => RightfulPick`) rests on `Entitled`: a pickup past its
guards may take its drop, and nothing that happens to a spawned drop takes that
away, since only free for all changes it. `BlockedOnly` (`Spec =>
[]BlockedOnlyByLeak`) rests on `HeldOrLeaked`: a lock that is held and not leaked
is held by a pickup under way on its own drop. `ReturnOnce` (`Spec =>
[]ReturnedOnce`) rests on `ReturnInv`: the paths that neither lock nor look at the
mark run on the loop of the drop's owner, and take the drop off the map before that
loop does anything else. The assumptions are those of `MapDropsAssumption`.

`Trade_proofs`, for any characters, items, trade objects, wallets and taxes: every
property of the run `trade`. Handlers are functions on a record of the state, so
there is a lemma for each function on such a record (what it changes, what it
keeps, what it needs not to throw) and one for each handler on top of them.
`TypeCorrect` needs nothing else. `MutualHolds`, `OneForEach` (`OnePlace`),
`ShownOfferStands` (`OfferStands`), `TradeIsAllOrNothing` and `OnlyLosses`
(`LostOnlyWithoutRoom`) need `Agreed`: an object is linked to at most one other,
which links back (`Wed`), whoever has an object owns it (`Honest`), and an item is
in one bag or one offer (`Once`), the last two as long as nobody was abandoned.
Mutual links alone are not inductive: a cancelled trade must not be found
from an object of a character that has begun another one since. Assumed
(`TradeAssumption`): a tax is not more than the amount, and items are finitely many.

`Saving_proofs`, for any characters, items, mesos, threads and failures: `TypeCorrect`,
`CleanHolds`, `KeptOnQuitHolds`, and `DurabilityHolds`, the refinement
`Spec => Durability`. `IInv` says whom a thread is busy with, and that two threads at
one character are never both in a transaction (`Busy`); traders are on one loop
(`Trading`); *what a transaction noted is still so until it commits, unless it was
marked as torn* (`Reads`); an unmarked room is what the database has
(`Unmarked`); who left, or is about to, has not been touched unless he is `late` (`Settled`). Most operations only move
belongings of characters that are marked for it, and share the lemmas `Playing` and `Touches`.
The refinement is shown action by action: all stutter but the commits, the writes
outside a transaction, and what changes belongings. The database's locks on rows are
what `Reads` stands on. Assumed (`SavingAssumption`): finite sets of items and
threads, and a `None` that is none of the values it stands beside.

`Merchants_proofs`, for any owners, buyers, bounds, and with or without overlapping
operations: `ListedHolds`, `SafekeepingHolds` and `KeptHolds`, all invariants of the
run `merchants`. The invariant of the first two has two halves.
`Orderly` holds always: the list leads to opened merchants by their own ids, nobody
but the owner is in a merchant not yet opened, and a selling merchant is in the
list unless there is the excuse that `Listed` names. `Careful` holds while no two
threads have been busy with one merchant and none was closed around its owner or
struck off by another: *an owner has one merchant that trades, or a package, or a
ticket for a new one, and no two of these*, except while a closing is under way. A package can
only be replaced if that fails. Purchases and visits only `Work`, closings only
`Shut`; what asks, opens and creates is taken one by one.
`KeptHolds` needs an account of the goods besides, `KInv`: a home for every good that was
ever put up, and the number of its units still to be had there (`Covered`). `Kept` is not
inductive, since a buyer writes back a count that he read before others bought, which may
raise it, and an owner takes back what a buyer has been handed. What does not change is that
*no count a buyer has yet to write leaves less than is still to be had and was handed to
the others*; without overlaps the numbers are equal, and what a thread has read is still so
when it writes (`Neat`). `Settled` says what makes a closing lose nothing: a closed
merchant is empty, one that is not opened is its owner's alone and has an empty till, and who
fetches a package has no merchant and gets no less than the package then holds. There is one
lemma for each operation, by what it moves: nothing (`QuietKeeps`, `ShelfKeeps`), mesos
(`TillWorkKeeps`), goods (`GoodsWorkKeeps`, from `AccountMoves` and `AccountGrows`),
goods into a package (`AccountSaves`) and out of it. Under them are lemmas about sums over
finite sets (`SumPoint`, `SumGroups`, ...; a fold is known by `FoldExists`), and `TidiedIs`:
the tidying loop drops no good that is not sold out.
Assumed: `ThreadsAssumption` (a thread is the loop of one player, an alarm, or the
console) and `AccountsAssumption` (finitely many players, and `None` is no package).

`Parties_proofs`, for any characters, party ids and sizes: `TypeCorrect`; `Led`
(`Spec => LedByMember`), step by step from the types, which holds after lapses, too; and `InOneParty`,
`RefsAgree`, `ShownAsOnline`. These need `Kept`: *wherever a character is, the
place its next object will be made from names the party that lists it*
(`RefKept`, `ShopKept`, `TransferKept`, `SavedKept`). A character that has been
let go may still be named a party there, but then `PartyOf` finds it unlisted.
`OneParty` follows since no place names two parties. The proof that a step keeps
`Kept` has a lemma for each operation; leaving, expelling and disbanding share
`LetGoKept`. The only assumption is `PartiesAssumption`.

`Inventory_proofs`, for any items, owners, deadlines, stack sizes, charges, slot limits
and bounds: `TypeCorrect`, `LedgerHolds`, `AtMostOneHolds`, `SpaceIsSpaceHolds` and
`TidiesHolds`.
The operators are folds, so the proof is first of all about what they compute, for
every inventory, item and quantity: `MoveItemIs`, `RemoveByIdIs` (exactly so much less
of the item, or nothing of it left), `StackIs` (what is left is exactly what exceeds
the room of the stacks and the free slots), `CheckSpaceIs` (the same sum, rounded up to
slots), `AddFromDropIs`, `AddIdIs`, `SortedIs`, `ExpiredIs`, `ByIdIs`, `GatheredIs` (what
is taken out one copy after the other finds room again, and only a stack of nothing
makes an exception). `TidiesHolds` needs the fold of `Sorted` to say more: each of the
as many steps as there are slots fills the first gap, if there is one, with the
next item above it, which keeps every rank (`MovedDown`), so that after `k` steps the slots
up to `k` are in use or there is no gap (`SortedIs`). For gathering the list put back is
ordered (`ByIdIs`); an item that no other follows by its id then goes onto the last stacks
or behind them and leaves the inventory `Neat` (`AddFromDropNeat`): only when every
stack it would merge with is full does it take a slot. That a fold exists and that each of its values is where its steps
keep it is `FoldExists`, by an argument about the smallest subset that would refute it,
for predicates given as sets; sums over slots, drops and the storage list are
`SumRemove` and what follows from it. The invariant of the
steps, which holds while no deal was `unchecked`, is then short: every slot at most once and every item within what fits a slot
(`Sound`), what lies on the map or in the storage room could be added as it is
(`OnFloor`, `InRoom`: a one-of-a-kind item alone, a rechargeable within its charge),
the books, and `AtMostOne`. The ledger alone is not inductive: that a take-out adds
all of a stack rests on what was once stored, and that gathering doubles nothing on
`AtMostOne`. Assumed: `InventoryAssumption` (finite sets, sizes that are positive),
`OneAssumption`, and `NoneAssumption` (no item is nothing).

`StorageMesos`, for every width of `int`, in the same module: `MesosKept`. The invariant
is the types with `Kept` and inductive as it stands; the two actions are arithmetic.

`Conversation_proofs`, for any tables made of `Rows`: `TypeCorrect`, by
`Scripted` (the types, and a client has a manager of `s` only while `s` is a
script); `ReleasedAlways`, by `Kept`, which is `Released` during calls, too; `OnlyWindowsTrap`,
by `Opened`: while there is a manager and the number is not 1, or a shop covers it, the
script is one whose table opens a window or a shop, and what a call has still to do
is in the table of its script. That the tables are
made of `Rows` is `ScriptsAssumption`, which TLC evaluates for all of them.
`NeverStuckHolds`, `AllSaidHolds` and `HandedOverHolds` are about the scripts that the
properties do not except. Each rests on a condition on single rows (`MuteAssumption`,
`TrappingAssumption`, `TalkativeAssumption`, `OpeningAssumption`; TLC evaluates
them for all 342 tables): a call comes to a dialogue, a disposal, a shop or a delivery; to a
`dispose()` if to a window or shop; to one dialogue only; to another script only after
its own `dispose()`. The theorems say that this is *enough*: that a call is alone with its
cm, that no dialogue waits from an earlier call, that no window, click, `@ea` or end of
chat comes between and spoils it. The invariants speak of what is left of a call: it still
comes to something for the player while nothing waits (`Answered`), to the
disposal while a window is up (`LetGo`), to no dialogue while one waits
(`Silent`), to no hand-over before the disposal and nothing after (`Handing`). What an
effect leaves of such a condition are the lemmas `TailDoes`, `TailSaysOnce`,
`TailOpensLast` and `TailHandsOver`; an exception cuts the rest off (`NothingDone`).

`Sessions_proofs`, for any connections, characters, channels and logins: `TypeCorrect`,
`Invariance`, `OneCopyHolds`, `LatestHolds`, `LocatedHolds` and `SavesForwardHolds`, all
of what the run `sessions` checks. `IInv` is about connections in every phase of a
handler, and in its second half, `Good`, holds while nothing lapsed: *a character with
the keys of the account is in one place, a connection (`Single`) or a transfer
(`OnlyParcel`)*, and what is there is the latest copy (`Newest`); selecting a character
makes whatever is left of it worthless (`Selected`); who has a character is found in
the storage of its server (`Registered`), and who is found there has it, or was kicked
out of the cash shop (`Found`); only who plays a character has more of it than the
database (`Stored`); and one of the second world is in the channels (`OneListed`).
`OneCopy` alone is not inductive: two connections with one character differ from one only
in where the storages, the tickets and the transfers lead. A handler is a function on the state,
and there is a lemma for each *kind* of change to it (`Quiet`, `Loses`, `Fades`, `Comes`,
`Outdates`, ...) that `Good` survives; each action is one or two of these. The kicks of
`forceRemovePlayer` are a fold over a set: that a fold keeps what each of its steps
keeps is proved (`FoldKeeps`) for predicates given as sets, from a smallest subset on
which it fails. Assumed: `SessionsAssumption` (finitely many characters and channels)
and `NoneAssumption`.

Only model-checked: `WholeDeals`, which is what the sums of each row come to, an
evaluation of the tables; and all liveness (`Cleaned`, `LockReleased`,
`SavesEnd`, `Retires`: the prover does not do fairness and `ENABLED`).

## Not modelled

`PROJECT.json` lists every part with the reason. Data, layout and windows (WZ
files, packets, the console) have no behaviour of their own. Combat and skills
are formulas and tables over one character.

*Event scripts* (`脚本/事件`) cannot do anything: they speak to a global `em` that
nobody binds (the loop of `EventScriptManager.init` has an empty body), so their `setup`
ends in a `ReferenceError` that `EventManager` prints, and no `EventInstanceManager` is
ever made. A model of event instances would be a model of code that is not reached.
*Portal and reactor scripts* run once from start to end, without
a place to come back to; what they do is warping and dropping.

Guilds, buddies and messengers keep lists like those of parties, with the rows in
the database written at once; squads, carnival and mini games are one object each under
one handler. They are left out for size, not for principle.

There are no tests and no documents to hold the code against, so there are no
runs that are expected to fail.

## Plan

1. Done: the modules and proofs above.
2. Two hazards have no property: traders on two loops (`MapleTrade.java:292`) and
   overlapping updates of one party (`World.java:395`). Nothing in the code orders
   either, so a property would have to say which outcomes are tolerable.
3. Guilds and buddies; mini games.
