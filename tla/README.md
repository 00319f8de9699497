# Dreadmyst server: a TLA+ model, its checks and its proofs

This directory models the game server under `src/Server` (the tree under
`src/DreadmystServer` is a second copy of the same text and is not modelled
apart). Each module translates code; `PROJECT.json` maps every definition to
the lines it stands for. TLC checks the modules on small instances (`*.cfg`),
TLAPS proves the theorems of the `*_proof` modules for every
value of the constants.

    tlc -config CombatSafety.cfg MCCombat.tla    # one run
    tlapm Combat_proof.tla                       # one module of proofs

Contents: 1 the system, 2 the modules and how they correspond to the code,
3 the runs, 4 fairness, 5 the proofs, 6 disagreements between the code and what
is said of it, 7 what is not modelled, 8 the plan.

---

## 1. The system

One process, one thread for the game (`main.cpp:129`), one more for the
background saver (`AsyncSaver.cpp`), and a SQLite database. Each pass of the
main loop accepts connections, lets every session read its socket and handle its
packets, removes the sessions found closed, and ticks (20 Hz) if it is time.
A packet is handled to its end before the next is looked at, so inside the game
thread the hard part is not preemption. It is the *order of handlers*: what one
player's packet finds after any packets of others, after a tick, after a
departure; a handler that asks for an answer (duel, trade, party, guild) gets
the answer in a world that has moved on; and a tick is many updates in a row, of
which the earlier change what the later find.

| component | state | operations | interacts with | hard behaviour | correct when |
|---|---|---|---|---|---|
| Main loop, sessions (`main.cpp`, `Network/Session*`) | sessions by id: state, socket, account, player, two timers; `sessionsToRemove` | accept, receive pass, end of pass, tick, duplicate-login kick, `disconnectAll` | every handler (they may close sockets of others), world, database | sockets fail inside any handler; three timeouts; kick while the other session is in any state; shutdown | one live session per account; sessions and world agree; no progress lost on any way out; closed and silent sessions go |
| Packet dispatch (`PacketRouter`) | none | state gate, handler table | sessions | handler registered for the wrong state | a closing session handles nothing |
| Auth, character, world entry handlers | characters table | authenticate, create, delete, enter world | sessions, world, database | delete or re-enter while an older session plays the character | a played character exists and belongs to its player |
| World manager, maps | players by guid and by map, creatures, who sees whom | spawn, despawn, change map, visibility, tick | sessions, every system | pointers to players that have left or travelled | everybody sees exactly those on his map |
| Player, Entity | stats, gold (twice), health, death flag, pending cast, position, dirty marks | save, load, update, damage, heal, die, respawn, teleport | inventory, quests, duel hook | per-player transaction; marks that select what is saved | what is not marked is saved |
| AsyncSaver | queue, running and stop flags | queueSave, flush, stop, worker | none yet queues a save | two threads, condition variable, operations run outside the lock | each save performed once and in turn, but for one that the other thread is at; stop drains and returns |
| Inventory, Bank, Equipment | slots of three containers | add, set, remove, clear, move, split, sort, deposit, withdraw, equip, unequip, socket, wear, repair | trade, vendor, loot, quests, save | partial success of `addItem`; two containers changed by one handler | stack limits; nothing appears or vanishes |
| Trade | sessions by trader, offers, confirmations | open, add, remove, gold, confirm, cancel, complete | two inventories, disconnect, save | the inventory changes after the offer; a crash between two saves | conservation; confirmed terms stand; what the windows show is delivered; maps agree |
| Vendor, Loot | stock, buyback lists, corpses | buy, sell, buy back, loot one, all or gold | inventory, both copies of gold | partial `addItem` | nothing leaves one side without arriving |
| Quests, Experience | quest log with tallies, experience, level | accept, abandon, tally, complete, reward, level up | inventory, which notifies it | tallies are copies of what is carried | the status follows the tallies; rewards are exact |
| Duel | offers by target, duels by pair, key by duelist | request, respond, yield, damage hook, update, disconnect | Entity damage and death | answers to stale offers; third-party damage; erasing while iterating | maps agree; nobody in two duels; no duel blow kills |
| Party | offers, parties, player map, lists shown | invite, respond, leave, kick, promote, disconnect | disconnect, clients | answers to stale offers; the leader goes | maps agree; orderly succession; clients see their party |
| Guild | guilds, player map, offers, online marks; two tables | create, disband, invite, respond, leave, kick, promote, demote, login, logout | database, character deletion, restart | several statements per handler, no transaction; offers outlive visits | memory = tables; maps agree; every guild led; size limit |
| NPCs, AI, spawner | state machine, target, threat table, respawn timers | idle, fight, call for help, give up, die, respawn | players, spells, auras, tick order | one creature's update changes others in the same tick; groups | state, target and threat belong together; the dead come back |
| Spells, auras, cooldowns | pending cast, auras | cast, complete, cancel; apply, tick, expire | damage, threat, death | caster and target change during a cast; death inside an update | the helpless do nothing; effects end |
| Chat, gossip | ignore lists | | | | |
| Database, game data, config, clock, log | | | | | |

The things hard to test are listed one by one, at their lines, under
`"hazards"` in `PROJECT.json`; a hazard no property covers has a note.

---

## 2. The modules

| module | what it is | code |
|---|---|---|
| `SessionLifecycle` | sessions from accept to removal, timeouts, kick, shutdown | `main.cpp`, `Session`, `SessionManager`, `PacketRouter`, auth/char/world-entry handlers |
| `AsyncSaver` | the two threads of the saver | `AsyncSaver.cpp` |
| `SaveLog` | abstract: each accepted save performed once, overtaking at most one older one | refined by `AsyncSaver` (`PerformedOnceInTurn`) |
| `Inventory` | slot-array algorithms as operators | `Inventory.cpp` |
| `Belongings` | inventory, bank and equipment of one character, with dirty marks and rows | `Inventory.cpp`, `BankSystem.cpp`, `Equipment.cpp`, item handlers, `Player.cpp` |
| `Trade` | sessions, offers, completion, over two `Inventory` arrays | `TradeSystem.cpp`, trade handlers |
| `TradeCrash` | `Trade` composed with the per-player saves and a crash | `Player.cpp:281-344` |
| `Quests` | one quest log over an `Inventory`, rewards, levels | `QuestManager.cpp`, `PlayerQuestLog.cpp`, `ExperienceSystem.cpp` |
| `Market` | `Quests` composed with vendor, buyback, loot, repairs | `VendorSystem.cpp`, `LootSystem.cpp`, handlers |
| `Duel` | `DuelManager` and the part of `Entity` its hook touches | `DuelSystem.cpp`, `Entity.cpp:87-159` |
| `DuelPairs` | abstract: pairs counted down, pairs fighting, disjoint | refined by `Duel` (`PairsKept`) |
| `Party` | `PartyManager` | `PartySystem.cpp` |
| `PartyGroups` | abstract: players partitioned into parties and loners | refined by `Party` (`GroupsKept`) |
| `Guild` | `GuildManager`, its tables, restarts between statements | `GuildSystem.cpp` |
| `Sight` | who is on which map, sees whom and was shown to whom | `WorldManager.cpp` |
| `Creatures` | what can happen to one creature and to several, and their timers | `Npc.cpp`, `NpcAI.cpp`, `NpcSpawner.cpp` |
| `Combat` | `Sight` and `Creatures` composed: casts, the tick, death, coming and going | `WorldManager::update`, `Player::update`, spell handlers, `NpcAI.cpp`, `AuraSystem.cpp` |
| `*_proof` | theorems | |
| `MC*` | instances for TLC | |

Definitions named `Faulty...` are plausible mistakes in the operation they
stand before. No specification uses them; substituting one shows that the
property it belongs to depends on that operation.

**SessionLifecycle.** `pc` is the phase of the loop pass (`accept`, `receive`,
`tick`, `closing`, `closed`). `state`, `account`, `player`, `idle`, `pingAge`
are the members of `Session`; `conn` is the server's view of the socket;
`world` is `WorldManager::m_players`; `row` the characters table. The one
history variable, `latest`, is the newest progress any `Player` object of a
character held. `Receive` reads a socket found open and makes `batch` the session
whose packets are handled next: the socket is looked at before a batch and not
again in it, so that the rest of a batch is handled after a send has closed the
socket (`main.cpp:185`). The loop visits each session once in a pass; the model
may visit one again. A packet is an action in phase `receive` guarded by
`CanDispatch` (the gate of `PacketRouter::dispatch`) or `ExactState`
(`checkState`); the handler's whole effect, including the kick of the older
session inside `Authenticate`, is one action because the thread runs it to the
end. `ReceiveClosed` and `SendFails` are the two ways a socket dies, `Tick` is
`SessionManager::update` followed by the periodic saves. "Progress" stands for
everything a `Player` holds; what that is, `Belongings` and `Market` say.

**Inventory, Belongings.** A stack is an item id, a count and one mark for
whatever distinguishes an instance (in `Belongings`: socketed gems, which
neither bank nor rows have room for; splitting a stack does not copy them either). `AddItem` is the fold over the slots that
tops up and then opens stacks; `AddedSlot` is the value it returns. Sorting is a
set of results because `std::sort` is not stable. `Belongings` has an action for
each operation on the three containers (`B` is the inventory's algebra at the
bank's size); `dirty` are the containers' marks, `saved` their rows, `Save`
writes the marked ones, `Load` is the next login, after a logout or a crash.
Equippable items are assumed to have a stack size of 1, as in the game data.

**Trade, TradeCrash.** A session is known by the player who opened it,
`offer[p]` is `TradeOffer`, and moving, splitting, using and spending by either
player are actions, because no handler asks whether the player trades. Opening
a trade with oneself is possible in the code and in the model. An offer records
what the slot held when it was offered, the windows show what it holds now, and
the completion delivers that (`StillThere`, `Given`). `TradeCrash`
adds the rows in the database and `Crash`.

**Quests, Market.** `log` is a function from the quests in the log to their
states. A tally of items is a copy of what is carried, refreshed when the
inventory notifies its owner (`OnInventoryChanged`); `SetItem` changes the
inventory and notifies nobody, as `Inventory::setItem` does. `CompleteQuest`
checks the items again, counts free slots, takes, then grants. In `Market` gold
is kept twice, as in the code: `gold` is `m_gold`, `purse` is
`Variable::Gold`, and each operation reads and writes the copy the code does.
`BuyOnTop` is the purchase for which `addItem` returned no slot: the goods stay,
nothing is paid. Prices are products of the width the code computes them in
(`AsInt`, `MAX_INT` the greatest number): one that is too great wraps, as in the
build, and a total below zero pays the buyer. A corpse keeps what `addItem` reported as not added
(`TakeDrop`). `VendorManager::update` and `LootManager::update` have no caller
and are no actions.

**Duel.** `invite`, `duels`, `keyOf` are the manager's three maps, a duel kept
under the lower guid. `stale` marks offers past their timeout. `RequestDuel`,
`DeclineDuel`, `AcceptTooLate`, `AcceptDuel`, `YieldDuel`, `Disconnect`,
`Update` are the manager's operations, `OpponentHits`, `OtherHits`, `Heal`,
`Respawn` what `Entity` does. Positions are abstracted to the set of pairs that
have strayed, given to each `Update`, and the clock to whether a second has
passed.

**AsyncSaver.** A step is one critical section or one performed operation; the
condition variable is the worker's state `waiting`, left by a notification or a
spurious wakeup. Both threads take the oldest operation under the lock and
perform it outside, `flush` one operation at a time as the worker does, so
that one thread may pass the other while that is at an older one, and `flush`
may return before the older one is done.

**Party.** `shown` is the last list sent to each client: `SendList` stands for
`broadcastPartyList` and `sendPartyList`. `PartyManager::update`, the only
reader of the expiry time of offers, is called from nowhere and is no action.

**Guild.** A guild is its leader and a rank for each character (`NotIn` for no
entry). `guilds` is memory, `db` the two tables. A handler's statements are a
sequence of rows (`rows`): either all are written and memory follows
(`Written`), or the process ends after some statement and the server starts
from what is there (`Interrupted`, `StartFrom`, which is
`loadGuildsFromDatabase`). Deleting a character marks its row, so guild rows
stay (`CharacterDb.cpp:350`).

**Sight.** `place` is the map of each player in `m_players`, `onMap` is
`m_playersByMap`, `canSee` and `visibleTo` are the two sets of pointers every
entity keeps, `shown` what each client was sent and not told to destroy. `Met`
and `Forgotten` are the loops of `spawnPlayer` and `despawnPlayer`;
`ChangePlayerMap` is one after the other. The view distance is the compiled one,
unlimited (`WorldManager.h:23`), so that `updateVisibility` finds somebody new
only if somebody was missed.

**Creatures, Combat.** A creature is its AI state, its target, the set of
players in its threat table, whether it has called for help, and how long it
still burns. Operations on one creature (`SetTarget`, `AddThreat`, `GiveUp`,
`Died`, `Respawned`) are composed to those that touch several (`CallForHelp`,
`Aggro`, `Fight`). Health is being alive: whether a blow kills is a choice, and
so are distance, line of sight, who is near whom and who has most threat. A tick
is not one step: `BeginTick` notes in `due` whom `WorldManager::update` took
into its snapshot; players, then creatures in any order (a hash map), then the
spawner are updated one by one, because each finds what the earlier ones left.
Packets come between ticks. A spell is cast at a creature, at another player or at
oneself; `Perform` is what it does to its targets: blows that hit or miss,
healing, or an aura, periodic damage on a creature or a stun on players. A blow
angers the creature it hits, healing draws those who fight the healed, an aura
provokes nobody (the handlers go by the first effect of a spell for all its
targets). Which of these it is, whom of the players on the map it
reaches, and whether it costs mana, are choices. Of the creatures it reaches only
the one aimed at, because the areas of `getTargets` gather players
(`SpellCaster.cpp:415`). A cast with a cast time is a member of `pl`: it goes on
or has taken its time in `UpdatePlayer` (how many ticks is a choice), is
validated again by `CompleteCast`, and survives death and release, as in the
code. `Act` is the creature's turn in a fight: it gives up
(too far from home, or nobody left), or turns on a player of its table, having
struck off the highest one if he is elsewhere. Creatures are hostile and live on
one map, `Field`; all spawns take the same time to come back.

---

## 3. The runs

| run | instance | states | asks |
|---|---|---|---|
| `session_safety` | 3 sessions, 2 accounts, 2 characters, timeouts of 0 units, progress 0..1 | 914,890 | safety of the life of a session |
| `session_liveness` | 2 sessions, 1 account, 1 character, timeouts of 0, 1 and 0 units | 21,643 | are closed and silent sessions removed |
| `saver` | 4 operations, any number of starts, flushes and stops | 8,559 | queue, threads, order, stop |
| `belongings` | 2 bag, 2 bank slots, 1 ring slot; a ring and an item stacking to 2; 3 items gathered | 91,631 | what moves between containers, and what is saved |
| `trade` | 2 players, 2 slots, 2 trade slots, one owner of everything | 306,859 | sessions, conservation, terms |
| `trade_crash` | 2 players, 1 trade slot | - | (violated) no duplication on crash |
| `market` | 2 slots, two chained quests, one corpse, one limited and one unlimited good, buyback of 1, prices of two bits | 117,648 | the quest log, rewards, what is bought, sold and looted |
| `duel` | 3 players, health 0..2, countdown 2 | 49,760 | maps, course of a duel, the hook, refinement, and that countdowns end and offers go |
| `party` | 5 players, 3 ids, parties of 3 | 1,140 | maps, lists, succession, refinement |
| `guild` | 4 characters, 2 ids, guilds of 3 | 35,568 | maps, tables, marks, leadership, size |
| `combat` | 2 players, one casting, 2 creatures of one linked group, 2 maps, 2 ticks to respawn, 1 to burn, mana for one cast, timed casts at one of the creatures and at the other player | 1,495,672 | creatures, timers, casts, sight |
| `stuns_end` | 1 player, 2 creatures | - | (violated) stuns end |

States are the distinct states TLC finds (up to symmetry where it is used).

What each property says:

* **session_safety**: `OneSessionPerAccount` (logins kick before they
  authenticate, in any interleaving with closing sockets);
  `WorldMatchesSessions` (exactly the InWorld sessions hold a player, and the
  world entry is that session, so no dangling player); `NoLostProgress` (kick,
  timeout, lost connection and shutdown all leave the newest progress in the
  row); `HandoverThroughDatabase` (a character goes from one session to another
  only via the database).
* **session_liveness**: `ClosedIsRemoved`, `SilentIsRemoved`.
* **saver**: `SavesAccountedFor` (each save in one place only, those queued in
  the order of queueing), `PerformedOnceInTurn` (refinement of `SaveLog`: a save
  is performed once, when of those queued before it at most one is still to be
  performed, the one the other thread is at), `StopDrains` (stop returns, with
  nothing left and no wakeup missed), `QueuedIsPerformed`.
* **belongings**: `CleanIsSaved` (a container that is not marked is in the
  database as it is in memory, but for gems: a save that skips it skips
  nothing); `RearrangingConserves` (over three containers, in full stacks or in
  part, over empty slots or in exchange); `AddTakesAllThatFits` (what is refused
  would not have fitted anywhere); `SortLeavesOrder`.
* **trade**: `TradesAreSound` (the maps agree, no session outlives a player),
  `TradeConserves` (whatever either player did to the inventory after
  offering), `TermsAreKept` (the recorded offers do not change without both
  confirmations being withdrawn, and a trade that completes delivers to each
  side exactly what the other side's window shows at that moment. That it is
  still what was confirmed does not hold: the count is read again, and using up
  or splitting the stack lowers it).
* **market**: `StatusFollowsTally` (a quest is marked complete exactly while its
  stored tallies are full; the tallies may be behind what is carried after a
  silent `setItem`, and then a quest stays marked without its items until the
  next notification); `NotifiedChangesAreTallied` (every change but `setItem`
  leaves all tallies right, those a silent change had left behind included);
  `RewardIsExact` (a completed quest takes and pays exactly what it promises,
  however stale its tally and full the bags); `NothingIsLost` (what leaves a
  corpse or the buyback list arrives; only a sale drops the oldest entry);
  `LimitedStaysLimited` (a limited stock never reaches the number that marks
  an unlimited one, no level is left unclaimed, the state is well formed).
* **duel**: `ManagerIsSound` (the maps agree, offers have a target who is
  there; the challenger may have left, since his leaving keeps his offers); `DuelRunsItsCourse` (a stored duel is never overwritten, counts down
  second by second to the fight); `OpponentNeverKills`; `PairsKept` (refinement
  of `DuelPairs`); `CountdownEnds`, `OfferGoesUnlessRenewed`.
* **party**: `PartiesAreSound` (maps, offers, and what every client was last
  shown), `SuccessionIsOrderly`, `GroupsKept` (refinement of `PartyGroups`).
* **guild**: `IndexesAgree` (player map, member lists, online marks),
  `MemoryIsDatabase`, `GuildIsLed`, `GuildFits`.
* **combat**: `Sound` (a creature fights exactly when it has a target, the
  target is in its threat table, it has called for the help it may call for, it
  is never left evading; whoever is dead has a timer; two overlapping casts
  never spend mana that is not there); `GroupsRiseTogether` (linked spawns are
  due at the same time whoever of them dies when); `SightIsExact` (both sets of
  pointers and every client's view are the others on the map, so that no pointer
  outlives a player); `NoCascade` (the update of a creature in a fight draws
  nobody else in); `HelplessDoNothing` (a cast that completes for somebody dead,
  stunned or elsewhere does nothing to a creature, be it aimed at one or, as
  healing, at a player whom creatures fight).

**Bounds and why they are enough.** The interesting cases need two parties and
one outsider: two sessions racing for an account and a third that stays
(3 sessions); two duelists and a third party who challenges or hits; a full
party of three with a newcomer and a loner (5 players); a full guild of three
with a fourth who holds an offer, and a second guild. Ids are never reused in
the code; a model id may be reused once nothing refers to it, which makes the
number of ids a bound on coexisting parties or guilds only. Timeouts are `>`
tests on ages, so ages are capped one above the longest limit (`AgeCap`) and
the limits scaled to 0 and 1, keeping their order. Two slots and stacks of two
are the least in which topping up, opening and refusing occur in one call of
`addItem`, and a merge leaves a remainder; in `market` the bags are too small
for everything that is promised, and the corpse holds more than fits. The
second quest follows on the first, can be repeated, hands out an item and wants
another. In `combat` two creatures call each other and one is the linked member
of the other's group, a cast may take longer than respawning or not, so that each can
happen inside the other, and a second player is there to be fought, healed, and
to come and go; the second map is there to be elsewhere on. Instant spells and
items are used at everybody there is; those that take time at one creature and
at the other player (`Aim`), which differ from the rest in nothing the
properties see; the theorems have no such bound. The mana of players who never
cast is not followed. In `market` prices have two bits, so that one of a
good can be paid for and the total of three wraps. `MaxProgress`,
`MaxBatch`, `MaxItems`, `MaxGold`, `MaxExp`, `MaxHealth`, `MaxDurability`,
`MaxMana`, `Caster`, `Aim` are named bounds.

**Symmetry** is used in safety runs only, over constants no definition names:
sessions and accounts; players and party ids; characters and guild ids; the two
traders (the start is closed under swapping them). Duel guids and item ids are
ordered, creatures have a leader, and get none. `CHOOSE` in `GuildInDatabase`
picks from one id (a character has at most one row).

`CHECK_DEADLOCK FALSE` is said only for sessions, which end in `closed`.

---

## 4. Fairness

* `SessionLifecycle`: weak fairness of the loop's phases (the loop never blocks:
  accepts and receives are non-blocking, `main.cpp:133`), strong fairness of
  `Tick` and of `TimePasses`. A pass may skip the tick, but the clock advances
  and the accumulated time makes it due again, so it ticks infinitely often;
  weak fairness would let passes alternate for ever. Clients are promised
  nothing.
* `Duel`: weak fairness of an `Update` in which a second has passed, and of an
  offer growing old: the world ticks and the clock advances. No fairness of any
  player's action. `OfferGoesUnlessRenewed` has an escape because repeated
  requests refresh an offer.
* `AsyncSaver`: each thread proceeds when it can. Spurious wakeups and calls
  get no fairness, so termination does not depend on luck.
* `Combat`: weak fairness of `Tick`, whose steps are the loop's own. `StunsEnd`
  fails under it, so it is not for want of ticks.

---

## 5. The proofs

All theorems hold for every value of the constants that satisfies the named
`ASSUME`s; nothing is assumed besides. Eight modules hold them; `AsyncSaver`'s
are in `Session_proof`, those of `Quests` in `Market_proof`, those of `Duel`,
`Sight` and `Creatures` in `Combat_proof`, and `Market_proof`, `Trade_proof` and
`Belongings_proof` build on `Inventory_proof`.

**Session_proof** (assumptions: the `No...` values are no session, account or
character, and the order of the three timeouts). The four safety properties of
`SessionLifecycle` need each other and are proved as one invariant `IInv`:
`OneEach` (an account is logged in once) is why nobody deletes or enters a
character in play (`NotInPlay`), which keeps `Agree` (sessions and world name
each other), which is why a save writes the newest progress (`SavedRowIs`,
`ClearingSaves`, `TickSaves`). The strengthenings: `AccountMatchesState` (else a
session that has not logged in could share the account of one that has), `UnusedIsFresh` (else a
new character would come with somebody's progress) and `NobodyAfterShutdown`
(`NoLostProgress` speaks of the closed database only). `Clears` says once what
clearing the Players of a set of sessions does; the kick, the end of the
receive pass, the tick and the shutdown are its four uses. Which sessions are
removed, and when, does not matter to safety: beyond their types `IInv`
says nothing of clocks or of `toRemove`. Results: `AccountPlaysOnce`, `WorldAndSessionsAgree`,
`ProgressIsKept`, `HandsOverThroughDatabase`.

*The saver*, in the same module (assumption: `NoOp` is no save).
`SavesAccountedFor` is strengthened by `InPlace`: what each thread holds it
holds only at the points of the code where it performs it, a request to stop
stands exactly as long as the main thread waits in `stop`, and a worker that has
left has left an empty queue. A queue without duplicates is a sequence whose
elements are found at one index each; taking its head (`HeadTaken`) and appending
to it (`Appended`) are two lemmas. For the order, `QueueInOrder` says that the
queue holds what was accepted last, in the order of accepting (`TakenInOrder`),
so that what is still to be performed before a save is held by a thread: by
another than the one that performs it, and there are two (`HeldIsInTurn`).
Results: `SavesAlwaysAccountedFor`,
`ImplementsSaveLog` (every step of the two threads is a step of `SaveLog` or a
stutter), and `NothingIsLeftAtStop`, the safety half of `StopDrains`: whenever
`stop` returns, everything accepted has been performed.

**Inventory_proof** (assumptions: at least one slot, stacks of at least one).
Folds and sums of the community modules are defined by `CHOOSE` of a recursive
function, and the induction the library offers for those cannot be instantiated
here. The lemmas go another way, with sets and first-order quantifiers only:
`FoldExists` shows by a smallest set without a solution (`SmallestSet`) that the
recursive function exists, `FoldLeftSteps` that a fold over a sequence keeps a
relation between the index and what has been gathered, by a least index that
breaks it, and `SumTake`, `SumSame`, `SumOfExchange` what a sum over slots does
when one or two of them change. On these rest the results about
`Inventory.cpp`, for any number of slots: `AddingIs` (`addItem` yields stacks
within their limits; what is held and what is left over add up to what there
was; it opens no more slots than it needs; it refuses something only when every
slot is taken and every stack of the item is full), `AddingFits` (n free slots
hold n stacks), `RemoveIs`, `MoveIs`, `SplitIs`, `CountBound` (an item fills no
more than its slots hold) and `SortIs`. The last takes the two halves of `sort`
apart: `ConsolidateIs` follows the two nested loops (`Drawn`: what the inner one
has poured into a slot; `Settled`: no slot passed could still draw from a later
one), and `PackingConserves` shows that moving the used slots to the front in
any order changes no count, by packing them one after the other. It holds of
each of the results `std::sort` may have, which is not stable.

**Belongings_proof** (assumptions: at least one bank slot, finitely many items
and equipment slots, bounds that are numbers, and a stack limit of 1 for whatever
can be worn: `handleEquipItem` takes the whole slot and wears one). `CleanIsSaved`
is strengthened by one thing: no row holds what a row has no room for, so that
an inventory just read back, which is clean, is what a save of it would write.
`MarkingKeeps` is the argument for every handler: the containers it changes are
among those it marks, and only `Save` clears a mark. Conservation goes by
`Exchanged`: a handler that moves something between two containers changes one
slot of each side, and what one loses the other gains (`TransferIs`,
`Transferred`, `Dressed`, `WornPut`). The bank's sort builds its result anew and could lose
items in two ways. It could list other amounts than it counted: `PartsIs` shows
that full stacks and one last stack add up to the count. And its stacks could be
more than there are slots, since the assignment to slots stops at the last one:
`Shelved` keeps, item by item, that the stacks listed so far are no more than the
slots their items had (`CountBound`). Results: `CleanIsAlwaysSaved`,
`RearrangingAlwaysConserves`, `AddAlwaysTakesAllThatFits`, `SortAlwaysLeavesOrder`.

**Trade_proof** (assumptions: `NoPlayer` is no player, players are finitely
many, the start is well formed). For the sessions the invariant is the types of
the two maps and `SessionsAgree`; it is inductive because partners name each
other (`PartnersNameEachOther`) and only the two are in a session
(`NobodyElseIsInIt`). For the goods it is `TInv`, which adds that offers are well
formed and name distinct slots (`Distinct`): else `completeTrade` would look at a
slot it has emptied and deliver what is not there. Conservation follows the code's loops: giving
empties the offered slots one after the other and hands on exactly what was in them (`GivenIs`,
`GivingIs`), and while the k-th item is received there are n-k slots left among
those freed or counted by the test for space (`KeptHasRoom`, `ReceivedIs`), so
no `addItem` of a completion can fall short. What is delivered follows from the
same lemmas: `CountParts` splits what an inventory counts into what it counts in
the offered slots, which is what the window shows (`ShownIs`), and the rest, so
that each side ends with its rest and the other's window (`CompletingDelivers`).
Results: `SessionsAlwaysAgree`, `TermsAlwaysStand`, `TermsAlwaysDelivered` and the
two together, `TermsAreAlwaysKept`; `TradesAreAlwaysSound`,
`TradesAlwaysConserve`.

**Party_proof** (assumptions: `Nobody` and `NoParty` are no player, id or party,
a party holds at least two). The invariant is `PartiesAreSound` strengthened by
`AbsentAreFree`: a player who is not in the world is in no party and is shown
none, which `disconnect` establishes and a login relies on. It is inductive
because member lists have no duplicates: `RemovedFirst` says what removing a
member from a list leaves, and that the order of the others stays, which is also
why succession is orderly (`Passed`: the party passes to the first of the rest).
`StoreKeeps` and `RemoveKeeps` say once what storing a party and taking a member
out of one do to the two maps, the offers and the clients' lists; every handler
is a use of one of them. Results: `PartiesAlwaysSound`,
`SuccessionAlwaysOrderly`, `ImplementsGroups` (every step is one of `PartyGroups`
or a stutter).

**Guild_proof** (assumptions: `NoGuild` is no id and no guild, a guild holds at
least one). Invariant
`IInv`: `IndexesAgree`, `MemoryIsDatabase`, `GuildIsLed` and the strengthening
`OffersHaveMembers`: an offered guild that still exists has members. It is
needed because a creation cut short leaves an empty guild whose leader is not a
member; if an offer to him could exist, accepting it would make him a leader of
rank Member and break `GuildIsLed`. The argument for crashes: `Sound` says what
a start needs of the tables; every single statement of every handler keeps it
(`MayWrite`, `InterruptedKeeps`), and a start from sound tables restores the
whole invariant (`StartRestores`); the completed handler keeps it by
`WriteKeeps`. Size is a second invariant beside it (`AllFit`: membership is
finite and within the limit); only joining adds a member (`JoinedFits`), behind
the test in `acceptInvite`, and tables need no bound of their own because they
equal memory. Results: `IndexesAlwaysAgree`, `RestartFindsEverything`,
`GuildsAlwaysLed`, `GuildsAlwaysFit`.

**Market_proof** (assumptions: templates, drops and stock are well formed, numbers
reach at least as far as the gold a player gathers,
items finitely many, experience for a level above zero; nothing is said of what
they hold or how prices relate). *The log* has to follow the
inventory, whatever it holds. `FaithfulLog` is the invariant: every
state in the log has the shape of a quest state and the status its tallies call
for. Each operation on a log is a lemma (`Updated`, `Changed`, `Added`, ...);
the actions follow: `StatusAlwaysFollowsTally`, `ChangesAreAlwaysTallied`.
*The reward*: taking what a quest needs takes exactly that, since all of it is
there (`RemovingIs`), and the slots `completeQuest` counts before it grants are
enough for every `addItem` it ignores the result of (`GrantingIs`: after each
reward at least as many slots are free as the rest may need):
`RewardIsAlwaysExact`. *The limits*: `LimitedStaysLimited` is inductive by
itself, in five parts (`InParts`: what is carried, what was earned, the stock,
the buyback list, the corpse); the one part that takes an argument is the level,
which is the greatest one the experience reaches, because levels are gained in a
loop (`ExperienceIs`). `LimitedAlwaysStaysLimited`. *The corpse and the buyback
list*: `TakeDropIs` (a drop is handed out in full or what was refused is kept),
`TakingAllIs` (the loop over the drops), `SellIs`, `BuybackLosesNothing`;
`NothingIsEverLost`.

**Combat_proof** (assumptions: `None` and `Nowhere` are no player
and no map, no creature is a player, a leader leads itself, respawning takes at
least a tick).
The invariant has four parts. `GoodSight` is `SightIsExact` with its types: the
three relations are one and the same, so an operation need only be followed on
`Neighbours`, and the two lemmas `Forgetting` and `Meeting` say what its loops
do to that one relation. `GoodCreatures` reads the rest creature by creature:
`GoodCreature` is proved kept by each thing that can happen to one
(`Threatened`, `Killed`, `Risen`, `GivesUp`), then by those that touch several
(`Helped`, `Fought`, `Provoked`, `Slaughter`), then by what a spell does
(`StrikeKeeps`, `MendKeeps`, `BurnKeeps`, together `PerformKeeps`), then by the
actions. The proof
shows why `Sound` needs `called`: a creature that turns on a player calls for
help unless it has, and only so is every fighting creature one that has called.
`GroupsRiseTogether` rests on `RaisedTogether`: a death raises a member of a
linked group exactly when it raises its leader. Results: `AlwaysSound`,
`GroupsAlwaysRiseTogether`, `SightIsAlwaysExact`, `NeverCascades` (from the same
invariant: whoever fights has called already), `HelplessNeverAct` (a cast at a
creature was validated for a caster on its map; one at a player changes a creature
only through a healed player whom it fights, who is on the caster's map).

*Duels*, in the same module (assumptions: guids are positive, thresholds lie
within health, the countdown is positive). The inductive invariant is
`ManagerIsSound` with two strengthenings: `CountingDown` (a running countdown is
above zero, else the decrement leaves its type) and `OffersAreToOthers` (else an
accepted duel would have one fighter). Key lemma: every operation erases or
creates a duel together with both keys. From it: `ManagerAlwaysSound`,
`OpponentNeverKillsAlways`, `DuelAlwaysRunsItsCourse`, and `ImplementsPairs`
(initial states map to initial states, every step to a step of `DuelPairs` or a
stutter). `OneDuelEachAlways` (nobody is in two duels) is an invariant of the
abstract specification, which `Duel` has through the refinement.

**Only model-checked**: liveness and whatever rests on `ENABLED`
(`ClosedIsRemoved`, `SilentIsRemoved`, `CountdownEnds`,
`OfferGoesUnlessRenewed`, `QueuedIsPerformed`, `StopDrains`), which the prover
does not reach. Every other property of a passing run is a theorem's statement.

---

## 6. Where the code and what is said of it part

Runs that TLC refutes, each quoted in `PROJECT.json`:

* `trade_crash`: a crash after one of two traders was saved leaves the item
  with both (`Player.cpp:289`).
* `stuns_end`: nobody updates a player's auras (`Player.cpp:110`, against
  `AuraSystem.h:187`): a stun lasts until the player dies or leaves, and periodic
  damage and healing on players never tick.

Observed while modelling, and modelled as the code has it, not run:

* sessions: a kicked session is removed at a later pass rather than at once
  (`SessionManager.cpp:114`); any packet restarts the authentication timer
  (`PacketRouter.cpp:226`); the ping timer is not restarted on entering the
  world (`Session.cpp:74`);
* `addItem` returns `INVALID_SLOT` for items it added completely by topping up
  stacks (`Inventory.cpp:80`, against `Inventory.h:59`); hence a purchase that
  tops up a stack costs nothing (`VendorSystem.cpp:207`) and a corpse keeps what
  it has handed out;
* gems are in no row (`Inventory.cpp:424`), and a trade or the bank carries id
  and count only (`TradeSystem.cpp:454`); a trade delivers what the offered slot
  holds at the end, which may be less than was confirmed (`TradeSystem.cpp:398`);
* prices are products of `int32_t` (`VendorSystem.cpp:185`, `:461`): a total that
  is too great comes out below zero, is covered by any purse and pays the buyer;
* an offer of a duel is kept when its challenger disconnects
  (`DuelSystem.cpp:240`) and may be answered on a later visit of his;
* gold is kept in `Player::m_gold` and in a variable; vendor and loot change only
  the variable (`VendorSystem.cpp:188`, `LootSystem.cpp:327`);
* quest rewards ignore the result of `addItem` (`QuestManager.cpp:567`); the
  count of free slots made before is enough (`RewardIsExact`);
* a failed SQL statement raises nothing, so the rollback of `Player::save` is
  never reached (`Player.cpp:338`); `flush` returns while the worker may still
  be performing (`AsyncSaver.cpp:85`);
* a duelist killed by a third party is given full health when the duel ends,
  while the death flag stays (`DuelSystem.cpp:443`);
* party offers never expire, since nothing calls `PartyManager::update`, and an
  inviter who has become an ordinary member still brings the target in
  (`PartySystem.cpp:167`, against `:79`);
* the leader of a guild cannot leave it but can delete his character
  (`CharacterDb.cpp:350`, `GuildSystem.cpp:476`), which leaves a guild nobody
  can disband;
* creatures: one that gives up is set to evade and then, by losing its target,
  to idle, so `updateEvading` is never reached and it neither walks home nor
  heals; threat given to a dead creature survives its respawn
  (`WorldHandlers.cpp:1457`); periodic damage and item spells cause no threat;
* casting: a pending cast survives death and release; `handleCastSpell` starts
  neither category nor global cooldown; the stunned and rooted flags that
  clients see are never cleared, because the aura being removed still counts
  (`AuraSystem.cpp:656`);
* travel: nothing marks a player as in combat, so waypoints work in a fight
  (`WorldHandlers.cpp:3318`); a traveller is not sent the creatures of the new
  map (`WorldManager.cpp:371`), and the path he was walking goes on there
  (`Player.cpp:114`).

---

## 7. Not modelled, and why

The map covers about an eighth of the repository's implementation lines, which
count the second copy of the tree and, in the first, about as much that has no
behaviour to check: formatting, packet layout (`GamePacket*.h`), logging, names,
message texts, the columns of game data, and formulas in floating point (combat,
stats, coordinates, pathing). No property depends on them. Further:

* gossip, game data, configuration: read once or stateless;
* `DatabaseManager`: a wrapper whose statements appear where they are issued;
  statements are taken to succeed;
* framing of bytes into packets (`SfSocket.cpp`): sockets deliver packets or
  fail; chat: its state is ignore lists and rate-limit windows;
* aura stacking, absorption, dispelling and stat modifiers; cooldowns; positions
  of creatures, patrols, and which spells they pick;
* which creatures a client was shown: what `Sight` tracks are players;
* the rows of the quest log, restocking and corpse clean-up (never called);
* gold at the limit of its type: `Player::addGold`, sales and loot add to an
  `int32_t` unchecked; the models stop at `MaxGold`, below it;
* a creature that dies of an aura: `AuraManager::update` goes on through the list
  that its death has emptied (`AuraSystem.cpp:474`, `:552`), which C++ leaves
  undefined. The model takes the outcomes in which the process lives: what is
  left of the list is auras of a dead creature, whom neither damage nor healing
  reaches. In those in which it does not, the run ends there, and what is
  checked holds up to that point;
* the spells of creatures, but for what they do to players (`Harm`): one that
  would reach the creature itself or another is left out.

---

## 8. The plan

Order: the life of a session first, because every other component depends on
players entering and leaving it; then the systems in which two players
interact; then what persists; then the economy; then the world's tick. All of
that is modelled. What would add most from here:

1. Modules: `Framing` (bytes to packets in `SfSocket::receive`, refining a queue
   of packets); stacking and expiry of auras with death inside the periodic
   update, in `Combat`; cooldowns; creatures shown to clients, in `Sight`; the
   rows of the quest log, with `Belongings`' marks.
2. Theorems: that the safety of trades (`TradesAreSound`) survives the crashes of
   `TradeCrash`; an abstract specification of who plays which character, refined
   by `SessionLifecycle`.
