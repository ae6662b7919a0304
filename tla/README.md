# CiFarm backend: TLA+ models, checks and proofs

This directory is a verification development of the CiFarm backend: TLA+ modules
translated from the TypeScript sources, TLC configurations that check them on
small instances, and proofs of the main results for every instance. Paths below
are relative to the repository root. `PROJECT.json` lists, machine-readably, the
components, the runs, the mutants that show each property has teeth, the source
lines behind every definition, the findings, the hazards and the theorems.

## 1. The system

CiFarm is a farm-raid game. Every process keeps its durable state in one MongoDB
database (users, placed items, inventories, a key-value store); the processes
meet there, in BullMQ queues (Redis), and in Kafka topics.

| part | state it keeps | operations | hard behaviour |
|---|---|---|---|
| `apps/ws` gameplay handlers | none; one MongoDB transaction per message | plant, tend, feed, cure, fertilize, harvest, help, steal, buy, place, move, sell, upgrade, sort, deliver, claim | conflicting transactions of several players and of the cron workers; retried callbacks; counts and positions that are read and not written |
| `apps/ws` auth gateway and rooms | `isOnline`, rooms per user | connect, disconnect, visit, return | two devices of one user, events of old sockets arriving late, joins that are not awaited |
| `apps/ws` emitters | none | Kafka message to socket rooms | updates of aborted or reordered transactions |
| `apps/cron-scheduler` | last schedule date per kind of job | every second count what is due, cut it in batches, queue jobs | crash between queueing and the date; batches over a set that changes |
| `apps/cron-worker` | documents read into memory | age plants, animals, fruits, bee houses; regenerate energy; sell the delivery box | stale copies, retries on copies already changed, dropped jobs |
| `src/gameplay` | none | energy, levels, inventory, thefts, pets, limits, positions | arithmetic at boundaries |
| `apps/gameplay-subgraph`, accounts | users, sessions, sign in messages, followees | sign in, refresh, logout, follow, referral, names | two clients on stale snapshots; documents that do not exist yet conflict with nothing |
| `apps/gameplay-subgraph`, Solana | prepared transactions (cache), the vault, bulks paid, NFT metadata | prepare, book, send and confirm purchases, shipments, wraps | a chain that can not be rolled back inside a MongoDB transaction that can |
| `src/kubernetes/leader-election` | a lease | acquire, renew, watch, release | two replicas that both believe to lead (no application uses it today) |
| `apps/cli` seeders | the static game data | fill the database | data that code takes for granted |
| gateways, bots, clients of S3, chains, social sites | none of their own | pure input and output | - |

How they interact: a WebSocket handler opens a session, reads and checks every
document it needs, changes them in memory, saves them and commits; what changed
is emitted to the player and to the sockets watching the farm. Once a second a
scheduler counts the due documents and queues jobs `{time, skip, take}` (the one for delivery
every quarter of an hour, over all users); a worker reads `skip`/`take` documents **without a session** and then opens one transaction
per document, in which it ages the copy it already holds and saves it. All
cross-process hazards of the game come from that gap: what a Mongoose `save()`
writes is the paths the copy has changed since it was read, not the document.

What makes the parts correct:

* plants, animals, fruits, bee houses: items are neither created nor lost; state
  and stage agree; what a player did is not undone by a late worker; thieves are
  held to the protected minimum and to one theft each; growth does not stall.
* energy: never negative, never above the maximum of the level; a user below the maximum is
  still regenerated. (That energy spent stays spent is not among them: a worker saves
  an absolute value, and what was spent since its read comes back.)
* inventories: no two stacks in one slot, no stack above its maximum, moving,
  sorting and delivering change no totals.
* delivery: what is sold is paid once.
* shop and placement: limits hold, nothing but a reward makes a farm richer, one reward a day.
* accounts: a referral is known to both and paid once; the list of followees is sound.
* purchases: nothing is handed over before the chain is done with its transaction, and nothing
  twice to one caller; the vault adds up, as long as it is a number.
* presence: a socket watches one farm, a login ends the ones before, and of several the newest stays.
* leader election: a leader within its lease is the only one; a leader without one steps down.

## 2. Modules

| module | models |
|---|---|
| `Farmer` | `EnergyService`, `LevelService` on the user document |
| `CronJobs` | how every scheduler cuts what is due into jobs, and which documents a job takes |
| `PlantGrowth` | the `plantInfo` subdocument: schema defaults, `updatePlacedItem` of the worker, `CoreService`, what a Mongoose save writes |
| `PlantFarm` | the plant life cycle: eleven handlers, scheduler, queue, workers, over any users and tiles; composes the three above |
| `Produce` | what an animal, a tree and a bee house have in common: yield, protected minimum, thefts |
| `AnimalLife`, `FruitLife`, `BeeHouseLife` | `animalInfo`, `fruitInfo`, `beeHouseInfo`: how the workers age them and what the handlers make of them |
| `Husbandry` | the twelve handlers, three schedulers, queues and workers over those; composes them with `Farmer` and `CronJobs` |
| `Stacks` | the inventories of one user as a collection, and what `InventoryService` and the inventory handlers make of it |
| `Storehouse` | the handlers on it as overlapping transactions of several devices, the gold, the delivery job; uses `Stacks` |
| `EnergyRegen` | energy spent, bought and regenerated: handlers, scheduler, queue, workers; composes `Farmer` and `CronJobs` |
| `GameData` | the seeded catalogue, prices, limits, rewards and chances, and as assumptions what the handlers take for granted of them |
| `Estate` | the placed items of one user: shop, limits, positions, move, sell, upgrade, NFT placing, pets, daily reward, settings |
| `Accounts` | users and sessions: sign in, refresh, logout, follow, referral, names |
| `Payments` | abstract: the chain settles an order at most once; after that it is handed over, at most once to each caller |
| `Purchases` | the create and send mutations of the Solana purchases, shipments, wraps and conversions; implements `Payments` |
| `Presence` | connections, rooms and the online flag of one user |
| `LeaderElection` | the service, the lease and its watch |
| `ServiceProofs` | lemmas about `Farmer`, `CronJobs` and sums that several proof modules cite |
| `PlantFarmProofs`, `HusbandryProofs`, `StorehouseProofs`, `EstateProofs`, `AccountsProofs`, `PurchasesProofs` | the theorems about the module of that name |
| `ClusterProofs` | the theorems about what runs on several nodes: `LeaderElection`, `Presence`, `EnergyRegen` |
| `MC...` | constants of the TLC runs of a module |

### PlantFarm: state and actions

`plants[t]` is `placedItems[t].plantInfo` (or `NoPlant`), `harvestCount[t]` is
`tileInfo.harvestCount`, `users`, `toolbar`, `fertilizers`, `products` and `pets`
are the documents handlers write, `queue` is the BullMQ queue, `task[w][t]` is the
in-memory copy of tile `t` that worker `w` read outside its transaction, with the
set of paths it has changed since. `ledger` is a history variable of what ripened
on and what was taken from a tile.

* A handler is one action: it is one snapshot transaction whose decision rests
  only on documents it also writes (user, tile, inventory of the user), so two of them
  that overlap conflict and one is retried from its reads. A handler that throws
  changes nothing and is a disabled action. Exceptions: the tools in the toolbar and the level
  and network of the neighbour are read and not written; a handler sees them here as they are
  when it commits. A tool only leaves the toolbar when it is planted, and levels only grow.
* `plant-seed` asks of the item only that it lies in the toolbar, so `PlantSeed` plants seeds,
  tools, supplies and products. What is no seed makes a plant without a crop (`NoKind`): it is
  in the database and in the query of the worker, which throws on it (`plant.worker.ts:96`) before
  it changes anything, as `harvest-plant` and `thief-plant` would, and `remove-plant` refuses its tile.
* A worker is two steps per tile, the read of the batch (`WorkerReads`) and the
  save of one tile (`WorkerSaves`), so every handler may come between them. A save
  writes the modified paths only (`Saved`), also over a tile whose plant is gone
  (`Persisted`). `WorkerRetries` is `withTransaction` running the callback again
  after a write conflict, on the copy the first attempt has already aged.
  `WorkerFails` is a crash or an error that is logged and swallowed.
* `Math.random` is a nondeterministic roll.

Abstractions: growth acceleration of a tile is folded into `TickTimes`, the yield and
quality bonuses into `HarvestQuantity` and the rolls, and quantities are integers
(the code may compute fractional yields from `harvestYieldBonus`; the seeded data
keeps most of them whole). Products of a kind fill stacks in the storage; stack
positions are not modelled here. Synchronisation messages to clients are left out.

### Stacks and Storehouse: state and actions

`docs[i]` is the inventory document with id `i` (or `NoDoc`): its type, its kind
(storage, toolbar `tool`, delivery box `delivery`), its index and its quantity. The index is an
integer: `move-inventory` compares it with the capacity only, so a negative one is stored, and
what lies there takes none of the slots an addition counts. The
quantity of a tool, which the code leaves undefined, is 1. `golds` is `user.golds`.
`txn[d]` is the snapshot of the transaction a device has open, `copy[w]` the user
document a delivery worker read outside its transaction, `jobs` the delivery queue;
`gained` and `spent` are history variables.

An operator `...Results` of `Stacks` gives the set of collections a piece of code may
leave behind. It is empty where the code throws and has several members where the
result rests on the order of `find`, which MongoDB does not promise. `Fillings` and
`NewStacks` are the loop of `add` said as a set: which stacks may be topped up and how
far, which slots the rest takes. `Sorted` is the merge and renumbering of
`sort-inventories`, with a document of a type that is listed twice counted twice, as
the map of the handler does.

Unlike in `PlantFarm`, a handler is two actions here, because moving, sorting and
buying read documents they do not write:

* `Begin(d)` opens a transaction: it takes the snapshot. A device stands for one
  message in handling. Handlers are asynchronous, so two devices are two sockets as
  well as two messages of one socket.
* the handler's own action decides on the snapshot and commits. A document it writes
  must not have been written since (`NoConflict`), and a handler that charges gold or
  energy writes the user document as well (`UserUntouched`). What it only read may
  have changed: that is MongoDB's snapshot isolation, and write skew is what it permits.
* A refused commit is retried from `Begin`, and a handler that throws changes nothing.
* `Use` stands for the handlers that use something up: a fertilizer, or any item of the toolbar,
  since `plant-seed` asks for no more.

The delivery worker is `ReadsUser` (the batch read), then `SellsBox`, `RetriesSale`
(the callback runs again on the copy the first attempt has paid already) or `GivesUp`
(an empty box, an error, a crash). `SellsBox` reads the box in its own transaction and commits in
one step: a device that writes the box in between conflicts with it, or adds a document
it does not see and which stays.

Abstractions: one user, since inventories of two users never meet in one document.
`deliver` and `retrieve` of several ids are handled one after the other by the code and are one id
per message here. Gold the player earns elsewhere is
`EarnGold`; energy is left to `PlantFarm` and only makes a handler write the user document.
Amounts are positive, because Mongoose does not write a user whose value is unchanged.
`deliveryCapacity` is read nowhere in the code: the box is bounded by the capacity of the
storage, and the model does the same. The kind `WholesaleMarket` is declared, and no
handler uses it.

### EnergyRegen: state and actions

`users[u]` is the user document as far as energy and levels go, `regen[u]` its
`energyRegenTime`, `queue` the BullMQ queue. `task[w][u]` is what worker `w` holds of
user `u`: the copy as read, the same copy as changed since, the level read with it and
the time of the job.

* `Act` stands for every handler that charges a player (`use-bug-net` is the one mapped:
  nothing but the charge matters here), `Bitten` for a dog that bites a thief,
  `BuyEnergy` for the answer to a confirmed purchase. Each reads and writes the user
  documents it decides on, so each is one transaction and one action.
* `WorkerReads` is the batch read outside any transaction. `WorkerSaves` runs
  `updateUser` on the copy and writes the paths that differ from what was read; the
  level is never among them, so a level gained meanwhile stays. `WorkerRetries` is
  `withTransaction` running the callback once more on the copy that has rested already:
  time and energy are added again, and what stops it is the `energyFull` of the copy.
* One unit per call, however much time passed: the rest of the timer is dropped.

Abstractions: seconds are natural numbers. The filter on `createdAt` only
excludes users created after the tick, and users are not created here.

### Husbandry: state and actions

`items[i]` is the placed item `i` (its `animalInfo`, `fruitInfo` or `beeHouseInfo`, told apart
by `sort`), `blossoms` the flower beds in bloom, `supplies` and `products` what players hold,
`queue[s]` the BullMQ queue of a sort, `task[w][i]` the copy worker `w` holds. `ledger` is a
history variable. The shape is that of `PlantFarm`: a handler is one action; a worker reads a
batch (`ReadAnimals`, `ReadFruits`, `ReadBeeHouses`) and saves item by item (`WorkerSaves`, with
`WorkerRetries` and `WorkerFails`), and a save writes the modified paths only. The bee worker
counts the flowers next to the house when it saves, not when it reads.

As in the code: the owner of a fruit tree is not asked for by `harvest-fruit`; the bee worker
counts the flowers of any user on the neighbouring coordinates; a hungry adult is no longer sick; thieves of
an item are never forgotten and an animal is never exposed twice; the harvest of an animal asks for
no crate; a supply is looked up without its owner.

Abstractions: attributes of NFTs are `accel` and `bonus`, fractions are rounded down where they
are computed, and products fill stacks without positions, as in `PlantFarm`.

### GameData and Estate: state and actions

`GameData` holds no state. It says what the seeders write, in sets and functions rather than
rows, and its assumptions are evaluated by the run of `Estate`: every crop pays more than its
seed, nothing sells for more than it costs, a new farm keeps the limits and has no two items on the same ground, whoever
buys more pays more. Two of them state a gap the code has: the quality pumpkin has no inventory
type, so a ripe one can be harvested by nobody (`HarvestsCanBeStored`), and the last land has no
entry in the table `send-expand-land-limit` looks it up in (`LastLandOutOfReach`).

`Estate` is one user: `user` (gold, selected pets, streak, settings), `placed[i]` the placed item
with id `i`, `today`, and `txn[d]` the snapshot of device `d` with the documents written since
(`stale`). `offer` is what the last purchase said could still be bought, `claims` the rewards
paid. As in `Storehouse`, `Begin` takes the snapshot and the handler's own action decides on it
and commits; a commit is refused when a document it writes is stale. Purchases, sales, upgrades
and claims write the user; `Move` and `PlaceNFT` do not. Selling is by kind, and a
decoration can not be sold though the data says so. Occupied positions are the anchors of items,
as the code has them. `DayPasses` is the clock; `claim-daily-reward` reads it after its snapshot is
open and before it commits, so a reward may be saved on the day after the one it was claimed on.

### Accounts: state and actions

`docs` holds users and sessions by id, `messages` the sign in messages in the cache, `txn[c]`
the snapshot of client `c`. A first sign in and a refresh insert documents, which conflict with
nothing; a referral writes two users. A save writes the fields that changed (`Saved`), and a
followee is pushed behind what the list holds by the time of the commit: it is the write conflict
(`NoConflict`), and not the list in the snapshot, that keeps two clients from pushing one name twice. The name is compared with documents read outside the
transaction. Tokens and signatures are taken as valid, and a message stays valid until it expires.

### Payments and Purchases: state and actions

`docs` holds users, inventories, metadata, placed items and the vault by id; `bulkPaid` is apart
because it is written without the session. `prepared[t]` is what the cache holds of transaction `t`,
`chain[t]` what the chain did with it, `nft[n]` the state of an NFT there, `handler[h]` where a
running mutation stands, `credited` a history variable: how often transaction `t` was booked for user `u`.

The cache is keyed by the hash of the message, or of all messages, and its entry names neither the
user nor the purchase: golds, energy and land all store `{selectionIndex}`, a wrap and an unwrap
`{nftMetadataId}`, boxes and conversions share the form of their key. So `Begin` takes any
transaction, any user and any mutation that goes on with that entry (`Sends`), and all that is
written is written to the *caller*: `BuyGolds`, `BuyEnergy` and `ExpandLand` take each other's
entries (the index of the land is looked up among the options for golds), `PurchaseBoxes` clears the
vector of the caller, and a conversion sent as boxes adds an amount that is undefined, which leaves
the tokens locked `NaN`. A mutation that misses a field throws before it has written anything and is
left out, but for a shipment, which misses it when the transaction has been sent.

A send is four steps: `Begin` (snapshot and cache), the write of the documents with their locks,
`Submit` and `Confirm` on the chain, `Commit`; shipping submits before it writes. A save that changes
nothing writes and locks nothing (`Modified`), as when land is expanded to the index it has. `Fail`
is an error, a write conflict or a crash at any of them and undoes the documents but not the chain; a
retry is `Fail` and `Begin`. `Execute` is the chain: a transaction lands once however often it is
sent, executed or failed, and is refused once it is final. `Confirm` waits for it to land and does not
ask which, because no mutation looks at the error in the answer of `confirmTransaction`. The
transactions of one purchase of boxes may land without each other (`Parts`); a conversion only waits for its last.

`Payments` says what all this is for, and claims no more than the code gives: what is handed
over, the chain is done with; nobody is handed a transaction twice; the purses hold what was handed
over and nothing else. The refinement (`Promise`, property `PurchasesKeepPromise`) maps an order to
what a purse may get for it, settled to what has landed in all its parts, delivered to `credited`, the purse
to the golds and tCIFARM of the users. It does not say that the chain executed the order
(`BookedIsExecuted`), that only one user gets it (`BookedForOne`), or that what was paid is handed
over: after a failed commit the chain refuses the same transaction. The first two are violated, see the findings.

### Presence: state and actions

A step is what runs between two awaits: `Connect`, `Authenticate` (token verified, watcher room
joined, the write of the flag sent, since none of the joins is awaited), `FetchSockets` (the answer
of one node; `asked[s]` are those yet to answer, `found[s]` who was in the room when they did),
`JoinPlayerRoom` (all have answered: who was found is told to go, and the socket joins), `Disconnect`,
and `Visit` and `Return`. A login whose socket is closed by then still dismisses everyone it found
and joins nothing (step `gone`). `FetchFails` is a node that does not answer in time: nothing
catches the rejection (`auth.gateway.ts:94`), so the process ends with all its sockets, and `handleDisconnect`
runs for none of them. `writes` are the updates of `isOnline` under way; `UpdateOnline` applies any of
them, since nothing orders them.

### LeaderElection: state and actions

`lease` is the Kubernetes object with its resource version, `node[r]` the fields of the service,
`tasks[r]` the calls a replica has under way (an attempt, a renewal, a release), each a small
program whose steps are the awaits, `events[r]` what the watch has yet to tell. A replace is
refused unless the resource version is the one read (`Unmodified`). `Tick` ages the lease and
everything that remembers its renewal time. A restarted pod has another identity and is another
replica. The service tells a missing lease and a lost race apart by `response.statusCode` (404 and 409,
`leader-election.service.ts:491`), where the installed client (`@kubernetes/client-node` 1.2.0) has `code`:
it then takes neither branch. `Create` allows both, so that the model has all the code does. Failures, answers that are lost, broken watches, ended processes and deletions of the
lease are faults, bounded together by `MaxFaults`.

## 3. Runs

Twelve runs, one per question or component: eleven pass and one shows a disagreement between the code and its
comment. Deadlock is not checked where players may run out of energy, seeds, jobs or messages and
stop. No fairness is ever assumed of a player or a client.

### PlantFarm

4 growth stages (the least with a thirsty, a pest and a ripening stage), a yield of 10, a
minimum of 70 % and a stack of 8, so that a harvest takes two slots, a cat lifts a theft above the
minimum, and storage may overflow.

| run | asks | bounds |
|---|---|---|
| `farm_one_worker` | does a stale save ever lose or create yield, forget a thief, separate stage from state, touch a plant a player must act on, or leave a plant standing still? | 1 perennial crop with 2 harvests, 1 tile, an owner with a dog, a thief with a cat, 1 worker, 1 retry, 1 queued job, ticks of 1 s against stages of 2 s, all rolls of thirst and pests |

One tile is enough because no guard or assignment relates two tiles except through the
user documents and the storage of their owner. Energy bounds the number of what the
thief may do (three times, and a bite takes all of it), the owner has one seed, one fertilizer and one of
each tool to plant, feed and use; nothing else cuts the state space. One worker is what is deployed; what holds for
any number of workers is proved (section 4).

Fairness: weak on the scheduler, which ticks every second; strong on a worker reading a
job and on saving a held tile, because jobs can be dropped and saves can fail any number
of times but not for ever. `GrowthProgresses` speaks of plants that grew from a seed: of one without a crop
it does not hold.

### Husbandry

| run | asks | bounds |
|---|---|---|
| `husbandry` | is what an item bore what was taken from it and what it still offers; do fields saved by different writers fit together; is what a worker holds still growing; does every item come to wait for its owner? | one item, an animal, a tree or a bee house chosen in the initial state; an owner with a dog, a visitor with a cat, 1 worker, 1 retry, 1 queued job per sort, ticks of 1 or 2 s, one flower bed |

One item per behaviour is enough for the reason given for tiles; the three sorts share their
queues' shape and not their documents. Growth, hunger and yield times of 2 or 3 s let each clock run out
before the others, and a tick of 2 s passes over a threshold; the energy of the owner allows for two harvests, so that what a harvest leaves
behind is met again. Fairness as in `PlantFarm`, for each of the three schedulers. An animal that
came to yield may be found hungry by the callback that is run again, with its product on it:
`StateFitsAge` and `YieldLedger` say what holds nevertheless.

### Storehouse

Stacks of 2 (64 in the seeded data), the least at which a stack can be partly full, and a
toolbar of 1 slot, the least in which a move finds it taken. Two or three
documents and slots let an addition top up one stack, open another and find no room for a third.

| run | asks | bounds |
|---|---|---|
| `store_stacks` | do adding, moving, merging, swapping, sorting, delivering and retrieving keep slots apart, stacks within bounds, tools single, goods whole? | 1 device, 3 documents, 3 slots, a product, a feed (listed twice) and a tool, 3 units of each, moves to the indices -1, 0 and 1 |
| `store_delivery` | do two devices and the delivery worker, retried and late, use, store or sell a unit twice, and is a box of products sold in the end? | 2 devices with overlapping transactions, 1 worker, 1 retry, 1 queued job, 2 documents, 2 slots, a product, 2 units, gold earned meanwhile |

`MaxGained` bounds the units ever obtained and with it every quantity; ids are
interchangeable, so the run without liveness uses them as a symmetry set. `SlotsUnique` holds for one device
only (section 4); `ToolsOnce` is checked with one device and proved for any number.

Fairness (`FairSpec`): weak on `Schedule`, a cron job every quarter of an hour;
strong on `ReadsUser` and `SellsBox`, because jobs are dropped and sales abort, but not
for ever; weak on `GivesUp`, because a callback ends.

### EnergyRegen

Two users of level 1, two experiences short of the next level, so that one action or one bite
changes the maximum while a worker holds an older level.

| run | asks | bounds |
|---|---|---|
| `energy_regen` | is energy kept within the maximum by whatever is saved late or twice, does a user who is due lack energy, does energy return? | 2 users, batches of 1, 2 queued jobs, 1 worker, 1 retry, ticks of 1 or 2 s against a period of 2 s, purchases of 5 % |

`LeastEnergy`, `MaxLevel` and `MaxExperiences` keep players between 49 and 53 units:
spending stops at 49, which leaves up to 4 units below the maximum of level 2 for
saves, purchases and level-ups to race on, and no property speaks of what is further
below. A tick of 2 s pays a whole period at once. Fairness as in `PlantFarm`.

### Estate

| run | asks | bounds |
|---|---|---|
| `estate` | do limits checked on stale snapshots hold, does anything but a reward enrich, is a day paid once, is an animal bought into a house that is there, is what the shop answers true? | 2 devices, a pet house, a stored NFT tree and room for two more items, limits and capacities of 1 (2 after an upgrade), the seeded kinds, prices of 1 and 2, gold for one purchase, 2 days, 1 overlapping commit, 2 places |

The catalogue is the seeded one; only prices, capacities and limits are shrunk, so that the first
purchase of a kind meets its limit. An overlap of 1 is enough to make every commit stale: a second
one makes it no staler. `LimitsKept` and `AnswersAreHonest` leave the trees out, because placing an
NFT does not write the user: beside a purchase it makes one tree too many. `ItemsApart` does not
hold for the same reason. The pet house can not be sold, a coop can, which leaves its animals without a house, so only the moment of the purchase is claimed (`AnimalsHousedWhenBought`).

### Accounts

| run | asks | bounds |
|---|---|---|
| `accounts` | is a referral known to both users and paid once, do lists of followees stay sound? | 2 clients, 2 users of one network and one who signs up on another, 2 sessions, limits of 1, 1 overlapping commit |

### Purchases

| run | asks | bounds |
|---|---|---|
| `purchases` | do the handlers for golds, energy, land and the wrapping of NFTs implement `Payments`, and is every wrapped item that of validated metadata, one item for each? | 2 users, 2 transactions, 2 handlers, one index for golds, energy and land, 1 NFT, 2 metadata documents, 2 items |
| `vault_purchases` | do boxes, conversions and shipments implement it, does the vault add up, does the draw of the boxes stand? | 2 users with a stack each, 2 transactions, 2 handlers, boxes of 1, 2 draws |
| `shipped_bulks` (violation) | are the bulks counted those shipped? | as `vault_purchases`, all mutations but those of NFTs, boxes of 2 |

Two transactions suffice for whatever two purchases do to one user, the vault or each other's
draw, also when they are two preparations of one wish; every transaction may be sent any number of times,
by either user and by any mutation that goes on with it. A stack of 3 is cut by the first shipment of 2
and used up by the second, which no longer finds enough. Metadata and an item may be made for a second wrap while the item of the first is sold.
The kinds are split over two runs because they do not fit into one; they meet in the documents of the
users and of the vault, and the theorems (section 4) are about all of them at once.
There is no fairness: the chain need not execute anything.

### Presence

| run | asks | bounds |
|---|---|---|
| `presence` | does a socket watch one farm, do simultaneous logins leave the newest, does a login end the ones before? | 2 sockets of one user, a node for each, 1 neighbour |

Two sockets are two logins that overlap in any way, over two nodes that answer at different times; the two
invariants are proved for any number (section 4). Fairness: weak on every await of the server, which
comes back with the answer or the error, and on cutting off a dismissed socket.

### LeaderElection

| run | asks | bounds |
|---|---|---|
| `election` | is a leader within its lease the only one, and does a leader whose lease is another's find out? | 2 replicas, 1 task at a time, a lease of 1 tick, 1 retry, breaker after 2 failures, 1 event under way, 1 fault of any kind |

With two faults the safety invariant was checked apart (2.7 million states). Resource versions are
reused when nothing refers to them any more, since they are only compared. Two tasks at a time,
which overlapping renewals of the timer would need, are beyond the time of a run; `LeadersHoldTheLease` (section 4) holds for any number. Fairness:
the event loop of a running replica keeps turning; faults are bounded, so a call does not fail for ever.

### Findings

`shipped_bulks` keeps `BulkPaidInTransaction`: "the bulk paid is updated in the same transaction"
does not hold, because it is read and written without the session; a shipment that fails after
that, or is retried, stays counted.

Properties the modules state, that what the code does violates, and for which no run is kept. To see one,
list it as the INVARIANT or PROPERTY of the configuration named.

* `GrowthProgresses` without its condition on the kind (`PlantFarm.cfg`): a plant without a crop grows for
  ever, the worker throws on it at every tick and `remove-plant` refuses its tile.
* `FertilizerResetByStage` (`PlantFarm.cfg`, queue of 2, ticks 1 and 2): "reset fertilizer after" (`plant.worker.ts:136`) does not
  hold for a fertilizer used after the worker's read: `false` over `false` is no modification.
* `FullMeansFull` (`EnergyRegen.cfg`): a level gained raises the maximum and leaves `energyFull` as it was,
  so a user below the maximum is neither regenerated nor allowed to buy energy.
* `SortKeepsItems` (`StorehouseStacks.cfg`): the last stack gets `total % maxStack`, which is 0 when the total
  fills its stacks exactly; a feed listed twice is merged with itself.
* `DeliveredGoodsArrive` (same, `MaxGained = 4`, `StartGolds = 4`): `deliver` and `retrieve` save the first updated stack only.
* `DeliveryPaysWorth` (`StorehouseDelivery.cfg`): the worker writes gold as it was at its read plus the worth.
* `SlotsUnique` with two devices (`StorehouseStacks.cfg` with `Devices = {phone, tablet}`): the check of the target slot is a read, so two
  moves into one slot both commit.
* `BoxIsEmptied` (`StorehouseDelivery.cfg` with `Tools = {crate}`): a move onto a stack in another kind swaps the kinds as well, so a tool may get
  into the box, where the worker throws on it every time.
* `ItemsApart` (`Estate.cfg`): moving an item and placing an NFT write that item only, so two devices
  put two items on one place.
* `ReferrerGetsReferralReward` (`Accounts.cfg`): `update-referral.service.ts:108-116` pays the referrer the
  reward of the referred user and the other way round.
* `BookedIsExecuted` (`Purchases.cfg`): a transaction the chain failed is booked, as the error that
  `confirmTransaction` returns is not looked at.
* `BookedForOne` (`Purchases.cfg`): the entry of the cache stays and names no user, so a second user who sends the
  same transaction before it is final is booked too.
* `VaultIsNumber` (`PurchasesVault.cfg`): a conversion sent as a purchase of boxes adds `undefined`.
* `OnlineFlagTells` (`Presence.cfg`): a disconnect during the authentication, or the late write of an
  old socket, leaves the flag wrong ("whether the user is online").
* `TakesOver` (`LeaderElection.cfg`): a replica tries to lead at its start and when the lease is
  deleted. When a lease expires or is released nobody tries, and a pod that restarts quickly
  gives up while the old lease lasts.

Seen while modelling, and modelled as the code has it:

* `dogDefenseSuccess` increments `helpedCount` on a document no caller saves.
* The schedulers of plants, animals, fruits, bee houses and energy pass an end offset as `take`, and the
  workers use it as a limit, so batches overlap (`CronJobs.Batches`, `CronJobs.Page`). The one of delivery
  passes the size of a batch.
* `sort-inventories` takes the types in the order their first document was found; the
  list of priorities only says which types take part.
* `remove-plant` refuses the tiles that have a plant.
* `harvest-fruit` and `upgrade-building` do not compare the owner; the bee worker counts the flowers of any user at the coordinates next to the house.
* The streak of the daily reward is raised before the reward is looked up, so the reward of the
  first day is never paid, and the last one is paid from the fourth claim on.
* A decoration is marked sellable and `sell` has no case for it; stored NFTs still occupy their
  positions; a move ignores the row and the column of the item it moves.
* Refreshing leaves the old session active; a signed message can be used until it expires; two first sign ins
  of one wallet may create two users.
* Two land purchases prepared at the same index are both paid, one for nothing. Selling an NFT
  fruit leaves the NFT frozen.
* A login whose socket is closed while it looks up the room dismisses everyone and leaves the user no connection.
* A leader whose renewal was lost on its way back steps down though it holds the lease.

## 4. Proofs

### PlantFarm

`PlantFarmProofs` proves, for all constants that satisfy the assumptions:

* `TypeCorrect` and `ThievesStay` for any number of workers;
* `InductiveInvariant`, and from it `HeldTilesKeepGrowing`, `LedgerBalanced`,
  `NeverOverdrawn`, `RipenessAgrees` and `WaitingPlantsLeftAlone`, under
  `SingleWorker`: at most one worker holds copies at a time. That is the deployed
  configuration (one container, BullMQ concurrency 1), and the assumption is needed:
  two overlapping batches can ripen a plant twice.

The invariant `Inductive` adds to the checked properties what ties a held copy to
the document: the copy was read from the planting that is still there, the fields
the worker has not modified agree in stage and kind, the database plant is still
growing (only a worker can make it stop), and a plant that is not ripe has nothing
left. The heart of the argument: every handler that could invalidate a copy needs
a thirsty or ripe plant, and a held plant is neither until the single worker saves
it. There is one lemma per action and per conjunct it can disturb; small lemmas
about record updates keep the leaves within reach of the SMT solver.

### Husbandry

`HusbandryProofs` proves `TypeCorrect` for any number of workers and, with a single one
(`SingleWorker`, for the reason given above), `InductiveInvariant` and from it
`HeldItemsKeepGrowing`, `YieldsAccounted` and `StatesFitTheirAge`: every safety property of the run, for
any owners, visitors, items, growth, hunger and yield times.

The three sorts of items differ in their documents and share the argument. First come lemmas
about the pure operators (`GrowAnimalLemma`, `GrowFruitLemma`, `GrowBeeHouseLemma` and one for each
harvest, theft and cure): what they make of a document that `Fits`, whose fields agree, fits again.
The invariant adds to the properties what ties a held copy to its document (`Fresh`):
the item is still there, of the same sort and growing; a field that the worker has not modified is that of the
document, but for the state, which a cure may have set back to `Normal` in between; and a
copy that came to bear will write its state. A handler that harvests or steals needs an item that
bears, which a held one does not, so only cures meet a copy (`Undisturbed`), and what `Persisted` merges of
the two fits again. A copy that is aged once more by a retry, also one that bears already, is still a
copy of an item that does not, so what the save writes is all the item has to offer, which is what the ledger counts. That the honey of the
flowers is a natural number, once an assumption, is proved (`SumOfNats`).

### Storehouse

`StorehouseProofs` proves, for all stack sizes, capacities, types, prices, priorities
and any number of workers:

* `TypeCorrect`, `ToolsNeverTwice`, `NothingComesFromNothing` and `GoodsAlwaysArrive` for any
  number of devices;
* `SlotsStayUnique` for one device; with two it does not hold (section 3, findings).

Two invariants carry the first and the last. `SnapshotsFollow`: while a device's snapshot is not marked
`userWritten`, every tool in stock is in the snapshot too. A second purchase
of a tool therefore either sees the first one or conflicts with it on the user
document. `SnapshotsCover`, for one device: whatever is in stock is in the device's
snapshot, with the same kind and index, since between its snapshot and its commit only the
delivery worker writes, and the worker only deletes. So slots that are
unique after the handler on the snapshot are unique after its commit.

What an operator of `Stacks` leaves behind comes first, as lemmas: collections stay
collections, slots stay unique, no tool appears. `AddSound` rests on
counting (as many lowest free slots as new stacks, all distinct), `SortKindSound` on the fact that a kept entry's index,
the number of entries before it, differs for every two entries of a linear order.
Assumed of the constants are the named assumptions of `Stacks` and `Storehouse` only:
finitely many ids, tools apart from the other types, positive prices.

`NothingFromNothing` is not inductive: `sort-inventories` may leave a stack of quantity 0 (the finding on
`SortKeepsItems`), and such a stack can still be used once, since `removeSingle` deletes what would
fall below 1. `StockAccounted` therefore counts a stack of none as one unit (`Weight`, with a
floor of 1), and is inductive: `HandleBalanced` says of each handler that on its own snapshot it leaves no
more of a type, with what it used, than it found, with what it obtained; `CommitStock` carries
that over to the documents of the moment: a commit writes only what is as the snapshot has it, so the stock
changes by as much as in the snapshot, however old that is. For a sort the floor is just enough: `SortedWeight`
shows that the merged stacks, full ones and a last one of `total % maxStack`, weigh no more than what was
merged, also where the remainder is 0 and the last stack loses a full one.
`GoodsArrive` follows from the same lemmas with a floor of 0, where `AddStock` and `MoveStock` are equations.
What is counted is a `Total`, the number of units under a function; `TotalUpdate`,
`TotalExchange` and `TotalBalance` say how it changes, shown with a smallest counterexample as below.

### EnergyRegen

`ClusterProofs` also proves of `EnergyRegen` `TypeCorrect`, `NeverAboveMaximum` and
`DueUsersBelowMaximum` for any users, any number of workers and all batch sizes, so for
overlapping batches as well. The properties are not inductive alone: a save writes what a
copy holds. `Inductive` adds `CopiesSound`: a copy was read from a user who was due, at a level
the user still has or has passed, and its energy, flag and timer agree with the maximum of
that level. The step that matters is `WorkerSavesInductive`. The copy was due, so the
flag is either written as true or left alone; energy that is written fits the maximum of
an older level, and levels only grow; energy that is not written fits already. Needed from the constants: what a
player does costs energy (spending nothing would mark a full user as due), and a period
is positive.

### Estate

`EstateProofs` proves, for every catalogue, price, limit and place that satisfies the named
assumptions, any ids and any number of devices, all five properties of the run: the invariants
`OneRewardPerDay`, `LimitsAreKept` and `AnswersStayHonest`, and the action properties
`RewardsAloneEnrich` and `BoughtAnimalsAreHoused`.

The argument is `SnapshotsAgree`: an item that nobody wrote since is as the snapshot has it, and
as long as nobody wrote the *user*, the farm is the snapshot's (`Grown`): the same items, but
for where they stand and for buildings that were upgraded for nothing. So a handler that writes the
user, as every purchase, sale and reward does, decides on the counts and capacities it commits to;
one that writes an item only, as a move, changes no count. `CommitLands` says so once, and there is
one lemma for each action. The capacity of the houses and the resale value of the farm are sums
over the items; `SumGrows` and `SumAdded` of `ServiceProofs` (below) say how they change when a
house grows and when one item comes or goes. Assumed of the data: nothing sells for more
than it costs, no upgrade makes a building smaller, pet houses are not bought back, everything
on offer has a price, and the farm at the start keeps its limits. The run evaluates these for the
seeded catalogue. Without the first `RewardsAloneEnrich` fails, without the third a sold pet house breaks
`LimitsKept`. `LimitService.getPetLimit` reads the pet house outside the transaction
(`GetPetLimit` does, too); that the answer is honest all the same rests on pet houses never going and
never shrinking.

### Accounts

`AccountsProofs` proves `ReferralsArePaidOnce` and `FolloweesAreSound` for any users, networks,
limits and number of clients. The invariant adds to them `SnapshotsAgree`: a document that is not
stale equals the snapshot's, and no document of a snapshot has gone or belongs to another wallet since
(nothing removes a user), so that a followee seen in a snapshot is still there and still of
the same network. A referral reads both users and writes both, so two referrals of one user, or a
referral crossed by a follow, conflict; a commit writes what the handler wrote on top of documents
that are as it read them, and there is one lemma for each handler.
`unfollow` filters a list; that a filter leaves out one name and keeps the others single
(`Without`) is an induction over the length of the list, done as an induction over a set of
numbers (`NumbersByInduction`), because the library's induction theorem takes an operator.

### Purchases

`PurchasesProofs` proves for any users, transactions, handlers, prices and documents, and for every way to
send a transaction through a mutation: `VaultAddsUp`, `ItemsKeepMetadata`, `DrawsStand`, and
`PurchasesImplementPayments`, the refinement of `Payments`: initial states map to initial states and
every step to a step or a stutter (`OrderImplemented`, `SettleImplemented`, `DeliverImplemented`).

`PurchasesInv` says what a handler at each of its steps holds: the writes that its mutation makes for its
caller of what the cache holds, on top of the documents it read (`Written`), locks nobody else has,
documents that are as read as long as they are locked (`LockInv`), a transaction that is final before it is
committed and, when it wrote anything, committed at most once for each caller (`OnceInv`). That the writes are those is
`HandlerWrites`. Two arguments carry the rest. Two sends of one transaction by one user write a common document
(`OneWriter`): the user, or the metadata. Whoever sends first has locked it before he sent and
keeps the lock until he commits, so the two never wait for the chain together, and when the next one
comes the chain has made the transaction final and refuses it. A shipment is sent before it is
written, so two handlers may both confirm one; it is kept from being booked twice for a user by his
document: whoever booked it left more tCIFARM with him than the late one's snapshot has, so the
late write conflicts. `bulkPaid` has no such guard, which is the finding of `shipped_bulks`. Another
user's send of the same transaction writes another document, and nothing stops it.

That a commit of such writes keeps documents and items in order is `CommitOfWritten`; what it adds to a purse is
`CommitDelivers`. `VaultLedger` holds with `NaN` as well: once it is there it stays, also in the sums of
handlers that read a number before, since they conflict on the vault.

`VaultAddsUp` is a statement about a sum over transactions, of which one changes at a time
(`SumUpdate`).

### LeaderElection and Presence

`ClusterProofs` proves what runs on several nodes, for any number of replicas, of tasks a replica runs
at once, of retries and faults, and for any number of connections of a user. It extends both
modules and `EnergyRegen`; the usual names of `Presence` therefore begin with `P` (`PInit`, `PNext`, `PSpec`)
and those of `LeaderElection` with `LE`.

* `LeadersHoldTheLease`: a leader whose last write is not expired holds the lease, and
  `LeadersAreOne`, which follows: two such leaders are the same replica.
* `EachWatchesOneFarm` and `NewestLoginStays`.

`FreshLeaderHolds` speaks of what a replica *wrote* last and what the lease *is*, and the tasks between
the two are what makes it inductive. `TaskSound` follows a task: while the version it read is
still the version of the lease, the holder and the age it read are those of the lease (`got`), and what
it is about to write takes a lease that is free, expired or its own (`put`). `ClaimIsLease` says that
the lease is as old as what its holder wrote last, so an expired lease is one whose holder
has no fresh claim either; `FreshHolds` is the property for every replica that runs, whether it knows
that it leads or not. `WrittenStep` is the heart: a write that is accepted goes under a version
nobody holds (`NewVersionIsNew`, a count of the versions in use), so every other task that had read the lease
has lost its right to write it. A release needs its own argument: it leaves a fresh claim
without a lease, and it is sound because only a replica that shuts down releases. The watch and
`isLeader` play no part. Assumed: more versions than anybody can hold, no replica is named `None`.
Clocks that agree are built into the model.

For `Presence` the invariant adds that a socket is in no room before it is authenticated, and that
whoever is found in the player's room has joined it. Who joins last is therefore in nobody's `found` but that of a
login which asked his node later; that one joins after him, and is the newest then, or is `gone`.

### What the proofs share

`ServiceProofs` holds what several modules rest on: charging and crediting a user keeps
the document well formed and never loses a level, maxima grow with levels, what the schedulers
queue are jobs whose pages hold due documents; and the lemmas about sums. `SumFunction` of the library is a fold
that chooses its elements, defined by recursion over finite sets. That a function with its two
equations exists, and that it does not matter which element is taken first, is shown with a smallest
counterexample in place of an induction (`SmallestPart`); from it follow `SumUpdate`, `SumAdded`,
`SumGrows` and `SumZero`, for every finite domain.

### Model-checked only

`GrowthProgresses`, `ItemsComeToWait`, `ProductsAreSold`, `EnergyReturns`, `NewLoginEndsTheOld` and
`StaleLeaderStepsDown` are liveness under fairness, which is beyond the prover. Every other property of
a passing run, invariant or action property, is a theorem. Model-checked only are also what the theorems
exclude by hypothesis: nothing is claimed of `PlantFarm` and `Husbandry` with several workers beyond
`TypeCorrect` and `ThievesStay`, or of `SlotsUnique` with several devices, which does not hold. The
type invariants of `Presence` and `LeaderElection` are part of the invariants proved; no run spends a property on them.

## 5. Plan

The planned proofs are done. What is left is in the models: `CronClock`, the last schedule date of a scheduler and its restart (the promise
would be that the time handed to jobs adds up to the time that passed), and the order in which
Kafka brings updates to clients.

## 6. Not modelled, and why

* Queries, gateways, federation, bots, social sign in, S3: no state of their own.
* Blockchain programs and wallets: outside the repository. The chain in `Purchases` is external.
* Kafka fan-out: a consumer emits what it was sent and keeps nothing; the updates an aborted
  transaction announced are not followed to the clients.
* The clock of the schedulers: the ticks of the models carry any of `TickTimes`, so the time two ticks hand out twice is not accounted for.
* The Honeycomb client and the rewards claimed through it: calls to a service, one assignment each in
  the database.
* The RBAC check of the leader election and its branch for a process outside Kubernetes.
* Seeders as programs, schema declarations, modules that configure libraries, health checks: no
  behaviour beyond wiring. What seeders write is data of `GameData`; what schemas default and what a
  Mongoose save writes is part of the modules above.
* MongoDB, BullMQ, Kafka and Redis themselves: they are assumed to behave as documented
  (snapshot isolation with first committer wins, at-least-once jobs).
