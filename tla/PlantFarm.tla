----------------------------- MODULE PlantFarm ------------------------------
(***************************************************************************)
(* Plants on the tiles of several farms.  Players act on them through the  *)
(* WebSocket handlers (plant, water, cure, fertilize, harvest, help a      *)
(* neighbour, steal from one); the cron scheduler measures time and queues *)
(* jobs; workers read a batch of tiles OUTSIDE any transaction and then    *)
(* age and save every tile in a transaction of its own.                    *)
(*                                                                         *)
(* A handler is one MongoDB transaction that writes every document its     *)
(* decision rests on, so it is one action; a handler that throws changes   *)
(* nothing and is a disabled action.  A worker is two steps per tile.      *)
(***************************************************************************)
EXTENDS PlantGrowth, Farmer, CronJobs, Functions

CONSTANTS
  Tiles, Owner, CreatedAt,      \* CreatedAt orders the tiles of a batch
  Network,                      \* per user
  HasDog, HasCat,               \* users whose selected pet exists
  EnergyConsume, ExperiencesGain, HarvestExperiences, PetExperience,
  DogEnergyReduce, CatPlusQuantity, CatBonusPercent,
  StealQuantities, ThiefLevelGap,
  MaxStack, FreeSlots,          \* Storage: stack size, slots left for products
  InitFarmers, InitToolbar, InitFertilizers,
  Workers, MaxQueue, MaxRetries, TickTimes, RollChoices,
  NoPlant, NoTask

VARIABLES
  users,        \* user documents
  toolbar,      \* toolbar[u][i]: seeds of kind i, or tools i, in the toolbar of u
  fertilizers,  \* fertilizer supplies of u
  products,     \* products[u][k]: products of kind k in the inventory of u
  pets,         \* helpedCount of the dog and of the cat of u
  plants,       \* plants[t]: plantInfo of tile t
  harvestCount, \* tileInfo.harvestCount of tile t
  queue,        \* BullMQ queue of the plant jobs
  task,         \* task[w][t]: the copy of tile t worker w holds in memory
  ledger        \* history: items ever ripened on tile t, items ever taken from it

player == <<users, toolbar, fertilizers, products, pets, harvestCount>>
vars == <<users, toolbar, fertilizers, products, pets, plants, harvestCount, queue, task, ledger>>

Tools == {"WateringCan", "Pesticide", "Herbicide", "Crate"}
Activities ==
  {"plantSeed", "useWateringCan", "usePesticide", "useHerbicide", "useFertilizer",
   "helpUseWateringCan", "helpUsePesticide", "helpUseHerbicide", "thiefPlant", "harvestPlant"}

\* What a worker holds of one tile: the document it read, the paths it has modified
\* since, the time to add and its retries.
Tasks == [mem : PlantInfos, modified : SUBSET WorkerPaths, time : Nat, tries : Nat]

ASSUME FarmAssumption ==
  /\ IsFiniteSet(Tiles)
  /\ Owner \in [Tiles -> Users]
  /\ CreatedAt \in [Tiles -> Nat]
  /\ Kinds \cap Tools = {}
  /\ HasDog \subseteq Users /\ HasCat \subseteq Users
  /\ EnergyConsume \in [Activities -> Nat]
  \* addExperiences throws on zero
  /\ ExperiencesGain \in [Activities -> Nat \ {0}]
  /\ HarvestExperiences \in [BOOLEAN -> Nat \ {0}]
  /\ PetExperience \in Nat \ {0}
  /\ DogEnergyReduce \in Nat /\ CatPlusQuantity \in Nat /\ CatBonusPercent \in Nat
  /\ StealQuantities \subseteq Nat \ {0}
  /\ ThiefLevelGap \in Nat
  /\ MaxStack \in Nat \ {0} /\ FreeSlots \in [Users -> Nat]
  /\ InitFarmers \in [Users -> Farmers]
  /\ InitToolbar \in [Users -> [Kinds \union Tools -> Nat]]
  /\ InitFertilizers \in [Users -> Nat]
  /\ MaxQueue \in Nat /\ MaxRetries \in Nat
  /\ TickTimes \subseteq Nat \ {0}
  /\ RollChoices \subseteq Rolls
  /\ NoPlant \notin PlantInfos
  /\ NoTask \notin Tasks

-----------------------------------------------------------------------------
(* Player handlers.                                                        *)

Planted(t) == plants[t] # NoPlant

Ripe(t) == Planted(t) /\ plants[t].state = FullyMatured

SetPlant(t, p) == plants' = [plants EXCEPT ![t] = p]

\* Slots the products of u fill: InventoryService.add tops up existing stacks first.
UsedSlots(stock) == SumFunction([k \in Kinds |-> (stock[k] + MaxStack - 1) \div MaxStack])

\* add() into Storage, or InventoryCapacityExceededException.
Store(u, kind, quantity) ==
  LET stock == [products[u] EXCEPT ![kind] = @ + quantity]
  IN  /\ UsedSlots(stock) <= FreeSlots[u]
      /\ products' = [products EXCEPT ![u] = stock]

\* The acting user pays and learns.
Charge(u, activity) ==
  /\ CanSpend(users[u], EnergyConsume[activity])
  /\ users' = [users EXCEPT ![u] = Work(@, EnergyConsume[activity], ExperiencesGain[activity])]

\* What the ways to plant share: that the item lies in the toolbar is all that is asked
\* of it, and what is no seed makes a plant without a crop.
Plant(u, t, kind) ==
  /\ Owner[t] = u
  /\ ~Planted(t)
  /\ Charge(u, "plantSeed")
  /\ SetPlant(t, NewPlant(kind))
  /\ UNCHANGED <<pets, harvestCount, queue, task, ledger>>

PlantFromToolbar(u, t, item) ==
  /\ toolbar[u][item] > 0
  /\ toolbar' = [toolbar EXCEPT ![u][item] = @ - 1]
  /\ Plant(u, t, IF item \in Kinds THEN item ELSE NoKind)
  /\ UNCHANGED <<fertilizers, products>>

\* Supplies and products, once they are moved to the toolbar.
PlantFertilizer(u, t) ==
  /\ fertilizers[u] > 0
  /\ fertilizers' = [fertilizers EXCEPT ![u] = @ - 1]
  /\ Plant(u, t, NoKind)
  /\ UNCHANGED <<toolbar, products>>

PlantProduct(u, t, kind) ==
  /\ products[u][kind] > 0
  /\ products' = [products EXCEPT ![u][kind] = @ - 1]
  /\ Plant(u, t, NoKind)
  /\ UNCHANGED <<toolbar, fertilizers>>

PlantSeed(u, t) ==
  \/ \E item \in Kinds \union Tools : PlantFromToolbar(u, t, item)
  \/ PlantFertilizer(u, t)
  \/ \E kind \in Kinds : PlantProduct(u, t, kind)

\* The part the six handlers that cure a plant share.
Cure(u, t, tool, ailment, activity) ==
  /\ toolbar[u][tool] > 0
  /\ Planted(t) /\ plants[t].state = ailment
  /\ Charge(u, activity)
  /\ SetPlant(t, Tended(plants[t]))
  /\ UNCHANGED <<toolbar, fertilizers, products, pets, harvestCount, queue, task, ledger>>

UseWateringCan(u, t) == Owner[t] = u /\ Cure(u, t, "WateringCan", NeedWater, "useWateringCan")
UsePesticide(u, t) == Owner[t] = u /\ Cure(u, t, "Pesticide", IsInfested, "usePesticide")
UseHerbicide(u, t) == Owner[t] = u /\ Cure(u, t, "Herbicide", IsWeedy, "useHerbicide")

Neighbor(u, t) == Owner[t] # u /\ Network[Owner[t]] = Network[u]

HelpUseWateringCan(u, t) ==
  Neighbor(u, t) /\ Cure(u, t, "WateringCan", NeedWater, "helpUseWateringCan")
HelpUsePesticide(u, t) ==
  Neighbor(u, t) /\ Cure(u, t, "Pesticide", IsInfested, "helpUsePesticide")
HelpUseHerbicide(u, t) ==
  Neighbor(u, t) /\ Cure(u, t, "Herbicide", IsWeedy, "helpUseHerbicide")

\* The supply is found by id alone: v, its owner, is not compared with u.
UseFertilizer(u, t, v) ==
  /\ Owner[t] = u
  /\ Planted(t) /\ ~plants[t].fertilized
  /\ fertilizers[v] > 0
  /\ Charge(u, "useFertilizer")
  /\ fertilizers' = [fertilizers EXCEPT ![v] = @ - 1]
  /\ SetPlant(t, Fertilized(plants[t]))
  /\ UNCHANGED <<toolbar, products, pets, harvestCount, queue, task, ledger>>

HarvestPlant(u, t) ==
  /\ Owner[t] = u
  /\ toolbar[u]["Crate"] > 0
  /\ Ripe(t) /\ plants[t].kind \in Kinds
  /\ CanSpend(users[u], EnergyConsume["harvestPlant"])
  /\ users' = [users EXCEPT ![u] = Work(@, EnergyConsume["harvestPlant"],
                                        HarvestExperiences[plants[t].quality])]
  /\ Store(u, plants[t].kind, plants[t].left)
  /\ harvestCount' = [harvestCount EXCEPT ![t] = @ + 1]
  /\ SetPlant(t, IF IsPerennial(plants[t]) THEN Regrown(plants[t]) ELSE NoPlant)
  /\ ledger' = [ledger EXCEPT ![t].taken = @ + plants[t].left]
  /\ UNCHANGED <<toolbar, fertilizers, pets, queue, task>>

\* The guard reads "if (plantInfo) throw": an occupied tile is refused, an
\* empty one is saved as it is.
RemovePlant(u, t) ==
  /\ Owner[t] = u
  /\ ~Planted(t)
  /\ SetPlant(t, NoPlant)
  /\ UNCHANGED <<player, queue, task, ledger>>

CanThieve(u, t) ==
  /\ toolbar[u]["Crate"] > 0
  /\ Ripe(t) /\ plants[t].kind \in Kinds
  /\ u \notin plants[t].thieves
  /\ plants[t].left > plants[t].min
  /\ Neighbor(u, t)
  /\ users[u].level >= users[Owner[t]].level - ThiefLevelGap
  /\ CanSpend(users[u], EnergyConsume["thiefPlant"])

\* The dog of the owner bites: the thief loses energy and the plant is closed
\* to it; the dog document is changed in memory only.
ThiefBitten(u, t) ==
  /\ CanThieve(u, t)
  /\ Owner[t] \in HasDog
  /\ CanSpend(users[u], DogEnergyReduce)
  /\ users' = [users EXCEPT ![u] = SpendEnergy(@, DogEnergyReduce),
                            ![Owner[t]] = AddExperiences(@, PetExperience)]
  /\ SetPlant(t, Stolen(plants[t], u, 0))
  /\ UNCHANGED <<toolbar, fertilizers, products, pets, harvestCount, queue, task, ledger>>

Haul(quantity, cat) ==
  IF cat THEN ((quantity + CatPlusQuantity) * (100 + CatBonusPercent)) \div 100 ELSE quantity

\* Mutant: a thief takes what it rolled, whatever is left above the minimum.
SpareUnlimited(p, wanted) == wanted

Spare(p, wanted) == IF wanted < p.left - p.min THEN wanted ELSE p.left - p.min

ThiefSteals(u, t, wanted, cat) ==
  LET haul == Haul(Spare(plants[t], wanted), cat)
      thief == IF cat THEN AddExperiences(users[u], PetExperience) ELSE users[u]
  IN  /\ CanThieve(u, t)
      /\ cat => u \in HasCat
      /\ users' = [users EXCEPT ![u] = Work(thief, EnergyConsume["thiefPlant"],
                                            ExperiencesGain["thiefPlant"])]
      /\ pets' = [pets EXCEPT ![u].cat = IF cat THEN @ + 1 ELSE @]
      /\ Store(u, plants[t].kind, haul)
      /\ SetPlant(t, Stolen(plants[t], u, haul))
      /\ ledger' = [ledger EXCEPT ![t].taken = @ + haul]
      /\ UNCHANGED <<toolbar, fertilizers, harvestCount, queue, task>>

-----------------------------------------------------------------------------
(* Scheduler and workers.                                                  *)

Due == {t \in Tiles : Planted(t) /\ Growing(plants[t])}

Schedule(time) ==
  /\ Due # {}
  /\ Len(queue) + CeilDiv(Cardinality(Due), BatchSize) <= MaxQueue
  /\ queue' = queue \o Batches(Cardinality(Due), time)
  /\ UNCHANGED <<player, plants, task, ledger>>

Batch(job) == Page(Due, CreatedAt, job)

Idle(w) == \A t \in Tiles : task[w][t] = NoTask

WorkerReads(w) ==
  /\ Idle(w) /\ queue # <<>>
  /\ task' = [task EXCEPT ![w] =
       [t \in Tiles |-> IF t \in Batch(Head(queue))
                          THEN [mem |-> plants[t], modified |-> {},
                                time |-> Head(queue).time, tries |-> 0]
                          ELSE NoTask]]
  /\ queue' = Tail(queue)
  /\ UNCHANGED <<player, plants, ledger>>

\* "Removed old job": the job waited longer than the cron timeout.
WorkerDropsJob(w) ==
  /\ Idle(w) /\ queue # <<>>
  /\ queue' = Tail(queue)
  /\ UNCHANGED <<player, plants, task, ledger>>

\* The task after the callback has aged the copy in memory once (more).
Aged(job, roll) ==
  LET grown == Grow(job.mem, job.time, roll)
  IN  [job EXCEPT !.mem = grown, !.modified = @ \union Modified(job.mem, grown)]

\* $set on a tile whose plantInfo is gone creates a subdocument of the modified
\* paths; reading it fills in the schema defaults.
Persisted(t, job) ==
  IF job.modified = {} THEN plants[t]
  ELSE Saved(IF Planted(t) THEN plants[t] ELSE NewPlant(NoKind), job.mem, job.modified)

Ripens(t, job) == job.mem.state = FullyMatured /\ ~Ripe(t)

WorkerSaves(w, t, roll) ==
  /\ task[w][t] # NoTask /\ task[w][t].mem.kind \in Kinds
  /\ LET job == Aged(task[w][t], roll)
     IN  /\ SetPlant(t, Persisted(t, job))
         /\ ledger' = [ledger EXCEPT ![t].ripened =
                         IF Ripens(t, job) THEN @ + job.mem.left ELSE @]
  /\ task' = [task EXCEPT ![w][t] = NoTask]
  /\ UNCHANGED <<player, queue>>

\* The save met the uncommitted write of a handler: withTransaction runs the
\* callback again, on the copy it has already aged.
WorkerRetries(w, t, roll) ==
  /\ task[w][t] # NoTask /\ task[w][t].mem.kind \in Kinds
  /\ task[w][t].tries < MaxRetries
  /\ LET job == Aged(task[w][t], roll)
     IN  task' = [task EXCEPT ![w][t] = [job EXCEPT !.tries = job.tries + 1]]
  /\ UNCHANGED <<player, plants, queue, ledger>>

\* A crash, or an error that is logged and swallowed (a failed send to Kafka, a
\* plant without a kind): the copy is gone, nothing was written.
WorkerFails(w, t) ==
  /\ task[w][t] # NoTask
  /\ task' = [task EXCEPT ![w][t] = NoTask]
  /\ UNCHANGED <<player, plants, queue, ledger>>

-----------------------------------------------------------------------------
Init ==
  /\ users = InitFarmers
  /\ toolbar = InitToolbar
  /\ fertilizers = InitFertilizers
  /\ products = [u \in Users |-> [k \in Kinds |-> 0]]
  /\ pets = [u \in Users |-> [dog |-> 0, cat |-> 0]]
  /\ plants = [t \in Tiles |-> NoPlant]
  /\ harvestCount = [t \in Tiles |-> 0]
  /\ queue = <<>>
  /\ task = [w \in Workers |-> [t \in Tiles |-> NoTask]]
  /\ ledger = [t \in Tiles |-> [ripened |-> 0, taken |-> 0]]

Own(u, t) ==
  \/ PlantSeed(u, t)
  \/ UseWateringCan(u, t)
  \/ UsePesticide(u, t)
  \/ UseHerbicide(u, t)
  \/ \E v \in Users : UseFertilizer(u, t, v)
  \/ HarvestPlant(u, t)
  \/ RemovePlant(u, t)

Visit(u, t) ==
  \/ HelpUseWateringCan(u, t)
  \/ HelpUsePesticide(u, t)
  \/ HelpUseHerbicide(u, t)
  \/ ThiefBitten(u, t)
  \/ \E wanted \in StealQuantities, cat \in BOOLEAN : ThiefSteals(u, t, wanted, cat)

WorkOn(w, t) ==
  \/ \E roll \in RollChoices : WorkerSaves(w, t, roll) \/ WorkerRetries(w, t, roll)
  \/ WorkerFails(w, t)

Next ==
  \/ \E u \in Users, t \in Tiles : Own(u, t) \/ Visit(u, t)
  \/ \E time \in TickTimes : Schedule(time)
  \/ \E w \in Workers :
       \/ WorkerReads(w)
       \/ WorkerDropsJob(w)
       \/ \E t \in Tiles : WorkOn(w, t)

Spec == Init /\ [][Next]_vars

-----------------------------------------------------------------------------
(* Properties.                                                             *)

\* Types: no handler drives energy, a supply or a stack of the toolbar below zero, and a
\* worker's copy is always a well-formed plantInfo.
TypeOK ==
  /\ users \in [Users -> Farmers]
  /\ toolbar \in [Users -> [Kinds \union Tools -> Nat]]
  /\ fertilizers \in [Users -> Nat]
  /\ products \in [Users -> [Kinds -> Int]]
  /\ pets \in [Users -> [dog : Nat, cat : Nat]]
  /\ plants \in [Tiles -> PlantInfos \union {NoPlant}]
  /\ harvestCount \in [Tiles -> Nat]
  /\ queue \in Seq(Jobs)
  /\ task \in [Workers -> [Tiles -> Tasks \union {NoTask}]]
  /\ ledger \in [Tiles -> [ripened : Int, taken : Int]]

Left(t) == IF Planted(t) THEN plants[t].left ELSE 0

\* Tile by tile, what ripened is what left it plus what still hangs there, over
\* harvests, thefts with and without a cat, stale saves and retried callbacks.
TileLedger == \A t \in Tiles : ledger[t].ripened - ledger[t].taken = Left(t)

\* Most a single theft takes beyond what it was entitled to (harvestQuantityMin
\* is compared before the cat multiplies the haul).
Overdraw(q) == Haul(q, TRUE) - q

\* Whatever the number of thieves, what is left of a ripe plant stays at most
\* the full yield and at least the protected minimum less one overdraw; a plant
\* that is not ripe offers nothing.
LeftWithinBounds ==
  \A t \in Tiles : Planted(t) =>
    IF Ripe(t)
      THEN /\ plants[t].left <= plants[t].desired
           /\ \/ plants[t].left >= plants[t].min
              \/ \E q \in 1 .. plants[t].desired - plants[t].min :
                   plants[t].left >= plants[t].min - Overdraw(q)
      ELSE plants[t].left = 0

\* A plant is FullyMatured exactly when it is in its last stage, although stage
\* and state are saved as separate paths over whatever a player did meanwhile.
RipeExactlyAtLastStage ==
  \A t \in Tiles : Planted(t) => (Ripe(t) <=> plants[t].stage = GrowthStages - 1)

\* What a worker holds a stale copy of is still growing in the database and is the
\* same planting: nobody can harvest, rob or replace it before the save lands.
HeldPlantsGrow ==
  \A w \in Workers, t \in Tiles : task[w][t] # NoTask =>
    Planted(t) /\ Growing(plants[t]) /\ plants[t].kind = task[w][t].mem.kind

\* A worker only changes plants that are growing: one that waits for water or
\* for its harvest is changed by a player alone.
WorkersLeaveWaitingPlants ==
  [][\A t \in Tiles :
       plants'[t] # plants[t] /\ users' = users
         => Planted(t) /\ plants[t].state \notin {NeedWater, FullyMatured}]_vars

\* As long as a planting lives its list of thieves only grows, so nobody steals
\* from it twice, whatever stale copies workers save over it.
ThievesRemembered ==
  [][\A t \in Tiles :
       Planted(t) /\ Planted(t)' => plants[t].thieves \subseteq plants'[t].thieves]_vars

\* Claimed of the worker, "reset fertilizer after" a stage: a plant that enters
\* its next stage is not fertilized yet.
FertilizerResetByStage ==
  [][\A t \in Tiles :
       Planted(t) /\ Planted(t)' /\ plants'[t].stage > plants[t].stage
         => ~plants'[t].fertilized]_vars

-----------------------------------------------------------------------------
(* The scheduler ticks every second and a worker serves the queue: jobs and *)
(* saves may fail, but not for ever.                                       *)

Fairness ==
  /\ WF_vars(\E time \in TickTimes : Schedule(time))
  /\ \A w \in Workers :
       /\ SF_vars(WorkerReads(w))
       /\ \A t \in Tiles : SF_vars(\E roll \in RollChoices : WorkerSaves(w, t, roll))

FairSpec == Spec /\ Fairness

\* A plant grown from a seed does not stay in its stage for ever: it comes to need water
\* or to be ripe, whatever jobs are dropped and whatever saves fail.  Of a plant without
\* a crop this does not hold: the worker throws on it at every tick, and remove-plant
\* refuses its tile.
GrowthProgresses ==
  \A t \in Tiles :
    (Planted(t) /\ plants[t].kind \in Kinds /\ Growing(plants[t]))
      ~> (Planted(t) /\ ~Growing(plants[t]))
=============================================================================
