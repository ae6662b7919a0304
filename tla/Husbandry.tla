----------------------------- MODULE Husbandry ------------------------------
(***************************************************************************)
(* Animals, fruit trees and bee houses placed on several farms.  Players   *)
(* feed, cure, fertilize and harvest them through the WebSocket handlers,  *)
(* help a neighbour, or steal from one; the cron scheduler of each sort    *)
(* queues jobs; its worker reads a batch of items outside any transaction  *)
(* and ages and saves each of them in a transaction of its own.  A handler *)
(* is one transaction and so one action, a worker two steps per item.      *)
(***************************************************************************)
EXTENDS AnimalLife, FruitLife, BeeHouseLife, Farmer, CronJobs, Functions

CONSTANTS
  Items, Owner, CreatedAt,
  Farms,                        \* what may stand there: functions from Items
  Network, Toolbar,
  HasDog, HasCat,
  EnergyConsume, ExperiencesGain, HarvestExperiences, PetExperience,
  DogEnergyReduce, CatPlusQuantity, CatBonusPercent,
  StealQuantities, ThiefLevelGap,
  MaxStack, FreeSlots,
  InitFarmers, InitSupplies,
  Workers, MaxQueue, MaxRetries, TickTimes, RollChoices,
  NoItem, NoTask

VARIABLES
  users,      \* user documents
  supplies,   \* supplies[u][s]: animal feed and fruit fertilizer of u
  products,   \* products[u][p]: what of the product p is in the Storage of u
  items,      \* items[i]: animalInfo, fruitInfo or beeHouseInfo of the placed item i
  blossoms,   \* beds whose flower is FullyMatured
  queue,      \* queue[s]: BullMQ queue of the jobs of a sort
  task,       \* task[w][i]: the copy of item i worker w holds in memory
  ledger      \* history: quantities item i ever bore, quantities ever taken from it

player == <<users, supplies, products>>
vars == <<users, supplies, products, items, blossoms, queue, task, ledger>>

Tools == {"AnimalMedicine", "BugNet", "Crate"}
Supplies == {"AnimalFeed", "FruitFertilizer"}
Activities ==
  {"useAnimalFeed", "useAnimalMedicine", "helpUseAnimalMedicine", "useFruitFertilizer",
   "useBugNet", "helpUseBugNet", "harvestAnimal", "harvestFruit", "harvestBeeHouse",
   "thiefAnimal", "thiefFruit", "thiefBeeHouse"}

Infos == AnimalInfos \union FruitInfos \union BeeHouseInfos

\* What buying an item or placing an NFT puts on a farm.
IsNew(item) ==
  item = CASE item.sort = "animal" -> NewAnimal(item.species, item.accel, item.bonus)
           [] item.sort = "fruit" -> NewFruit(item.species, item.accel, item.bonus)
           [] item.sort = "beeHouse" -> NewBeeHouse(item.at, item.level)

\* A product: whose, and whether it is the quality one.
Products == Species \X BOOLEAN

WorkerFields ==
  {"growth", "hunger", "yielding", "adult", "immunized", "stage", "elapsed", "state",
   "quality", "desired", "min", "left"}

Tasks == [mem : Infos, modified : SUBSET WorkerFields, time : Nat, tries : Nat]

ASSUME HusbandryAssumption ==
  /\ IsFiniteSet(Items)
  /\ Owner \in [Items -> Users] /\ CreatedAt \in [Items -> Nat]
  /\ Farms \subseteq [Items -> Infos \union {NoItem}]
  /\ \A farm \in Farms, i \in Items : farm[i] # NoItem => IsNew(farm[i])
  /\ Toolbar \in [Users -> SUBSET Tools]
  /\ HasDog \subseteq Users /\ HasCat \subseteq Users
  /\ EnergyConsume \in [Activities -> Nat]
  /\ ExperiencesGain \in [Activities -> Nat \ {0}]
  /\ HarvestExperiences \in [Species -> [BOOLEAN -> Nat \ {0}]]
  /\ PetExperience \in Nat \ {0}
  /\ DogEnergyReduce \in Nat /\ CatPlusQuantity \in Nat /\ CatBonusPercent \in Nat
  /\ StealQuantities \subseteq Nat \ {0} /\ ThiefLevelGap \in Nat
  /\ MaxStack \in Nat \ {0} /\ FreeSlots \in [Users -> Nat]
  /\ InitFarmers \in [Users -> Farmers]
  /\ InitSupplies \in [Users -> [Supplies -> Nat]]
  /\ MaxQueue \in Nat /\ MaxRetries \in Nat
  /\ TickTimes \subseteq Nat \ {0}
  /\ RollChoices \subseteq Rolls
  /\ NoItem \notin Infos /\ NoTask \notin Tasks

-----------------------------------------------------------------------------
(* Player handlers.                                                        *)

Placed(i) == items[i] # NoItem
IsSort(i, sort) == Placed(i) /\ items[i].sort = sort
Bearing(item) == item.state \in {Yield, FullyMatured}
Ripe(i) == Placed(i) /\ Bearing(items[i])

SetItem(i, item) == items' = [items EXCEPT ![i] = item]

UsedSlots(stock) == SumFunction([p \in Products |-> (stock[p] + MaxStack - 1) \div MaxStack])

\* add() into Storage, or InventoryCapacityExceededException.
Store(u, product, quantity) ==
  LET stock == [products[u] EXCEPT ![product] = @ + quantity]
  IN  /\ UsedSlots(stock) <= FreeSlots[u]
      /\ products' = [products EXCEPT ![u] = stock]

Charge(u, activity) ==
  /\ CanSpend(users[u], EnergyConsume[activity])
  /\ users' = [users EXCEPT ![u] = Work(@, EnergyConsume[activity], ExperiencesGain[activity])]

Neighbor(u, i) == Owner[i] # u /\ Network[Owner[i]] = Network[u]

\* The part of the handlers that bring an item back to Normal.
Tend(u, i, ailment, activity) ==
  /\ items[i].state = ailment
  /\ Charge(u, activity)
  /\ SetItem(i, [items[i] EXCEPT !.state = Normal])
  /\ UNCHANGED <<products, blossoms, queue, task, ledger>>

\* The supply is found by its id alone: v, its owner, is not compared with u.
Spend(v, supply) ==
  /\ supplies[v][supply] > 0
  /\ supplies' = [supplies EXCEPT ![v][supply] = @ - 1]

UseAnimalFeed(u, i, v) ==
  /\ IsSort(i, "animal") /\ Owner[i] = u
  /\ Spend(v, "AnimalFeed")
  /\ Tend(u, i, Hungry, "useAnimalFeed")

UseFruitFertilizer(u, i, v) ==
  /\ IsSort(i, "fruit") /\ Owner[i] = u
  /\ Spend(v, "FruitFertilizer")
  /\ Tend(u, i, NeedFertilizer, "useFruitFertilizer")

Cure(u, i, sort, tool, ailment, activity) ==
  /\ IsSort(i, sort)
  /\ tool \in Toolbar[u]
  /\ Tend(u, i, ailment, activity)
  /\ UNCHANGED supplies

UseAnimalMedicine(u, i) ==
  Owner[i] = u /\ Cure(u, i, "animal", "AnimalMedicine", Sick, "useAnimalMedicine")
HelpUseAnimalMedicine(u, i) ==
  Neighbor(u, i) /\ Cure(u, i, "animal", "AnimalMedicine", Sick, "helpUseAnimalMedicine")
UseBugNet(u, i) ==
  Owner[i] = u /\ Cure(u, i, "fruit", "BugNet", IsBuggy, "useBugNet")
HelpUseBugNet(u, i) ==
  Neighbor(u, i) /\ Cure(u, i, "fruit", "BugNet", IsBuggy, "helpUseBugNet")

\* What the three harvest handlers do once their guards hold.
Harvest(u, i, activity, product, after) ==
  /\ Ripe(i)
  /\ CanSpend(users[u], EnergyConsume[activity])
  /\ users' = [users EXCEPT ![u] =
       Work(@, EnergyConsume[activity],
            HarvestExperiences[items[i].species][items[i].quality])]
  /\ Store(u, product, items[i].left)
  /\ SetItem(i, after)
  /\ ledger' = [ledger EXCEPT ![i].taken = @ + items[i].left]
  /\ UNCHANGED <<supplies, blossoms, queue, task>>

\* No crate is asked for, and the product is the first of the animal: the basic one.
HarvestAnimal(u, i) ==
  /\ IsSort(i, "animal") /\ Owner[i] = u
  /\ Harvest(u, i, "harvestAnimal", <<items[i].species, FALSE>>, AnimalHarvested(items[i]))

\* The owner of the tree is not compared with u.
HarvestFruit(u, i) ==
  /\ IsSort(i, "fruit") /\ "Crate" \in Toolbar[u]
  /\ Harvest(u, i, "harvestFruit", <<items[i].species, items[i].quality>>,
             FruitHarvested(items[i]))

HarvestBeeHouse(u, i) ==
  /\ IsSort(i, "beeHouse") /\ Owner[i] = u /\ "Crate" \in Toolbar[u]
  /\ Harvest(u, i, "harvestBeeHouse", <<items[i].species, items[i].quality>>,
             BeeHouseHarvested(items[i]))

CanThieve(u, i, activity) ==
  /\ "Crate" \in Toolbar[u]
  /\ Ripe(i)
  /\ u \notin items[i].thieves
  /\ items[i].left > items[i].min
  /\ Neighbor(u, i)
  /\ users[u].level >= users[Owner[i]].level - ThiefLevelGap
  /\ CanSpend(users[u], EnergyConsume[activity])

MayThieveAnimal(u, i) == IsSort(i, "animal") /\ CanThieve(u, i, "thiefAnimal")
MayThieveFruit(u, i) == IsSort(i, "fruit") /\ CanThieve(u, i, "thiefFruit")
MayThieveBeeHouse(u, i) == IsSort(i, "beeHouse") /\ CanThieve(u, i, "thiefBeeHouse")

\* The dog bites: the thief loses energy and is closed out for good.
Bitten(u, i) ==
  /\ Owner[i] \in HasDog
  /\ CanSpend(users[u], DogEnergyReduce)
  /\ users' = [users EXCEPT ![u] = SpendEnergy(@, DogEnergyReduce),
                            ![Owner[i]] = AddExperiences(@, PetExperience)]
  /\ SetItem(i, Stolen(items[i], u, 0))
  /\ UNCHANGED <<supplies, products, blossoms, queue, task, ledger>>

AnimalThiefBitten(u, i) == MayThieveAnimal(u, i) /\ Bitten(u, i)
FruitThiefBitten(u, i) == MayThieveFruit(u, i) /\ Bitten(u, i)
BeeHouseThiefBitten(u, i) == MayThieveBeeHouse(u, i) /\ Bitten(u, i)

Haul(quantity, cat) ==
  IF cat THEN ((quantity + CatPlusQuantity) * (100 + CatBonusPercent)) \div 100 ELSE quantity

Spare(item, wanted) ==
  IF wanted < item.left - item.min THEN wanted ELSE item.left - item.min

Steal(u, i, wanted, cat, product, activity) ==
  LET haul == Haul(Spare(items[i], wanted), cat)
      thief == IF cat THEN AddExperiences(users[u], PetExperience) ELSE users[u]
  IN  /\ cat => u \in HasCat
      /\ users' = [users EXCEPT ![u] =
           Work(thief, EnergyConsume[activity], ExperiencesGain[activity])]
      /\ Store(u, product, haul)
      /\ SetItem(i, Stolen(items[i], u, haul))
      /\ ledger' = [ledger EXCEPT ![i].taken = @ + haul]
      /\ UNCHANGED <<supplies, blossoms, queue, task>>

\* Only stolen honey keeps its quality.
ThiefAnimal(u, i, wanted, cat) ==
  /\ MayThieveAnimal(u, i)
  /\ Steal(u, i, wanted, cat, <<items[i].species, FALSE>>, "thiefAnimal")

ThiefFruit(u, i, wanted, cat) ==
  /\ MayThieveFruit(u, i)
  /\ Steal(u, i, wanted, cat, <<items[i].species, FALSE>>, "thiefFruit")

ThiefBeeHouse(u, i, wanted, cat) ==
  /\ MayThieveBeeHouse(u, i)
  /\ Steal(u, i, wanted, cat, <<items[i].species, items[i].quality>>, "thiefBeeHouse")

-----------------------------------------------------------------------------
(* Flowers (module PlantFarm): they bloom and are harvested.               *)

FlowerBlooms(bed) ==
  /\ bed \notin blossoms
  /\ blossoms' = blossoms \union {bed}
  /\ UNCHANGED <<player, items, queue, task, ledger>>

FlowerHarvested(bed) ==
  /\ bed \in blossoms
  /\ blossoms' = blossoms \ {bed}
  /\ UNCHANGED <<player, items, queue, task, ledger>>

-----------------------------------------------------------------------------
(* Schedulers and workers.                                                 *)

Grows(item) ==
  \/ item.sort = "animal" /\ AnimalGrows(item)
  \/ item.sort = "fruit" /\ FruitGrows(item)
  \/ item.sort = "beeHouse" /\ BeeHouseGrows(item)

Due(sort) == {i \in Items : IsSort(i, sort) /\ Grows(items[i])}

Schedule(sort, time) ==
  /\ Due(sort) # {}
  /\ Len(queue[sort]) + CeilDiv(Cardinality(Due(sort)), BatchSize) <= MaxQueue
  /\ queue' = [queue EXCEPT ![sort] = @ \o Batches(Cardinality(Due(sort)), time)]
  /\ UNCHANGED <<player, items, blossoms, task, ledger>>

ScheduleAnimals(time) == Schedule("animal", time)
ScheduleFruits(time) == Schedule("fruit", time)
ScheduleBeeHouses(time) == Schedule("beeHouse", time)

\* Every sort has a worker of its own, which takes one job at a time.
Idle(w, sort) == \A i \in Items : IsSort(i, sort) => task[w][i] = NoTask

WorkerReads(w, sort, order) ==
  /\ Idle(w, sort) /\ queue[sort] # <<>>
  /\ LET job == Head(queue[sort])
         batch == Page(Due(sort), order, job)
     IN  task' = [task EXCEPT ![w] =
           [i \in Items |-> IF i \in batch
                              THEN [mem |-> items[i], modified |-> {},
                                    time |-> job.time, tries |-> 0]
                              ELSE @[i]]]
  /\ queue' = [queue EXCEPT ![sort] = Tail(@)]
  /\ UNCHANGED <<player, items, blossoms, ledger>>

\* Animals are taken oldest first, fruit trees and bee houses newest first.
ReadAnimals(w) == WorkerReads(w, "animal", [i \in Items |-> 0 - CreatedAt[i]])
ReadFruits(w) == WorkerReads(w, "fruit", CreatedAt)
ReadBeeHouses(w) == WorkerReads(w, "beeHouse", CreatedAt)

\* "Removed old job".
WorkerDropsJob(w, sort) ==
  /\ Idle(w, sort) /\ queue[sort] # <<>>
  /\ queue' = [queue EXCEPT ![sort] = Tail(@)]
  /\ UNCHANGED <<player, items, blossoms, task, ledger>>

\* updatePlacedItem of the worker of the item's sort.
Grow(item, time, roll) ==
  CASE item.sort = "animal" -> GrowAnimal(item, time, roll)
    [] item.sort = "fruit" -> GrowFruit(item, time, roll)
    [] item.sort = "beeHouse" -> GrowBeeHouse(item, time, roll, blossoms)

AgedTo(job, grown) ==
  [job EXCEPT !.mem = grown,
              !.modified = @ \union {f \in DOMAIN grown \intersect WorkerFields :
                                        grown[f] # job.mem[f]}]

\* The task after the callback has aged the copy in memory once (more).
Outcomes(job) ==
  {AgedTo(job, grown) : grown \in {Grow(job.mem, job.time, roll) : roll \in RollChoices}}

\* save() sets the modified paths and nothing else.
Persisted(i, job) ==
  [f \in DOMAIN items[i] |-> IF f \in job.modified THEN job.mem[f] ELSE items[i][f]]

ComesToBear(i, job) == Bearing(job.mem) /\ ~Ripe(i)

WorkerSaves(w, i) ==
  /\ task[w][i] # NoTask
  /\ \E job \in Outcomes(task[w][i]) :
       /\ SetItem(i, Persisted(i, job))
       /\ ledger' = [ledger EXCEPT ![i].borne =
                       IF ComesToBear(i, job) THEN @ + job.mem.left ELSE @]
  /\ task' = [task EXCEPT ![w][i] = NoTask]
  /\ UNCHANGED <<player, blossoms, queue>>

\* A write conflict with a handler: withTransaction runs the callback again on the
\* copy it has already aged.
WorkerRetries(w, i) ==
  /\ task[w][i] # NoTask
  /\ task[w][i].tries < MaxRetries
  /\ \E job \in Outcomes(task[w][i]) :
       task' = [task EXCEPT ![w][i] = [job EXCEPT !.tries = job.tries + 1]]
  /\ UNCHANGED <<player, items, blossoms, queue, ledger>>

\* A crash, or an error that is logged and swallowed.
WorkerFails(w, i) ==
  /\ task[w][i] # NoTask
  /\ task' = [task EXCEPT ![w][i] = NoTask]
  /\ UNCHANGED <<player, items, blossoms, queue, ledger>>

-----------------------------------------------------------------------------
Init ==
  /\ users = InitFarmers
  /\ supplies = InitSupplies
  /\ products = [u \in Users |-> [p \in Products |-> 0]]
  /\ items \in Farms
  /\ blossoms = {}
  /\ queue = [s \in Sorts |-> <<>>]
  /\ task = [w \in Workers |-> [i \in Items |-> NoTask]]
  /\ ledger = [i \in Items |-> [borne |-> 0, taken |-> 0]]

Own(u, i) ==
  \/ \E v \in Users : UseAnimalFeed(u, i, v) \/ UseFruitFertilizer(u, i, v)
  \/ UseAnimalMedicine(u, i)
  \/ UseBugNet(u, i)
  \/ HarvestAnimal(u, i)
  \/ HarvestBeeHouse(u, i)

Visit(u, i) ==
  \/ HelpUseAnimalMedicine(u, i)
  \/ HelpUseBugNet(u, i)
  \/ HarvestFruit(u, i)
  \/ AnimalThiefBitten(u, i)
  \/ FruitThiefBitten(u, i)
  \/ BeeHouseThiefBitten(u, i)
  \/ \E wanted \in StealQuantities, cat \in BOOLEAN :
       \/ ThiefAnimal(u, i, wanted, cat)
       \/ ThiefFruit(u, i, wanted, cat)
       \/ ThiefBeeHouse(u, i, wanted, cat)

WorkOn(w, i) ==
  \/ WorkerSaves(w, i)
  \/ WorkerRetries(w, i)
  \/ WorkerFails(w, i)

Next ==
  \/ \E u \in Users, i \in Items : Own(u, i) \/ Visit(u, i)
  \/ \E bed \in Beds : FlowerBlooms(bed) \/ FlowerHarvested(bed)
  \/ \E time \in TickTimes :
       ScheduleAnimals(time) \/ ScheduleFruits(time) \/ ScheduleBeeHouses(time)
  \/ \E w \in Workers :
       \/ ReadAnimals(w) \/ ReadFruits(w) \/ ReadBeeHouses(w)
       \/ \E s \in Sorts : WorkerDropsJob(w, s)
  \/ \E w \in Workers, i \in Items : WorkOn(w, i)

Spec == Init /\ [][Next]_vars

-----------------------------------------------------------------------------
(* Properties.                                                             *)

\* Types: no handler drives energy or a supply below zero, and what is saved or held
\* in memory is a well-formed subdocument of the item's sort.
TypeOK ==
  /\ users \in [Users -> Farmers]
  /\ supplies \in [Users -> [Supplies -> Nat]]
  /\ products \in [Users -> [Products -> Int]]
  /\ items \in [Items -> Infos \union {NoItem}]
  /\ blossoms \subseteq Beds
  /\ queue \in [Sorts -> Seq(Jobs)]
  /\ task \in [Workers -> [Items -> Tasks \union {NoTask}]]
  /\ ledger \in [Items -> [borne : Int, taken : Int]]

\* Whatever thieves, owners, stale saves and retried callbacks do in whatever order,
\* what an item ever offered is what was taken from it plus what it still offers.
YieldLedger ==
  \A i \in Items :
    ledger[i].borne - ledger[i].taken = IF Ripe(i) THEN items[i].left ELSE 0

\* Fields saved by different writers fit together: only adults yield or are sick, a
\* sick one has used up its one illness, a tree is infested in its last stage but
\* one and FullyMatured exactly in its last; a tree or a bee house that does not bear
\* carries nothing.  (An animal may: a callback that is run again after the animal
\* came to yield may find it hungry.)
StateFitsAge ==
  \A i \in Items : Placed(i) =>
    LET item == items[i]
    IN  /\ item.sort # "animal" /\ ~Bearing(item) => item.left = 0
        /\ item.sort = "animal" /\ item.state \in {Sick, Yield} => item.adult /\ item.immunized
        /\ item.sort = "fruit" =>
             /\ item.state = FullyMatured <=> item.stage = FruitStages - 1
             /\ item.state = IsBuggy => item.stage = FruitStages - 2

\* What a worker holds a stale copy of still grows: nobody can harvest it or steal
\* from it before the save lands, so the save revives nothing.
HeldItemsGrow ==
  \A w \in Workers, i \in Items : task[w][i] # NoTask =>
    Placed(i) /\ items[i].sort = task[w][i].mem.sort /\ Grows(items[i])

-----------------------------------------------------------------------------
(* The scheduler ticks every second and the workers serve the queues.      *)

Fairness ==
  /\ WF_vars(\E time \in TickTimes : ScheduleAnimals(time))
  /\ WF_vars(\E time \in TickTimes : ScheduleFruits(time))
  /\ WF_vars(\E time \in TickTimes : ScheduleBeeHouses(time))
  /\ \A w \in Workers :
       /\ SF_vars(ReadAnimals(w)) /\ SF_vars(ReadFruits(w)) /\ SF_vars(ReadBeeHouses(w))
       /\ \A i \in Items : SF_vars(WorkerSaves(w, i))

FairSpec == Spec /\ Fairness

\* An item does not grow for ever: it comes to ask for food or fertilizer or to bear,
\* whatever jobs are dropped, whatever saves fail and however often it is cured.
ItemsComeToWait ==
  \A i \in Items : (Placed(i) /\ Grows(items[i])) ~> (Placed(i) /\ ~Grows(items[i]))
=============================================================================
