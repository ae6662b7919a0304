------------------------------ MODULE GameData ------------------------------
(***************************************************************************)
(* The static data that StaticService holds: what the seeders of the       *)
(* command line tool write, reduced to what the handlers look up.  The     *)
(* assumptions at the end say how the tables must fit each other; TLC      *)
(* evaluates them with every run that uses this module.                    *)
(***************************************************************************)
EXTENDS Integers, Sequences, FiniteSets

\* f, with the values of g where g has one.
LOCAL With(f, g) == [x \in DOMAIN f \cup DOMAIN g |-> IF x \in DOMAIN g THEN g[x] ELSE f[x]]
-----------------------------------------------------------------------------
(***************************************************************************)
(* What grows in a tile: the price of its seed, the seconds of a stage,    *)
(* the units of a harvest and how often it is harvested.                   *)
(***************************************************************************)
LOCAL Seed(price, stage, quantity, harvests) ==
  [price |-> price, growthStageDuration |-> stage, harvestQuantity |-> quantity,
   perennialCount |-> harvests]

Crops ==
  [turnip      |-> Seed(50, 60, 20, 1),    carrot     |-> Seed(75, 90, 20, 1),
   potato      |-> Seed(100, 120, 20, 1),  pineapple  |-> Seed(125, 720, 12, 3),
   watermelon  |-> Seed(125, 840, 20, 1),  cucumber   |-> Seed(150, 1440, 12, 3),
   bellPepper  |-> Seed(175, 2160, 12, 3), strawberry |-> Seed(200, 2160, 12, 3),
   pumpkin     |-> Seed(200, 2520, 20, 1), pea        |-> Seed(275, 8640, 12, 3),
   cauliflower |-> Seed(225, 4320, 20, 1), tomato     |-> Seed(250, 3240, 12, 3),
   eggplant    |-> Seed(250, 3240, 12, 3)]

\* A flower is harvested once.
Flowers == [daisy |-> Seed(50, 300, 20, 1), sunflower |-> Seed(100, 4320, 20, 1)]

PlantSeeds == With(Crops, Flowers)
-----------------------------------------------------------------------------
(***************************************************************************)
(* What a unit of a product sells for; the quality version is worth twice  *)
(* as much.  A product is a pair of what it is of and whether it is the    *)
(* quality version.                                                        *)
(***************************************************************************)
EarlyCropGold ==
  [turnip |-> 4, carrot |-> 7, potato |-> 10, cucumber |-> 17, pineapple |-> 8,
   watermelon |-> 14, bellPepper |-> 14, strawberry |-> 17]

LateCropGold == [pumpkin |-> 29, cauliflower |-> 34, tomato |-> 24, eggplant |-> 24, pea |-> 29]

CropGold == With(EarlyCropGold, LateCropGold)

FlowerGold == [daisy |-> 3, sunflower |-> 6]

FruitGold ==
  [banana |-> 8, apple |-> 8, dragonFruit |-> 12, jackfruit |-> 12, rambutan |-> 12,
   pomegranate |-> 12]

AnimalGold == [honey |-> 10, egg |-> 8, milk |-> 12]

BasicGold == With(With(CropGold, FlowerGold), With(FruitGold, AnimalGold))

Products == (DOMAIN BasicGold) \X BOOLEAN

ProductGold(product) == BasicGold[product[1]] * (IF product[2] THEN 2 ELSE 1)
-----------------------------------------------------------------------------
(***************************************************************************)
(* Inventory types: what can lie in an inventory.                          *)
(***************************************************************************)
AnimalItems == {"egg", "milk", "honey"} \X BOOLEAN

FieldItems ==
  {"turnip", "carrot", "potato", "pineapple", "watermelon", "cucumber", "bellPepper",
   "strawberry", "daisy"} \X BOOLEAN

\* The quality version of the pumpkin was forgotten.
LateFieldItems ==
  ({"pumpkin", "cauliflower", "tomato", "eggplant", "pea", "sunflower"} \X BOOLEAN)
    \ {<<"pumpkin", TRUE>>}

FruitItems ==
  {"banana", "apple", "dragonFruit", "jackfruit", "rambutan", "pomegranate"} \X BOOLEAN

SeedItems ==
  {"turnip", "carrot", "potato", "pineapple", "watermelon", "cucumber", "bellPepper", "daisy"}

LateSeedItems ==
  {"strawberry", "sunflower", "pumpkin", "cauliflower", "tomato", "eggplant", "pea"}

SupplyItems == {"basicFertilizer", "animalFeed", "fruitFertilizer"}

ToolItems ==
  {"hand", "crate", "wateringCan", "pesticide", "herbicide", "hammer", "animalMedicine",
   "bugNet"}

\* Of the supplies one is deliverable, though only products are paid for.
DeliverableSupplies == {"fruitFertilizer"}

ProductItems == AnimalItems \cup FieldItems \cup LateFieldItems \cup FruitItems
-----------------------------------------------------------------------------
(***************************************************************************)
(* Supplies and tools in the shop.                                         *)
(***************************************************************************)
SupplyPrice == [basicFertilizer |-> 50, animalFeed |-> 50, fruitFertilizer |-> 50]

ToolPrice == [hammer |-> 200, animalMedicine |-> 200, bugNet |-> 200]

ToolsGivenAsDefault == {"crate", "wateringCan", "pesticide", "herbicide"}
-----------------------------------------------------------------------------
(***************************************************************************)
(* What is placed on a farm.  sellPrice 0: it can not be sold.             *)
(***************************************************************************)
LOCAL Offer(price, sellPrice) ==
  [availableInShop |-> TRUE, price |-> price, sellPrice |-> sellPrice]

LOCAL NotOffered(price) == [availableInShop |-> FALSE, price |-> price, sellPrice |-> 0]

Tiles == [basicTile |-> Offer(1000, 500)]

Animals == [chicken |-> Offer(1000, 500), cow |-> Offer(2500, 1250)]

Fruits ==
  With([banana |-> Offer(5000, 2500), apple |-> Offer(5000, 2500)],
       [fruit \in {"dragonFruit", "jackfruit", "rambutan", "pomegranate"} |->
          NotOffered(5000)])

Pets == [dog |-> Offer(4000, 2000), cat |-> Offer(4000, 2000)]

Decorations == [woodenFence |-> Offer(20, 10)]

\* No handler sells a terrain item, whatever the shop says.
Terrains ==
  [type \in {"smallStone", "smallGrassPatch", "oakTree", "pineTree", "mapleTree"} |->
     NotOffered(0)]

Buildings ==
  [home |-> NotOffered(0), coop |-> Offer(2000, 1000), barn |-> Offer(4000, 2000),
   beeHouse |-> Offer(2000, 1000), petHouse |-> Offer(2000, 0), fishPond |-> Offer(2000, 1000)]

LOCAL Level(price, capacity) == [price |-> price, capacity |-> capacity]

BuildingUpgrades ==
  [home     |-> <<>>,
   coop     |-> <<Level(0, 3), Level(2000, 5), Level(4000, 7)>>,
   barn     |-> <<Level(0, 3), Level(4000, 5), Level(8000, 7)>>,
   beeHouse |-> <<Level(0, 3), Level(1000, 0), Level(2000, 10)>>,
   petHouse |-> <<Level(0, 3), Level(1000, 5), Level(2000, 10)>>,
   fishPond |-> <<Level(0, 3), Level(1000, 5), Level(2000, 10)>>]

AnimalHouse == [chicken |-> "coop", cow |-> "barn", dog |-> "petHouse", cat |-> "petHouse"]

Catalog ==
  With(With(With(Tiles, Animals), With(Fruits, Pets)),
       With(With(Decorations, Terrains), Buildings))

KindOf ==
  [type \in DOMAIN Catalog |->
     CASE type \in DOMAIN Tiles -> "tile"
       [] type \in DOMAIN Animals -> "animal"
       [] type \in DOMAIN Fruits -> "fruit"
       [] type \in DOMAIN Pets -> "pet"
       [] type \in DOMAIN Decorations -> "decoration"
       [] type \in DOMAIN Terrains -> "terrain"
       [] OTHER -> "building"]

SizeOf ==
  [type \in DOMAIN Catalog |->
     CASE type = "home" -> <<4, 3>>
       [] type \in {"barn", "coop", "petHouse", "fishPond"} -> <<3, 3>>
       [] type \in {"beeHouse", "oakTree", "pineTree", "mapleTree"} \cup DOMAIN Fruits -> <<2, 2>>
       [] OTHER -> <<1, 1>>]
-----------------------------------------------------------------------------
(***************************************************************************)
(* The system document.                                                    *)
(***************************************************************************)
DailyRewardInfo == <<100, 200, 300, 600, 1000>>

LOCAL Land(tile, fruit, building, same) ==
  [tileLimit |-> tile, fruitLimit |-> fruit, buildingLimit |-> building,
   sameBuildingLimit |-> same]

LandLimits ==
  <<Land(50, 10, 30, 3), Land(100, 20, 50, 6), Land(150, 30, 75, 9), Land(200, 40, 100, 12)>>

DefaultGolds == 10000

\* Where a new user finds what, by the corner an item is put at.  (The stones, grass
\* and trees of the same document are given to nobody.)
DefaultPositions ==
  [basicTile |-> (-1 .. 1) \X (-1 .. 2),
   home |-> {<<6, 0>>}, beeHouse |-> {<<-1, -4>>}, coop |-> {<<-4, -3>>},
   banana |-> {<<5, 3>>, <<7, 5>>}, chicken |-> {<<-4, 1>>, <<-3, 2>>}]

DefaultItems ==
  UNION {{[type |-> type, x |-> at[1], y |-> at[2]] : at \in DefaultPositions[type]} :
           type \in DOMAIN DefaultPositions}

DefaultGround(item) ==
  (item.x - SizeOf[item.type][1] + 1 .. item.x) \X (item.y - SizeOf[item.type][2] + 1 .. item.y)
\* What a new user finds in the inventories.
DefaultToolbar == {[type |-> tool, kind |-> "tool", quantity |-> 1] : tool \in ToolsGivenAsDefault}

DefaultInventories == DefaultToolbar \cup {[type |-> "turnip", kind |-> "storage", quantity |-> 10]}

Capacities == [storage |-> 150, delivery |-> 9, tool |-> 8]

\* The activities that cost a unit of energy: these give 3 experiences, the others none.
LearningActivities ==
  {"plantSeed", "useAnimalMedicine", "useAnimalFeed", "helpUseAnimalMedicine",
   "helpUseAnimalFeed", "helpUseHerbicide", "helpUsePesticide", "helpUseWateringCan",
   "thiefPlant", "thiefAnimal", "useFertilizer", "useHerbicide", "usePesticide",
   "useWateringCan", "useFruitFertilizer", "useBugNet", "helpUseFruitFertilizer",
   "helpUseBugNet", "thiefFruit", "thiefBeeHouse"}

HarvestActivities == {"harvestAnimal", "harvestPlant", "harvestFruit", "harvestBeeHouse"}

Activities ==
  With([activity \in LearningActivities |-> [energyConsume |-> 1, experiencesGain |-> 3]],
       [activity \in HarvestActivities |-> [energyConsume |-> 1, experiencesGain |-> 0]])

\* Above which roll, in hundredths, a thief takes two or three; the same for whatever is stolen.
ThiefRandomness == [thief2 |-> 80, thief3 |-> 95]
MinThievablePercentage == 70

\* minQuantity, avgQuantity and maxQuantity of the thief, by the roll.
ThiefQuantity(roll) ==
  IF roll > ThiefRandomness.thief3 THEN 3 ELSE IF roll > ThiefRandomness.thief2 THEN 2 ELSE 1
-----------------------------------------------------------------------------
(***************************************************************************)
(* What is paid for in tokens.                                             *)
(***************************************************************************)
GoldPurchases ==
  <<[amount |-> 10000, price |-> 1], [amount |-> 100000, price |-> 5],
    [amount |-> 1000000, price |-> 25]>>

EnergyPurchases ==
  <<[percentage |-> 25, price |-> 2], [percentage |-> 50, price |-> 4],
    [percentage |-> 100, price |-> 6]>>

\* Prices of the lands; the first one is given.
LandPrices == <<0, 10, 50, 200>>

\* Shares of the roll of a box, in sixteenths (a hexadecimal digit of a hash): from
\* startChance to below endChance, and the rarities above 0.8 and 0.9.
NFTBoxChances ==
  [jackfruit |-> 0 .. 3, pomegranate |-> 4 .. 7, rambutan |-> 8 .. 11, dragonFruit |-> 12 .. 15]

Rarity(digit) ==
  IF 10 * digit > 9 * 16 THEN "epic" ELSE IF 10 * digit > 8 * 16 THEN "rare" ELSE "common"

NFTBox(key, rarity) ==
  [collection : {fruit \in DOMAIN NFTBoxChances : key \in NFTBoxChances[fruit]},
   rarity : {Rarity(rarity)}]

\* The bulks of the season: what is shipped, and what is paid for it in thousandths.
Bulks ==
  [greeting |-> [products |-> {"apple", "banana", "tomato", "eggplant", "milk", "egg"} \X {FALSE},
                 quantity |-> 20, maxPaidAmount |-> 500, maxPaidPercentage |-> 5,
                 tCIFARM |-> 5, decrementPercentage |-> 10],
   seasonNFTs |-> [products |-> {"dragonFruit", "jackfruit", "rambutan", "pomegranate"} \X {TRUE},
                   quantity |-> 20, maxPaidAmount |-> 5000, maxPaidPercentage |-> 50,
                   tCIFARM |-> 50, decrementPercentage |-> 1]]
-----------------------------------------------------------------------------
\* Whatever can be planted can be bought as a seed, and pays more than it costs.
ASSUME SeedsPay ==
  /\ DOMAIN PlantSeeds = SeedItems \cup LateSeedItems
  /\ \A seed \in DOMAIN PlantSeeds :
       LET crop == PlantSeeds[seed]
       IN  crop.price < crop.harvestQuantity * crop.perennialCount * ProductGold(<<seed, FALSE>>)

\* What the shop takes back it never pays more for than it asked.
ASSUME SalesDoNotPay ==
  \A type \in DOMAIN Catalog :
    Catalog[type].availableInShop => Catalog[type].sellPrice <= Catalog[type].price

\* What is harvested has an inventory type to lie in, but for one product: a ripe
\* quality pumpkin can be harvested by nobody.
ASSUME HarvestsCanBeStored == Products \ ProductItems = {<<"pumpkin", TRUE>>}

\* Everything in a toolbar or a feed bag can be bought or was given at the start.
ASSUME ToolsCanBeHad ==
  /\ ToolItems \ {"hand"} = DOMAIN ToolPrice \cup ToolsGivenAsDefault
  /\ SupplyItems = DOMAIN SupplyPrice
  /\ DeliverableSupplies \subseteq SupplyItems

\* A new farm is laid out without two items on the same ground.
ASSUME DefaultFarmApart ==
  \A a, b \in DefaultItems : a # b => DefaultGround(a) \cap DefaultGround(b) = {}

\* A new farm keeps the limits of the first land, with a place for each animal.
ASSUME DefaultFarmWithinLimits ==
  LET Given(type) == Cardinality(DefaultPositions[type])
  IN  /\ Given("basicTile") <= LandLimits[1].tileLimit
      /\ Given("banana") <= LandLimits[1].fruitLimit
      /\ Given("chicken") <= Given("coop") * BuildingUpgrades["coop"][1].capacity
      /\ \A type \in {"coop", "beeHouse"} : Given(type) <= LandLimits[1].sameBuildingLimit

\* What a new user is given lies in the inventories, each tool in a place of its own, and
\* the seeds can be planted.
ASSUME DefaultInventoriesFit ==
  /\ DefaultToolbar # {} /\ Cardinality(DefaultToolbar) <= Capacities.tool
  /\ \A given \in DefaultInventories :
       given.type \in (IF given.kind = "tool" THEN ToolItems ELSE SeedItems)

\* Nobody learns for nothing: what gives experiences costs energy.
ASSUME LearningCosts ==
  \A activity \in DOMAIN Activities :
    Activities[activity].experiencesGain > 0 => Activities[activity].energyConsume > 0

\* A thief who takes the most leaves the owner of a fresh harvest the part no thief may take.
ASSUME OneTheftLeavesTheRest ==
  \A seed \in DOMAIN PlantSeeds, roll \in 0 .. 99 :
    LET quantity == PlantSeeds[seed].harvestQuantity
    IN  quantity - ThiefQuantity(roll) >= (quantity * MinThievablePercentage) \div 100

\* Every roll of a box is one fruit of one rarity, and the fruit stands in the catalogue but
\* not in the shop.
ASSUME EveryRollIsABox ==
  \A key, rarity \in 0 .. 15 :
    /\ Cardinality(NFTBox(key, rarity)) = 1
    /\ \A box \in NFTBox(key, rarity) : ~Fruits[box.collection].availableInShop

\* Of sixteen boxes one is epic and two are rare.
ASSUME RaritiesAreRare ==
  /\ Cardinality({digit \in 0 .. 15 : Rarity(digit) = "epic"}) = 1
  /\ Cardinality({digit \in 0 .. 15 : Rarity(digit) = "rare"}) = 2

\* Whoever buys more golds, energy or land pays more, and gets more for it.
ASSUME MoreCostsMore ==
  /\ \A i, j \in DOMAIN GoldPurchases : i < j =>
       /\ GoldPurchases[i].price < GoldPurchases[j].price
       /\ GoldPurchases[i].amount * GoldPurchases[j].price < GoldPurchases[j].amount * GoldPurchases[i].price
  /\ \A i, j \in DOMAIN EnergyPurchases : i < j =>
       EnergyPurchases[i].price < EnergyPurchases[j].price
  /\ DOMAIN LandPrices = DOMAIN LandLimits
  /\ \A i, j \in DOMAIN LandPrices : i < j =>
       /\ LandPrices[i] < LandPrices[j]
       /\ \A limit \in DOMAIN LandLimits[i] : LandLimits[i][limit] < LandLimits[j][limit]

\* SendExpandLandLimit looks the land up among the purchases of golds: the last land is not
\* there.
ASSUME LastLandOutOfReach == DOMAIN LandLimits \ DOMAIN GoldPurchases = {Len(LandLimits)}

\* What a bulk asks for can lie in an inventory.
ASSUME BulksCanBeFilled ==
  \A bulk \in DOMAIN Bulks : Bulks[bulk].products \subseteq ProductItems
=============================================================================
