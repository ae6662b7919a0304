SPECIFICATION FairSpec
CONSTANTS
  owner = owner
  bob = bob
  plot = plot
  rose = rose
  chicken = chicken
  apple = apple
  NoItem = NoItem
  NoTask = NoTask
  BeeHouse = BeeHouse
  Users = {owner, bob}
  Species = {chicken, apple, BeeHouse}
  Animals = {chicken}
  Fruits = {apple}
  Items = {plot}
  Beds = {rose}
  Workers = {w1}
  w1 = w1
  FruitStages = 5
  MatureStage = 2
  NextFruitStageAfterHarvest = 3
  BeeHouseYieldTime = 2
  BaseHoney = 100
  HasDog = {owner}
  HasCat = {bob}
  PetExperience = 1
  DogEnergyReduce = 1
  CatPlusQuantity = 1
  CatBonusPercent = 50
  StealQuantities = {1, 3}
  ThiefLevelGap = 3
  MaxStack = 20
  BatchSize = 10
  MaxQueue = 1
  MaxRetries = 1
  TickTimes = {1, 2}
  Owner <- MCOwner
  CreatedAt <- MCCreatedAt
  Farms <- MCFarms
  Network <- MCNetwork
  Toolbar <- MCToolbar
  EnergyConsume <- MCEnergy
  ExperiencesGain <- MCExperiences
  HarvestExperiences <- MCHarvestExperiences
  FreeSlots <- MCSlots
  InitFarmers <- MCFarmers
  InitSupplies <- MCSupplies
  RollChoices <- MCRolls
  MinThievablePercent <- MCMin
  GrowthTime <- MCAnimalTime
  HungerTime <- MCAnimalTime
  YieldTime <- MCYieldTime
  AnimalQuantity <- MCQuantityOf
  YoungDuration <- MCYoung
  MatureDuration <- MCMature
  FertilizerTime <- MCFertilizer
  FruitQuantity <- MCFruitQuantity
  HoneyMultiplier <- MCMultiplier
  BeeHouseSize <- MCSize
  BedAt <- MCBedAt
  FlowerHoney <- MCFlowerHoney
INVARIANTS
  TypeOK
  YieldLedger
  StateFitsAge
  HeldItemsGrow
PROPERTIES
  ItemsComeToWait
CHECK_DEADLOCK FALSE
