SPECIFICATION FairSpec
CONSTANTS
  owner = owner
  bob = bob
  tile = tile
  wheat = wheat
  w1 = w1
  NoPlant = NoPlant
  NoTask = NoTask
  Users = {owner, bob}
  Crops = {wheat}
  Flowers = {}
  GrowthStages = 4
  NextGrowthStageAfterHarvest = 2
  MinThievablePercent = 70
  FertilizerTimeReduce = 1
  Tiles = {tile}
  HasDog = {owner}
  HasCat = {bob}
  PetExperience = 10
  DogEnergyReduce = 3
  CatPlusQuantity = 1
  CatBonusPercent = 50
  StealQuantities = {1, 3}
  ThiefLevelGap = 3
  MaxStack = 8
  Workers = {w1}
  BatchSize = 10
  MaxQueue = 1
  MaxRetries = 1
  TickTimes = {1}
  PerennialCount <- MCPerennial
  HarvestQuantity <- MCQuantity
  GrowthStageDuration <- MCDuration
  Owner <- MCOwner
  CreatedAt <- MCCreatedAt
  Network <- MCNetwork
  EnergyConsume <- MCEnergy
  ExperiencesGain <- MCExperiences
  HarvestExperiences <- MCHarvestExperiences
  FreeSlots <- MCSlots
  InitFarmers <- MCFarmers
  InitToolbar <- MCToolbar
  InitFertilizers <- MCFertilizers
  RollChoices <- MCRolls
INVARIANTS
  TypeOK
  TileLedger
  LeftWithinBounds
  RipeExactlyAtLastStage
  HeldPlantsGrow
PROPERTIES
  WorkersLeaveWaitingPlants
  ThievesRemembered
  GrowthProgresses
CHECK_DEADLOCK FALSE
