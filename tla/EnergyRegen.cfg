SPECIFICATION FairSpec
CONSTANTS
  alice = alice
  bob = bob
  w1 = w1
  w2 = w2
  NoCopy = NoCopy
  Users = {alice, bob}
  CreatedAt <- MCCreatedAt
  InitExperiences <- MCExperiences
  EnergyConsume = 1
  ExperiencesGain = 3
  DogEnergyReduce = 2
  PetExperience = 3
  Percentages = {5}
  RegenTime = 2
  TickTimes = {1, 2}
  BatchSize = 1
  Workers = {w1}
  MaxQueue = 2
  MaxRetries = 1
  LeastEnergy = 49
  MaxLevel = 2
  MaxExperiences = 1
INVARIANTS
  TypeOK
  EnergyWithinMaximum
  DueBelowMaximum
PROPERTIES
  EnergyReturns
CHECK_DEADLOCK FALSE
