SPECIFICATION Spec
CONSTANTS
  house = house
  tree = tree
  i1 = i1
  i2 = i2
  phone = phone
  tablet = tablet
  Free = Free
  Gone = Gone
  NoTxn = NoTxn
  NoPet = NoPet
  NoOffer = NoOffer
  Ids = {house, tree, i1, i2}
  Devices = {phone, tablet}
  Home = "home"
  PlacedItemTypes <- Catalogue
  Kind <- KindOf
  Size <- SizeOf
  AvailableInShop <- InShop
  Price <- SmallPrice
  Sellable <- CanBeSold
  SellPrice <- SmallSellPrice
  Houses <- AnimalHouse
  Upgrades <- SmallUpgrades
  Unique <- JustHome
  Dogs <- JustDogs
  Cats <- JustCats
  LandLimit <- SmallLand
  DailyRewards <- SmallRewards
  StartGolds = 2
  StartPlaced <- MCPlaced
  DefaultVolume = v1
  Volumes = {v1}
  v1 = v1
  v2 = v2
  Steps = {}
  Wanted = {"basicTile", "coop", "chicken", "dog", "cat", "apple", "woodenFence"}
  Places <- TwoPlaces
  MaxOverlap = 1
  MaxDays = 2
SYMMETRY Symmetric
INVARIANTS
  RewardOncePerDay
  LimitsKept
  AnswersAreHonest
PROPERTIES
  OnlyRewardsEnrich
  AnimalsHousedWhenBought
CHECK_DEADLOCK FALSE
