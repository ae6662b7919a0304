SPECIFICATION FairSpec
CONSTANTS
  i1 = i1
  i2 = i2
  i3 = i3
  i4 = i4
  carrot = carrot
  egg = egg
  seed = seed
  feed = feed
  crate = crate
  phone = phone
  tablet = tablet
  w1 = w1
  NoDoc = NoDoc
  NoTxn = NoTxn
  NoCopy = NoCopy
  Ids = {i1, i2}
  Products = {carrot}
  Seeds = {}
  Feeds = {}
  Fertilizers = {}
  Tools = {}
  MaxStack = 2
  Capacity = 2
  ToolCapacity = 1
  Devices = {phone, tablet}
  Workers = {w1}
  StartGolds = 1
  Earnings = {1}
  MaxGolds = 2
  MaxGained = 2
  MaxJobs = 1
  MaxRetries = 1
  Targets = {0, 1}
  Price <- MCPrice
  GoldAmount <- MCGoldAmount
  Priorities <- MCPriorities
INVARIANTS
  NothingFromNothing
PROPERTIES
  ProductsAreSold
CHECK_DEADLOCK FALSE
