SPECIFICATION Spec
CONSTANTS
  i1 = i1
  i2 = i2
  i3 = i3
  i4 = i4
  carrot = carrot
  egg = egg
  seed = seed
  feed = feed
  crate = crate
  phone = phone
  tablet = tablet
  w1 = w1
  NoDoc = NoDoc
  NoTxn = NoTxn
  NoCopy = NoCopy
  Ids = {i1, i2, i3}
  Products = {carrot}
  Seeds = {}
  Feeds = {feed}
  Fertilizers = {}
  Tools = {crate}
  MaxStack = 2
  Capacity = 3
  ToolCapacity = 1
  Devices = {phone}
  Workers = {}
  StartGolds = 2
  Earnings = {}
  MaxGolds = 0
  MaxGained = 3
  MaxJobs = 0
  MaxRetries = 0
  Targets <- MCTargets
  Price <- MCPrice
  GoldAmount <- MCGoldAmount
  Priorities <- MCPriorities
SYMMETRY Symmetric
INVARIANTS
  TypeOK
  SlotsUnique
  ToolsOnce
PROPERTIES
  GoodsArrive
CHECK_DEADLOCK FALSE
