SPECIFICATION Spec
CONSTANTS
  u1 = u1
  u2 = u2
  v1 = v1
  s1 = s1
  s2 = s2
  m1 = m1
  m2 = m2
  i1 = i1
  i2 = i2
  n1 = n1
  apple = apple
  t1 = t1
  t2 = t2
  h1 = h1
  h2 = h2
  Free = Free
  NoTx = NoTx
  NoVector = NoVector
  NaN = NaN
  Users = {u1, u2}
  Txs = {t1, t2}
  Handlers = {h1, h2}
  Inventories = {s1, s2}
  Metas = {}
  Items = {}
  NFTs = {}
  Vault = v1
  GoldOptions <- MCGoldOptions
  EnergyOptions <- MCEnergyOptions
  LandLimits = {0, 1, 2}
  BoxPrice = 3
  BoxFee = 1
  Bulk <- MCBulk
  MaxPaidAmount = 2
  MaxPaidPercentage = 50
  DecrementPercentage = 50
  BulkTCIFARM = 1
  StartLocked = 4
  StartDocs <- MCStartDocs
  Kinds = {"golds", "energy", "land", "boxes", "ship"}
  Quantities = {2}
  MaxDraws = 2
SYMMETRY Symmetric
INVARIANT BulkPaidInTransaction
CHECK_DEADLOCK FALSE
