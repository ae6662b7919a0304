SPECIFICATION Spec
CONSTANTS
  u1 = u1
  u2 = u2
  v1 = v1
  s1 = s1
  s2 = s2
  m1 = m1
  m2 = m2
  i1 = i1
  i2 = i2
  apple = apple
  t1 = t1
  t2 = t2
  h1 = h1
  h2 = h2
  n1 = n1
  Free = Free
  NoTx = NoTx
  NoVector = NoVector
  NaN = NaN
  Users = {u1, u2}
  Txs = {t1, t2}
  Handlers = {h1, h2}
  Inventories = {}
  Metas = {m1, m2}
  Items = {i1, i2}
  NFTs = {n1}
  Vault = v1
  GoldOptions <- MCGoldOptions
  EnergyOptions <- MCEnergyOptions
  LandLimits = {0, 1}
  BoxPrice = 3
  BoxFee = 1
  Bulk <- MCBulk
  MaxPaidAmount = 1
  MaxPaidPercentage = 50
  DecrementPercentage = 50
  BulkTCIFARM = 1
  StartLocked = 4
  StartDocs <- MCStartDocs
  Kinds = {"golds", "energy", "land", "wrap", "unwrap"}
  Quantities = {2}
  MaxDraws = 2
SYMMETRY SymmetricIds
INVARIANT ItemsHaveMetadata
PROPERTY PurchasesKeepPromise
CHECK_DEADLOCK FALSE
