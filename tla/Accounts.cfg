SPECIFICATION Spec
CONSTANTS
  u1 = u1
  u2 = u2
  u3 = u3
  t1 = t1
  t2 = t2
  w1 = w1
  w2 = w2
  w3 = w3
  n1 = n1
  n2 = n2
  m1 = m1
  c1 = c1
  c2 = c2
  Free = Free
  NoUser = NoUser
  NoTxn = NoTxn
  Ids = {u1, u2, u3}
  Tokens = {t1, t2}
  Wallets = {w1, w2, w3}
  Network <- MCNetwork
  Names = {n1, n2}
  Clients = {c1, c2}
  FolloweeLimit = 1
  ReferredLimit = 1
  ReferralReward = 4
  ReferredReward = 2
  FollowXReward = 1
  DefaultGolds = 0
  StartUsers <- MCUsers
  SigningIn = {w3}
  Messages = {m1}
  MaxOverlap = 1
SYMMETRY Symmetric
INVARIANTS
  ReferralsPaidOnce
  FolloweesSound
CHECK_DEADLOCK FALSE
