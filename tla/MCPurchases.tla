---------------------------- MODULE MCPurchases ----------------------------
(***************************************************************************)
(* Purchases of two users, each with a stack of apples, for TLC.           *)
(***************************************************************************)
EXTENDS Purchases, TLC

CONSTANTS u1, u2, v1, s1, s2, m1, m2, i1, i2, n1, apple, t1, t2, h1, h2, StartLocked

StartUser ==
  [golds |-> 0, tCIFARM |-> 0, energy |-> 20, energyFull |-> FALSE, level |-> 1,
   experiences |-> 0, landLimitIndex |-> 0, nftBoxVector |-> NoVector]

Stack(u, n) == [user |-> u, product |-> apple, quantity |-> n]

MCStartDocs ==
  [key \in Keys |->
     CASE key \in Users -> StartUser
       [] key = Vault -> [tokenLocked |-> StartLocked]
       [] key = s1 -> Stack(u1, 3)
       [] key = s2 -> Stack(u2, 3)
       [] OTHER -> Free]

\* One index for golds, energy and land, so that each finds what the others cached.
MCGoldOptions == (1 :> 1)
MCEnergyOptions == (1 :> 50)
MCBulk == (apple :> 2)

Symmetric == Permutations(Handlers) \cup Permutations(Txs)

\* A user goes with his stack.
SymmetricUsers ==
  Symmetric \cup {(u1 :> u2) @@ (u2 :> u1) @@ (s1 :> s2) @@ (s2 :> s1)}

SymmetricIds == SymmetricUsers \cup Permutations(Metas) \cup Permutations(Items)
=============================================================================
