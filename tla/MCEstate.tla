----------------------------- MODULE MCEstate -----------------------------
(* The seeded catalogue, at small prices and with small houses, over a farm of a   *)
(* pet house, an NFT tree and two free places.                                    *)
EXTENDS Estate, GameData, TLC

CONSTANTS house, tree, i1, i2, phone, tablet, v1, v2

Symmetric == Permutations({i1, i2}) \cup Permutations(Devices)

Catalogue == DOMAIN Catalog

InShop == {type \in Catalogue : Catalog[type].availableInShop}

\* Everything costs 2 and sells for 1, but the fence costs 1 and is not bought back.
SmallPrice ==
  [type \in Catalogue |-> IF type \in InShop \ DOMAIN Decorations THEN 2 ELSE 1]

CanBeSold ==
  {type \in Catalogue : Catalog[type].sellPrice > 0} \ DOMAIN Decorations

SmallSellPrice == [type \in Catalogue |-> IF type \in CanBeSold THEN 1 ELSE 0]

\* A house holds one animal; the pet house can be upgraded and then holds two.
SmallUpgrades ==
  [type \in DOMAIN Buildings |->
     IF type = "petHouse"
       THEN <<[price |-> 0, capacity |-> 1], [price |-> 1, capacity |-> 2]>>
       ELSE <<[price |-> 0, capacity |-> 1]>>]

SmallRewards == <<1, 1, 1, 1, 2>>

JustHome == {"home"}
JustDogs == {"dog"}
JustCats == {"cat"}

\* The first land, shrunk to one tile, one fruit tree and one building of a kind.
SmallLand == [LandLimits[1] EXCEPT !.tileLimit = 1, !.fruitLimit = 1, !.sameBuildingLimit = 1]

MCPlaced ==
  [i \in Ids |->
     CASE i = house -> [type |-> "petHouse", x |-> 6, y |-> 0, upgrade |-> 1,
                        stored |-> FALSE, nft |-> FALSE]
       [] i = tree -> [type |-> "dragonFruit", x |-> 0, y |-> 0, upgrade |-> 0,
                       stored |-> TRUE, nft |-> TRUE]
       [] OTHER -> Free]

TwoPlaces == {<<2, 2>>, <<2, 9>>}
=============================================================================
