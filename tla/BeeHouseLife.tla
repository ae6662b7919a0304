---------------------------- MODULE BeeHouseLife ----------------------------
(***************************************************************************)
(* The beeHouseInfo subdocument and the flowers a bee house feeds on: all  *)
(* that are in full bloom on the positions around it, whosever they are.   *)
(***************************************************************************)
EXTENDS Produce, Sequences, FiniteSets, Functions

CONSTANTS
  BeeHouse,                   \* the species of every bee house
  BeeHouseYieldTime,
  HoneyMultiplier,            \* per upgrade level, in hundredths
  BaseHoney,                  \* honey coefficients, in tenths
  BeeHouseSize,               \* <<sizeX, sizeY>> of the building
  Beds, BedAt, FlowerHoney    \* tiles that grow flowers: position, coefficient

ASSUME BeeHouseAssumption ==
  /\ BeeHouse \in Species
  /\ BeeHouseYieldTime \in Nat \ {0}
  /\ HoneyMultiplier \in Seq(Nat \ {0})
  /\ BaseHoney \in Nat
  /\ BeeHouseSize \in Nat \X Nat
  /\ IsFiniteSet(Beds)
  /\ BedAt \in [Beds -> Int \X Int]
  /\ FlowerHoney \in [Beds -> Nat]

BeeHouseYield == "Yield"
BeeHouseStates == {Normal, BeeHouseYield}

\* at = the position, level = buildingInfo.currentUpgrade, yielding = currentYieldTime.
BeeHouseInfos ==
  [sort : {"beeHouse"}, species : {BeeHouse}, at : Int \X Int, level : DOMAIN HoneyMultiplier, yielding : Nat,
   state : BeeHouseStates, quality : BOOLEAN, thieves : SUBSET Users, harvests : Nat,
   desired : Nat, min : Nat, left : Int]

NewBeeHouse(at, level) ==
  [sort |-> "beeHouse", species |-> BeeHouse, at |-> at, level |-> level, yielding |-> 0,
   state |-> Normal, quality |-> FALSE, thieves |-> {}, harvests |-> 0,
   desired |-> 0, min |-> 0, left |-> 0]

BeeHouseGrows(b) == b.state # BeeHouseYield

Block(from, to) == (from[1] .. to[1]) \X (from[2] .. to[2])

\* An item stands on its position and the positions left of and below it.
Footprint(at) == Block(<<at[1] - BeeHouseSize[1] + 1, at[2] - BeeHouseSize[2] + 1>>, at)

Adjacent(at) ==
  Block(<<at[1] - BeeHouseSize[1], at[2] - BeeHouseSize[2]>>, <<at[1] + 1, at[2] + 1>>)
    \ Footprint(at)

FlowersHoney(open) == SumFunctionOnSet(FlowerHoney, open)

Honey(b, blossoms) ==
  LET fed == {bed \in blossoms : BedAt[bed] \in Adjacent(b.at)}
  IN  ((BaseHoney + FlowersHoney(fed)) * HoneyMultiplier[b.level]) \div 1000

GrowBeeHouse(b, time, roll, blossoms) ==
  IF b.yielding + time < BeeHouseYieldTime THEN [b EXCEPT !.yielding = @ + time]
  ELSE [Bears(b, Honey(b, blossoms), FALSE, roll.quality)
          EXCEPT !.yielding = 0, !.state = BeeHouseYield]

\* harvestQuantityMin and the thieves are left as they are, harvestCount too.
BeeHouseHarvested(b) ==
  [b EXCEPT !.left = 0, !.desired = 0, !.state = Normal, !.quality = FALSE]
=============================================================================
