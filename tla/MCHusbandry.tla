---------------------------- MODULE MCHusbandry -----------------------------
(* One hen, one tree or one bee house of an owner, and a visitor.          *)
EXTENDS Husbandry, TLC

CONSTANTS owner, bob, plot, rose, chicken, apple, w1

MCOwner == [i \in Items |-> owner]
MCCreatedAt == [i \in Items |-> 1]
MCFarms ==
  {[i \in Items |-> item] :
     item \in {NewAnimal(chicken, 0, 250), NewFruit(apple, 0, 0), NewBeeHouse(<<2, 2>>, 2)}}
MCNetwork == [u \in Users |-> "mainnet"]
MCToolbar == [u \in Users |-> Tools]
MCEnergy == [a \in Activities |-> IF a = "harvestBeeHouse" THEN 3 ELSE 1]
MCExperiences == [a \in Activities |-> 1]
MCHarvestExperiences == [s \in Species |-> [q \in BOOLEAN |-> IF q THEN 3 ELSE 2]]
MCSlots == [u \in Users |-> 3]
MCFarmers ==
  [u \in Users |-> [energy |-> IF u = owner THEN 7 ELSE 2, energyFull |-> FALSE,
                    level |-> 1, experiences |-> 0]]
MCSupplies == [u \in Users |-> [s \in Supplies |-> IF u = owner THEN 3 ELSE 0]]
MCRolls == {[ill |-> i, quality |-> ~i] : i \in BOOLEAN}
MCMin == [s \in Sorts |-> 70]
MCAnimalTime == [a \in Animals |-> 2]
MCYieldTime == [a \in Animals |-> 3]
MCQuantityOf == [a \in Animals |-> 10]
MCFruitQuantity == [f \in Fruits |-> 10]
MCYoung == [f \in Fruits |-> 3]
MCMature == [f \in Fruits |-> 2]
MCFertilizer == [f \in Fruits |-> 2]
MCMultiplier == <<100, 125, 150>>
MCSize == <<2, 2>>
MCBedAt == [b \in Beds |-> <<3, 2>>]
MCFlowerHoney == [b \in Beds |-> 25]
=============================================================================
