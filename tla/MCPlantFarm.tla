---------------------------- MODULE MCPlantFarm -----------------------------
(* A small farm for TLC: one owner, one visitor, one tile.                 *)
EXTENDS PlantFarm, TLC

CONSTANTS owner, bob, tile, wheat, w1

MCOwner == [t \in Tiles |-> owner]
MCCreatedAt == [t \in Tiles |-> 1]
MCNetwork == [u \in Users |-> "mainnet"]
MCPerennial == [k \in Crops |-> 2]
MCQuantity == [k \in Kinds |-> 10]
MCDuration == [k \in Kinds |-> 2]
MCEnergy == [a \in Activities |-> 1]
MCExperiences == [a \in Activities |-> 5]
MCHarvestExperiences == [q \in BOOLEAN |-> IF q THEN 10 ELSE 5]
MCSlots == [u \in Users |-> 3]
MCFarmers ==
  [u \in Users |->
     IF u = owner THEN [energy |-> 50, energyFull |-> TRUE, level |-> 1, experiences |-> 44]
                  ELSE [energy |-> 3, energyFull |-> FALSE, level |-> 1, experiences |-> 30]]
MCToolbar == [u \in Users |-> [i \in Kinds \union Tools |-> IF i \in Kinds /\ u # owner THEN 0 ELSE 1]]
MCFertilizers == [u \in Users |-> IF u = owner THEN 1 ELSE 0]

MCRolls == [thirst : BOOLEAN, pest : {Normal, IsInfested, IsWeedy}, quality : {FALSE}]
=============================================================================
