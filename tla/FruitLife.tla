----------------------------- MODULE FruitLife ------------------------------
(***************************************************************************)
(* The fruitInfo subdocument: a young tree asks for fertilizer, a mature   *)
(* one may be infested in its last stage but one and ripens in its last.   *)
(***************************************************************************)
EXTENDS Produce

CONSTANTS
  Fruits, YoungDuration, MatureDuration, FertilizerTime, FruitQuantity,
  FruitStages, MatureStage, NextFruitStageAfterHarvest

ASSUME FruitAssumption ==
  /\ Fruits \subseteq Species
  /\ YoungDuration \in [Fruits -> Nat \ {0}]
  /\ MatureDuration \in [Fruits -> Nat \ {0}]
  /\ FertilizerTime \in [Fruits -> Nat \ {0}]
  /\ FruitQuantity \in [Fruits -> Nat \ {0}]
  /\ FruitStages \in Nat /\ MatureStage \in 1 .. FruitStages - 2
  /\ NextFruitStageAfterHarvest \in 1 .. FruitStages - 1

NeedFertilizer == "NeedFertilizer"
IsBuggy == "IsBuggy"
FullyMatured == "FullyMatured"
FruitStates == {Normal, NeedFertilizer, IsBuggy, FullyMatured}

\* elapsed = currentStageTimeElapsed, hunger = currentFertilizerTime.
FruitInfos ==
  [sort : {"fruit"}, species : Fruits, accel : Nat, bonus : Nat,
   stage : 0 .. FruitStages - 1, elapsed : Int, hunger : Nat,
   state : FruitStates, quality : BOOLEAN, thieves : SUBSET Users, harvests : Nat,
   desired : Nat, min : Nat, left : Int]

NewFruit(species, accel, bonus) ==
  [sort |-> "fruit", species |-> species, accel |-> accel, bonus |-> bonus,
   stage |-> 0, elapsed |-> 0, hunger |-> 0, state |-> Normal, quality |-> FALSE,
   thieves |-> {}, harvests |-> 0, desired |-> 0, min |-> 0, left |-> 0]

FruitGrows(f) == f.state \notin {NeedFertilizer, FullyMatured}

\* The stage is left behind only in the last two stages; a mature tree below them
\* moves on at every tick, its time still running.
EnterFruitStage(f, roll) ==
  IF f.stage = FruitStages - 2
    THEN [f EXCEPT !.state = IF roll.ill THEN IsBuggy ELSE @,
                   !.elapsed = @ - MatureDuration[f.species]]
  ELSE IF f.stage = FruitStages - 1
    THEN [Bears(f, Enhanced(FruitQuantity[f.species], f.bonus), f.state = IsBuggy, roll.quality)
            EXCEPT !.elapsed = 0, !.state = FullyMatured]
  ELSE f

GrowMature(f, roll) ==
  IF f.elapsed < MatureDuration[f.species] THEN f
  ELSE EnterFruitStage([f EXCEPT !.stage = @ + 1], roll)

GrowYoung(f) ==
  IF f.hunger >= FertilizerTime[f.species]
    THEN [f EXCEPT !.state = NeedFertilizer, !.hunger = 0]
  ELSE IF f.elapsed >= YoungDuration[f.species]
    THEN [f EXCEPT !.stage = @ + 1, !.elapsed = 0, !.hunger = 0, !.state = NeedFertilizer]
  ELSE f

GrowFruit(f, time, roll) ==
  IF f.stage >= FruitStages - 1 THEN f
  ELSE IF f.stage >= MatureStage
    THEN GrowMature([f EXCEPT !.elapsed = @ + Enhanced(time, f.accel)], roll)
    ELSE GrowYoung([f EXCEPT !.elapsed = @ + time, !.hunger = @ + time])

\* Mutant: the harvested tree keeps what hung on it.
FruitHarvestedNotPicked(f) ==
  [f EXCEPT !.harvests = @ + 1, !.state = NeedFertilizer,
            !.stage = NextFruitStageAfterHarvest - 1, !.elapsed = 0, !.quality = FALSE]

FruitHarvested(f) ==
  [f EXCEPT !.harvests = @ + 1, !.state = NeedFertilizer,
            !.stage = NextFruitStageAfterHarvest - 1, !.elapsed = 0, !.left = 0,
            !.quality = FALSE]
=============================================================================
