----------------------------- MODULE AnimalLife -----------------------------
(***************************************************************************)
(* The animalInfo subdocument: a baby grows up, an adult yields; both get  *)
(* hungry, an adult falls ill at most once.                                *)
(***************************************************************************)
EXTENDS Produce

CONSTANTS Animals, GrowthTime, HungerTime, YieldTime, AnimalQuantity

ASSUME AnimalAssumption ==
  /\ Animals \subseteq Species
  /\ GrowthTime \in [Animals -> Nat \ {0}]
  /\ HungerTime \in [Animals -> Nat \ {0}]
  /\ YieldTime \in [Animals -> Nat \ {0}]
  /\ AnimalQuantity \in [Animals -> Nat \ {0}]

Hungry == "Hungry"
Sick == "Sick"
Yield == "Yield"
AnimalStates == {Normal, Hungry, Sick, Yield}

\* growth, hunger and yielding = currentGrowthTime, currentHungryTime and
\* currentYieldTime; accel and bonus = growthAcceleration and harvestYieldBonus.
AnimalInfos ==
  [sort : {"animal"}, species : Animals, accel : Nat, bonus : Nat,
   growth : Nat, hunger : Nat, yielding : Nat, adult : BOOLEAN, immunized : BOOLEAN,
   state : AnimalStates, quality : BOOLEAN, thieves : SUBSET Users, harvests : Nat,
   desired : Nat, min : Nat, left : Int]

NewAnimal(species, accel, bonus) ==
  [sort |-> "animal", species |-> species, accel |-> accel, bonus |-> bonus,
   growth |-> 0, hunger |-> 0, yielding |-> 0, adult |-> FALSE, immunized |-> FALSE,
   state |-> Normal, quality |-> FALSE, thieves |-> {}, harvests |-> 0,
   desired |-> 0, min |-> 0, left |-> 0]

\* Mutant: the worker's query lets the animals that yield through.
AnimalGrowsUnlessHungry(a) == a.state # Hungry

AnimalGrows(a) == a.state \notin {Hungry, Yield}

Starved(a) == a.hunger >= HungerTime[a.species]

GetHungry(a) == [a EXCEPT !.hunger = 0, !.state = Hungry]

\* A hungry adult is no longer sick; growing up does not reset the hunger.
GrowBaby(a) ==
  IF a.growth >= GrowthTime[a.species] THEN [a EXCEPT !.adult = TRUE, !.state = Hungry]
  ELSE IF Starved(a) THEN GetHungry(a)
  ELSE a

\* Half way to its harvest, once in its life, the animal may fall ill.
Exposed(a, roll) ==
  IF a.yielding >= YieldTime[a.species] \div 2 /\ ~a.immunized
    THEN [a EXCEPT !.immunized = TRUE, !.state = IF roll.ill THEN Sick ELSE @]
    ELSE a

YieldAnimal(a, roll) ==
  IF a.yielding < YieldTime[a.species] THEN a
  ELSE [Bears(a, Enhanced(AnimalQuantity[a.species], a.bonus), a.state = Sick, roll.quality)
          EXCEPT !.yielding = 0, !.state = Yield]

GrowAnimal(a, time, roll) ==
  IF ~a.adult
    THEN GrowBaby([a EXCEPT !.growth = @ + time, !.hunger = @ + time])
    ELSE LET b == [a EXCEPT !.yielding = @ + Enhanced(time, a.accel), !.hunger = @ + time]
         IN  IF Starved(b) THEN GetHungry(b) ELSE YieldAnimal(Exposed(b, roll), roll)

\* The thieves stay on the list, and the immunity stays.
AnimalHarvested(a) ==
  [a EXCEPT !.harvests = @ + 1, !.yielding = 0, !.hunger = 0, !.state = Hungry,
            !.left = 0, !.quality = FALSE]
=============================================================================
