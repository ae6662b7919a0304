--------------------------- MODULE HusbandryProofs ---------------------------
(***************************************************************************)
(* Theorems about Husbandry, for every number of farms, items, players and *)
(* supplies, every roll of the dice and every bound on the queues.         *)
(*                                                                         *)
(* A save is harmless because no handler but a cure changes an item that   *)
(* still grows: what the worker did not modify is in the database as it    *)
(* was read, but for an ailment that may have been cured meanwhile.        *)
(***************************************************************************)
EXTENDS Husbandry, ServiceProofs, FiniteSetTheorems, TLAPS

-----------------------------------------------------------------------------
(* What the sorts have in common.                                          *)

LEMMA EnhancedType ==
  ASSUME NEW n \in Nat, NEW attribute \in Nat
  PROVE  Enhanced(n, attribute) \in Nat /\ Enhanced(n, attribute) >= n
<1> DEFINE more == n * attribute
           part == 1000 + attribute
<1>1. more \in Nat /\ part \in Nat \ {0}
  OBVIOUS
<1>2. Enhanced(n, attribute) = n + more \div part
  BY DEF Enhanced
<1> HIDE DEF more, part
<1>3. more \div part \in Nat
  BY <1>1
<1> QED BY <1>2, <1>3

\* The three quantities of a harvest are natural numbers.
LEMMA QuantitiesType ==
  ASSUME NEW sort \in Sorts, NEW desired \in Nat
  PROVE  /\ MinYield(sort, desired) \in Nat
         /\ (MinYield(sort, desired) + desired) \div 2 \in Nat
<1> DEFINE part == desired * MinThievablePercent[sort]
<1>1. part \in Nat
  BY ProduceAssumption
<1> HIDE DEF part
<1>2. part \div 100 \in Nat
  BY <1>1
<1>3. MinYield(sort, desired) = part \div 100
  BY DEF MinYield, part
<1> DEFINE min == MinYield(sort, desired)
<1>4. min \in Nat
  BY <1>2, <1>3
<1> HIDE DEF min
<1>5. (min + desired) \div 2 \in Nat
  BY <1>4
<1> QED BY <1>4, <1>5 DEF min

-----------------------------------------------------------------------------
(* Animals.                                                                *)

AnimalFields ==
  {"sort", "species", "accel", "bonus", "growth", "hunger", "yielding", "adult", "immunized",
   "state", "quality", "thieves", "harvests", "desired", "min", "left"}

\* A record that EXCEPT changes in several fields is shown to belong to its set field
\* by field.
LEMMA AnimalInfosByField ==
  ASSUME NEW a, a = [x \in DOMAIN a |-> a[x]], DOMAIN a = AnimalFields,
         a.sort = "animal", a.species \in Animals, a.accel \in Nat, a.bonus \in Nat,
         a.growth \in Nat, a.hunger \in Nat, a.yielding \in Nat,
         a.adult \in BOOLEAN, a.immunized \in BOOLEAN, a.state \in AnimalStates,
         a.quality \in BOOLEAN, a.thieves \in SUBSET Users, a.harvests \in Nat,
         a.desired \in Nat, a.min \in Nat, a.left \in Int
  PROVE  a \in AnimalInfos
BY DEF AnimalInfos, AnimalFields

\* An animal has left its youth and its one illness behind before it is sick or yields.
AnimalFits(a) == a.state \in {Sick, Yield} => a.adult /\ a.immunized

\* What no aging changes.
Same(p, q) ==
  /\ q.sort = p.sort /\ q.species = p.species /\ q.accel = p.accel /\ q.bonus = p.bonus
  /\ q.thieves = p.thieves /\ q.harvests = p.harvests

AnimalAges(a, b) == b \in AnimalInfos /\ Same(a, b) /\ (AnimalFits(a) => AnimalFits(b))

\* GrowBaby, for an animal whose counters have moved on.
LEMMA GrowBabyLemma ==
  ASSUME NEW a \in AnimalInfos, ~ a.adult
  PROVE  AnimalAges(a, GrowBaby(a))
<1> DEFINE grown == [a EXCEPT !.adult = TRUE, !.state = Hungry]
           hungry == [a EXCEPT !.hunger = 0, !.state = Hungry]
<1>1. grown \in AnimalInfos /\ Same(a, grown) /\ grown.state = Hungry
  BY DEF AnimalInfos, AnimalStates, Same
<1>2. hungry \in AnimalInfos /\ Same(a, hungry) /\ hungry.state = Hungry
  BY DEF AnimalInfos, AnimalStates, Same
<1>3. AnimalAges(a, grown) /\ AnimalAges(a, hungry)
  BY <1>1, <1>2 DEF AnimalAges, AnimalFits, Hungry, Sick, Yield
<1>4. AnimalAges(a, a)
  BY DEF AnimalAges, Same
<1>5. GrowBaby(a) \in {grown, hungry, a}
  BY DEF GrowBaby, GetHungry
<1> HIDE DEF grown, hungry
<1> QED BY <1>3, <1>4, <1>5

LEMMA ExposedLemma ==
  ASSUME NEW a \in AnimalInfos, a.adult, NEW roll \in Rolls
  PROVE  /\ AnimalAges(a, Exposed(a, roll))
         /\ Exposed(a, roll).adult /\ Exposed(a, roll).yielding = a.yielding
         /\ a.yielding >= YieldTime[a.species] \div 2 => Exposed(a, roll).immunized
<1> DEFINE state == IF roll.ill THEN Sick ELSE a.state
           exposed == [a EXCEPT !.immunized = TRUE, !.state = state]
<1>1. state \in AnimalStates
  BY DEF AnimalInfos, AnimalStates
<1>2. Exposed(a, roll) =
        IF a.yielding >= YieldTime[a.species] \div 2 /\ ~ a.immunized THEN exposed ELSE a
  BY DEF Exposed
<1> HIDE DEF state
<1>3. /\ exposed \in AnimalInfos /\ Same(a, exposed) /\ exposed.adult = a.adult
      /\ exposed.immunized = TRUE /\ exposed.yielding = a.yielding
  BY <1>1 DEF AnimalInfos, Same
<1>4. AnimalAges(a, exposed)
  BY <1>3 DEF AnimalAges, AnimalFits
<1>5. AnimalAges(a, a)
  BY DEF AnimalAges, Same
<1> HIDE DEF exposed
<1> QED BY <1>2, <1>3, <1>4, <1>5

\* An animal comes to yield as an adult that has been exposed.
LEMMA YieldAnimalLemma ==
  ASSUME NEW a \in AnimalInfos, a.adult, NEW roll \in Rolls,
         a.yielding >= YieldTime[a.species] \div 2 => a.immunized
  PROVE  AnimalAges(a, YieldAnimal(a, roll))
<1> DEFINE desired == Enhanced(AnimalQuantity[a.species], a.bonus)
           min == MinYield(a.sort, desired)
           left == IF a.state = Sick THEN (min + desired) \div 2 ELSE desired
           b == YieldAnimal(a, roll)
<1>1. CASE a.yielding < YieldTime[a.species]
  BY <1>1 DEF AnimalAges, Same, YieldAnimal
<1>2. CASE ~ (a.yielding < YieldTime[a.species])
  <2>1. desired \in Nat
    BY AnimalAssumption, EnhancedType DEF AnimalInfos
  <2>2. min \in Nat /\ (min + desired) \div 2 \in Nat
    <3> HIDE DEF desired
    <3> QED BY <2>1, QuantitiesType DEF AnimalInfos, Sorts
  <2> HIDE DEF desired
  <2>3. left \in Nat
    BY <2>1, <2>2
  <2>4. /\ b = [x \in DOMAIN b |-> b[x]] /\ DOMAIN b = AnimalFields
        /\ Same(a, b) /\ b.adult = a.adult /\ b.immunized = a.immunized /\ b.state = Yield
        /\ b.desired = desired /\ b.min = min /\ b.left = left /\ b.yielding = 0
        /\ b.growth = a.growth /\ b.hunger = a.hunger
        /\ b.quality = (a.quality \/ roll.quality)
    BY <1>2 DEF YieldAnimal, Bears, AnimalInfos, AnimalFields, Same, desired
  <2>5. b.quality \in BOOLEAN
    BY <2>4
  <2> HIDE DEF b, min, left
  <2>6. b \in AnimalInfos
    <3>1. /\ b.sort = "animal" /\ b.species \in Animals /\ b.accel \in Nat /\ b.bonus \in Nat
          /\ b.growth \in Nat /\ b.hunger \in Nat /\ b.adult \in BOOLEAN
          /\ b.immunized \in BOOLEAN /\ b.thieves \in SUBSET Users /\ b.harvests \in Nat
      BY <2>4 DEF AnimalInfos, Same
    <3>2. b.state \in AnimalStates /\ b.yielding \in Nat
      BY <2>4 DEF AnimalStates
    <3>3. b.desired \in Nat /\ b.min \in Nat /\ b.left \in Int
      BY <2>1, <2>2, <2>3, <2>4
    <3> QED BY <2>4, <2>5, <3>1, <3>2, <3>3, AnimalInfosByField
  <2>7. a.immunized
    <3>1. YieldTime[a.species] \in Nat /\ a.yielding \in Nat
      BY AnimalAssumption DEF AnimalInfos
    <3>2. a.yielding >= YieldTime[a.species] \div 2
      BY <1>2, <3>1
    <3> QED BY <3>2
  <2> QED BY <2>4, <2>6, <2>7 DEF AnimalAges, AnimalFits, b
<1> QED BY <1>1, <1>2

LEMMA GrowAnimalLemma ==
  ASSUME NEW a \in AnimalInfos, NEW time \in Nat, NEW roll \in Rolls
  PROVE  AnimalAges(a, GrowAnimal(a, time, roll))
<1>1. a.growth \in Nat /\ a.hunger \in Nat /\ a.yielding \in Nat /\ a.accel \in Nat
  BY DEF AnimalInfos
<1>2. ASSUME NEW b, NEW c, AnimalAges(a, b), AnimalAges(b, c) PROVE AnimalAges(a, c)
  BY <1>2 DEF AnimalAges, Same
<1>3. CASE ~ a.adult
  <2> DEFINE b == [a EXCEPT !.growth = @ + time, !.hunger = @ + time]
  <2>1. b \in AnimalInfos /\ Same(a, b)
    <3> DEFINE growth == a.growth + time
               hunger == a.hunger + time
    <3>1. growth \in Nat /\ hunger \in Nat /\ b = [a EXCEPT !.growth = growth, !.hunger = hunger]
      BY <1>1
    <3> HIDE DEF b, growth, hunger
    <3> QED BY <3>1 DEF AnimalInfos, Same
  <2>2. b.state = a.state /\ b.adult = a.adult /\ b.immunized = a.immunized
    BY DEF AnimalInfos
  <2>3. AnimalAges(a, b) /\ ~ b.adult
    BY <1>3, <2>1, <2>2 DEF AnimalAges, AnimalFits
  <2>4. GrowAnimal(a, time, roll) = GrowBaby(b)
    BY <1>3 DEF GrowAnimal
  <2> HIDE DEF b
  <2> QED BY <1>2, <2>3, <2>4, GrowBabyLemma DEF AnimalAges
<1>4. CASE a.adult
  <2> DEFINE b == [a EXCEPT !.yielding = @ + Enhanced(time, a.accel), !.hunger = @ + time]
             hungry == GetHungry(b)
             exposed == Exposed(b, roll)
  <2>1. Enhanced(time, a.accel) \in Nat
    BY <1>1, EnhancedType
  <2>2. /\ b \in AnimalInfos /\ Same(a, b)
        /\ b.state = a.state /\ b.adult = a.adult /\ b.immunized = a.immunized
    <3> DEFINE yielding == a.yielding + Enhanced(time, a.accel)
               hunger == a.hunger + time
    <3>1. /\ yielding \in Nat /\ hunger \in Nat
          /\ b = [a EXCEPT !.yielding = yielding, !.hunger = hunger]
      BY <1>1, <2>1
    <3> HIDE DEF b, yielding, hunger
    <3> QED BY <3>1 DEF AnimalInfos, Same
  <2>3. AnimalAges(a, b) /\ b.adult
    BY <1>4, <2>2 DEF AnimalAges, AnimalFits
  <2>4. GrowAnimal(a, time, roll) = IF Starved(b) THEN hungry ELSE YieldAnimal(exposed, roll)
    BY <1>4 DEF GrowAnimal
  <2> HIDE DEF b
  <2>5. AnimalAges(b, hungry)
    <3>1. hungry \in AnimalInfos /\ Same(b, hungry) /\ hungry.state = Hungry
      BY <2>2 DEF AnimalInfos, AnimalStates, GetHungry, Same
    <3> QED BY <3>1 DEF AnimalAges, AnimalFits, Hungry, Sick, Yield
  <2>6. AnimalAges(b, exposed) /\ exposed.adult /\ exposed.yielding = b.yielding
        /\ (b.yielding >= YieldTime[b.species] \div 2 => exposed.immunized)
    BY <2>3, ExposedLemma DEF AnimalAges
  <2> HIDE DEF hungry, exposed
  <2>7. AnimalAges(exposed, YieldAnimal(exposed, roll))
    BY <2>6, YieldAnimalLemma DEF AnimalAges, Same
  <2> QED BY <1>2, <2>3, <2>4, <2>5, <2>6, <2>7
<1> QED BY <1>3, <1>4 DEF AnimalInfos

-----------------------------------------------------------------------------
(* Fruit trees.                                                            *)

FruitFields ==
  {"sort", "species", "accel", "bonus", "stage", "elapsed", "hunger", "state", "quality",
   "thieves", "harvests", "desired", "min", "left"}

LEMMA FruitInfosByField ==
  ASSUME NEW f, f = [x \in DOMAIN f |-> f[x]], DOMAIN f = FruitFields,
         f.sort = "fruit", f.species \in Fruits, f.accel \in Nat, f.bonus \in Nat,
         f.stage \in 0 .. FruitStages - 1, f.elapsed \in Int, f.hunger \in Nat,
         f.state \in FruitStates, f.quality \in BOOLEAN, f.thieves \in SUBSET Users,
         f.harvests \in Nat, f.desired \in Nat, f.min \in Nat, f.left \in Int
  PROVE  f \in FruitInfos
BY DEF FruitInfos, FruitFields

\* Stage, state and what hangs on the tree.
FruitFits(f) ==
  /\ f.state = FullyMatured <=> f.stage = FruitStages - 1
  /\ f.state = IsBuggy => f.stage = FruitStages - 2
  /\ f.state # FullyMatured => f.left = 0

FruitAges(f, g) == g \in FruitInfos /\ Same(f, g) /\ (FruitFits(f) => FruitFits(g))

\* A tree in its last stage bears.
LEMMA RipensLemma ==
  ASSUME NEW f \in FruitInfos, f.stage = FruitStages - 1, NEW roll \in Rolls
  PROVE  LET g == EnterFruitStage(f, roll)
         IN  g \in FruitInfos /\ Same(f, g) /\ FruitFits(g)
<1> DEFINE desired == Enhanced(FruitQuantity[f.species], f.bonus)
           min == MinYield(f.sort, desired)
           left == IF f.state = IsBuggy THEN (min + desired) \div 2 ELSE desired
           g == EnterFruitStage(f, roll)
<1>1. desired \in Nat
  BY FruitAssumption, EnhancedType DEF FruitInfos
<1>2. min \in Nat /\ (min + desired) \div 2 \in Nat
  <2> HIDE DEF desired
  <2> QED BY <1>1, QuantitiesType DEF FruitInfos, Sorts
<1>3. f.stage # FruitStages - 2
  BY FruitAssumption
<1> HIDE DEF desired
<1>4. left \in Nat
  BY <1>1, <1>2
<1>5. /\ g = [x \in DOMAIN g |-> g[x]] /\ DOMAIN g = FruitFields
      /\ Same(f, g) /\ g.stage = f.stage /\ g.elapsed = 0 /\ g.hunger = f.hunger
      /\ g.state = FullyMatured /\ g.quality = (f.quality \/ roll.quality)
      /\ g.desired = desired /\ g.min = min /\ g.left = left
  BY <1>3 DEF EnterFruitStage, Bears, FruitInfos, FruitFields, Same, desired
<1>6. g.quality \in BOOLEAN
  BY <1>5
<1> HIDE DEF g, min, left
<1>7. g \in FruitInfos
  <2>1. /\ g.sort = "fruit" /\ g.species \in Fruits /\ g.accel \in Nat /\ g.bonus \in Nat
        /\ g.stage \in 0 .. FruitStages - 1 /\ g.hunger \in Nat
        /\ g.thieves \in SUBSET Users /\ g.harvests \in Nat
    BY <1>5 DEF FruitInfos, Same
  <2>2. g.state \in FruitStates /\ g.elapsed \in Int
    BY <1>5 DEF FruitStates
  <2>3. g.desired \in Nat /\ g.min \in Nat /\ g.left \in Int
    BY <1>1, <1>2, <1>4, <1>5
  <2> QED BY <1>5, <1>6, <2>1, <2>2, <2>3, FruitInfosByField
<1>8. FruitFits(g)
  BY <1>5, FruitAssumption DEF FruitFits, FullyMatured, IsBuggy
<1> QED BY <1>5, <1>7, <1>8 DEF g

\* Two stages before the end comes the last chance of an infestation.
LEMMA GrowMatureLemma ==
  ASSUME NEW f \in FruitInfos, f.stage < FruitStages - 1, NEW roll \in Rolls
  PROVE  FruitAges(f, GrowMature(f, roll))
<1> DEFINE g == [f EXCEPT !.stage = @ + 1]
           stage == f.stage + 1
<1>1. stage \in 1 .. FruitStages - 1 /\ f.stage \in Nat
  BY FruitAssumption DEF FruitInfos
<1>2. g = [f EXCEPT !.stage = stage]
  OBVIOUS
<1>3. FruitAges(f, f)
  BY DEF FruitAges, Same
<1> HIDE DEF g
<1>4. /\ g \in FruitInfos /\ Same(f, g) /\ g.stage = stage
      /\ g.state = f.state /\ g.left = f.left /\ g.elapsed = f.elapsed
  <2> HIDE DEF stage
  <2> QED BY <1>1, <1>2 DEF FruitInfos, Same
<1>5. CASE stage = FruitStages - 1
  BY <1>3, <1>4, <1>5, RipensLemma DEF GrowMature, FruitAges, Same, g
<1>6. CASE stage = FruitStages - 2
  <2> DEFINE state == IF roll.ill THEN IsBuggy ELSE g.state
             elapsed == g.elapsed - MatureDuration[g.species]
             h == EnterFruitStage(g, roll)
  <2>1. h = [g EXCEPT !.state = state, !.elapsed = elapsed]
    BY <1>4, <1>6 DEF EnterFruitStage
  <2>2. state \in FruitStates /\ elapsed \in Int
    BY <1>4, FruitAssumption DEF FruitInfos, FruitStates
  <2>3. state \in {IsBuggy, f.state}
    BY <1>4
  <2> HIDE DEF state, elapsed, h
  <2>4. /\ h \in FruitInfos /\ Same(g, h) /\ h.stage = g.stage /\ h.state = state
        /\ h.left = g.left
    BY <1>4, <2>1, <2>2 DEF FruitInfos, Same
  <2>5. FruitFits(f) => FruitFits(h)
    BY <1>1, <1>4, <1>6, <2>3, <2>4, FruitAssumption
       DEF FruitFits, FullyMatured, IsBuggy, stage
  <2>6. FruitAges(f, h)
    BY <1>4, <2>4, <2>5 DEF FruitAges, Same
  <2> QED BY <1>3, <2>6 DEF GrowMature, g, h
<1>7. CASE stage # FruitStages - 1 /\ stage # FruitStages - 2
  <2>1. EnterFruitStage(g, roll) = g
    BY <1>4, <1>7 DEF EnterFruitStage
  <2>2. FruitFits(f) => FruitFits(g)
    BY <1>1, <1>4, <1>7, FruitAssumption DEF FruitFits, FullyMatured, IsBuggy, stage
  <2>3. FruitAges(f, g)
    BY <1>4, <2>2 DEF FruitAges
  <2> QED BY <1>3, <2>1, <2>3 DEF GrowMature, g
<1> QED BY <1>5, <1>6, <1>7

LEMMA GrowYoungLemma ==
  ASSUME NEW f \in FruitInfos, f.stage < MatureStage
  PROVE  FruitAges(f, GrowYoung(f))
<1> DEFINE hungry == [f EXCEPT !.state = NeedFertilizer, !.hunger = 0]
           next == [f EXCEPT !.stage = @ + 1, !.elapsed = 0, !.hunger = 0,
                             !.state = NeedFertilizer]
<1>1. FruitAges(f, f)
  BY DEF FruitAges, Same
<1>2. f.stage \in Nat /\ f.stage + 1 \in 0 .. FruitStages - 2
  BY FruitAssumption DEF FruitInfos
<1>3. FruitAges(f, hungry)
  <2>1. /\ hungry \in FruitInfos /\ Same(f, hungry) /\ hungry.stage = f.stage
        /\ hungry.state = NeedFertilizer /\ hungry.left = f.left
    BY DEF FruitInfos, FruitStates, Same
  <2> HIDE DEF hungry
  <2> QED BY <1>2, <2>1, FruitAssumption
          DEF FruitAges, FruitFits, NeedFertilizer, FullyMatured, IsBuggy
<1>4. FruitAges(f, next)
  <2> DEFINE stage == f.stage + 1
  <2>1. /\ next = [f EXCEPT !.stage = stage, !.elapsed = 0, !.hunger = 0, !.state = NeedFertilizer]
        /\ stage \in 0 .. FruitStages - 1 /\ stage # FruitStages - 1
    BY <1>2, FruitAssumption
  <2> HIDE DEF stage, next
  <2>2. /\ next = [x \in DOMAIN next |-> next[x]] /\ DOMAIN next = FruitFields
        /\ Same(f, next) /\ next.stage = stage /\ next.elapsed = 0 /\ next.hunger = 0
        /\ next.state = NeedFertilizer /\ next.quality = f.quality /\ next.left = f.left
        /\ next.desired = f.desired /\ next.min = f.min
    BY <2>1 DEF FruitInfos, FruitFields, Same
  <2>3. next \in FruitInfos
    <3>1. next.state \in FruitStates
      BY <2>2 DEF FruitStates
    <3>2. /\ next.stage \in 0 .. FruitStages - 1 /\ next.elapsed \in Int /\ next.hunger \in Nat
          /\ next.quality \in BOOLEAN /\ next.desired \in Nat
          /\ next.min \in Nat /\ next.left \in Int
      BY <2>1, <2>2 DEF FruitInfos
    <3>3. /\ next.sort = "fruit" /\ next.species \in Fruits /\ next.accel \in Nat
          /\ next.bonus \in Nat /\ next.thieves \in SUBSET Users /\ next.harvests \in Nat
      BY <2>2 DEF FruitInfos, Same
    <3> QED BY <2>2, <3>1, <3>2, <3>3, FruitInfosByField
  <2>4. FruitFits(f) => FruitFits(next)
    BY <1>2, <2>1, <2>2, FruitAssumption DEF FruitFits, NeedFertilizer, FullyMatured, IsBuggy
  <2> QED BY <2>2, <2>3, <2>4 DEF FruitAges
<1>5. GrowYoung(f) \in {hungry, next, f}
  BY DEF GrowYoung
<1> HIDE DEF hungry, next
<1> QED BY <1>1, <1>3, <1>4, <1>5

LEMMA GrowFruitLemma ==
  ASSUME NEW f \in FruitInfos, NEW time \in Nat, NEW roll \in Rolls
  PROVE  FruitAges(f, GrowFruit(f, time, roll))
<1>1. /\ f.stage \in 0 .. FruitStages - 1 /\ f.elapsed \in Int /\ f.hunger \in Nat
      /\ f.accel \in Nat
  BY DEF FruitInfos
<1>2. ASSUME NEW g, g \in FruitInfos, Same(f, g), g.stage = f.stage, g.state = f.state,
             g.left = f.left, NEW h, FruitAges(g, h)
      PROVE  FruitAges(f, h)
  BY <1>2 DEF FruitAges, FruitFits, Same
<1>3. CASE f.stage >= FruitStages - 1
  BY <1>3 DEF GrowFruit, FruitAges, Same
<1>4. CASE ~ (f.stage >= FruitStages - 1) /\ f.stage >= MatureStage
  <2> DEFINE elapsed == f.elapsed + Enhanced(time, f.accel)
             g == [f EXCEPT !.elapsed = elapsed]
  <2>1. elapsed \in Int
    <3>1. Enhanced(time, f.accel) \in Nat
      BY <1>1, EnhancedType
    <3> QED BY <1>1, <3>1
  <2>2. GrowFruit(f, time, roll) = GrowMature(g, roll)
    BY <1>4 DEF GrowFruit
  <2> HIDE DEF elapsed
  <2>3. /\ g \in FruitInfos /\ Same(f, g) /\ g.stage = f.stage /\ g.state = f.state
        /\ g.left = f.left
    BY <2>1 DEF FruitInfos, Same
  <2> HIDE DEF g
  <2>4. g.stage < FruitStages - 1
    BY <1>1, <1>4, <2>3, FruitAssumption
  <2> QED BY <1>2, <2>2, <2>3, <2>4, GrowMatureLemma
<1>5. CASE ~ (f.stage >= FruitStages - 1) /\ ~ (f.stage >= MatureStage)
  <2> DEFINE elapsed == f.elapsed + time
             hunger == f.hunger + time
             g == [f EXCEPT !.elapsed = elapsed, !.hunger = hunger]
  <2>1. elapsed \in Int /\ hunger \in Nat
    BY <1>1
  <2>2. GrowFruit(f, time, roll) = GrowYoung(g)
    BY <1>5 DEF GrowFruit
  <2> HIDE DEF elapsed, hunger
  <2>3. /\ g \in FruitInfos /\ Same(f, g) /\ g.stage = f.stage /\ g.state = f.state
        /\ g.left = f.left
    BY <2>1 DEF FruitInfos, Same
  <2> HIDE DEF g
  <2>4. g.stage < MatureStage
    BY <1>1, <1>5, <2>3, FruitAssumption
  <2> QED BY <1>2, <2>2, <2>3, <2>4, GrowYoungLemma
<1> QED BY <1>3, <1>4, <1>5

\* The harvested tree starts anew, empty and short of its last two stages.
LEMMA FruitHarvestedLemma ==
  ASSUME NEW f \in FruitInfos
  PROVE  LET g == FruitHarvested(f)
         IN  g \in FruitInfos /\ g.state = NeedFertilizer /\ FruitFits(g)
<1> DEFINE stage == NextFruitStageAfterHarvest - 1
           g == FruitHarvested(f)
<1>1. stage \in 0 .. FruitStages - 1 /\ stage # FruitStages - 1
  BY FruitAssumption
<1>2. /\ g = [x \in DOMAIN g |-> g[x]] /\ DOMAIN g = FruitFields
      /\ g.sort = f.sort /\ g.species = f.species /\ g.accel = f.accel /\ g.bonus = f.bonus
      /\ g.stage = stage /\ g.elapsed = 0 /\ g.hunger = f.hunger /\ g.state = NeedFertilizer
      /\ g.quality = FALSE /\ g.thieves = f.thieves /\ g.harvests = f.harvests + 1
      /\ g.desired = f.desired /\ g.min = f.min /\ g.left = 0
  BY DEF FruitHarvested, FruitInfos, FruitFields
<1> HIDE DEF g, stage
<1>3. g \in FruitInfos
  <2>1. /\ g.sort = "fruit" /\ g.species \in Fruits /\ g.accel \in Nat /\ g.bonus \in Nat
        /\ g.hunger \in Nat /\ g.thieves \in SUBSET Users /\ g.harvests \in Nat
        /\ g.desired \in Nat /\ g.min \in Nat
    BY <1>2 DEF FruitInfos
  <2>2. g.state \in FruitStates /\ g.elapsed \in Int /\ g.left \in Int
    BY <1>2 DEF FruitStates
  <2>3. g.quality \in BOOLEAN
    BY <1>2
  <2> QED BY <1>1, <1>2, <2>1, <2>2, <2>3, FruitInfosByField
<1>4. FruitFits(g)
  BY <1>1, <1>2 DEF FruitFits, NeedFertilizer, FullyMatured, IsBuggy
<1> QED BY <1>2, <1>3, <1>4 DEF g

\* A harvested animal is hungry.
LEMMA AnimalHarvestedLemma ==
  ASSUME NEW a \in AnimalInfos
  PROVE  LET b == AnimalHarvested(a)
         IN  b \in AnimalInfos /\ b.state = Hungry /\ AnimalFits(b)
<1> DEFINE b == AnimalHarvested(a)
<1>1. /\ b = [x \in DOMAIN b |-> b[x]] /\ DOMAIN b = AnimalFields
      /\ b.sort = a.sort /\ b.species = a.species /\ b.accel = a.accel /\ b.bonus = a.bonus
      /\ b.growth = a.growth /\ b.hunger = 0 /\ b.yielding = 0 /\ b.adult = a.adult
      /\ b.immunized = a.immunized /\ b.state = Hungry
      /\ b.quality = FALSE /\ b.thieves = a.thieves /\ b.harvests = a.harvests + 1
      /\ b.desired = a.desired /\ b.min = a.min /\ b.left = 0
  BY DEF AnimalHarvested, AnimalInfos, AnimalFields
<1> HIDE DEF b
<1>2. b \in AnimalInfos
  <2>1. /\ b.sort = "animal" /\ b.species \in Animals /\ b.accel \in Nat /\ b.bonus \in Nat
        /\ b.growth \in Nat /\ b.adult \in BOOLEAN /\ b.immunized \in BOOLEAN
        /\ b.thieves \in SUBSET Users /\ b.harvests \in Nat
        /\ b.desired \in Nat /\ b.min \in Nat
    BY <1>1 DEF AnimalInfos
  <2>2. b.state \in AnimalStates /\ b.hunger \in Nat /\ b.yielding \in Nat /\ b.left \in Int
    BY <1>1 DEF AnimalStates
  <2>3. b.quality \in BOOLEAN
    BY <1>1
  <2> QED BY <1>1, <2>1, <2>2, <2>3, AnimalInfosByField
<1>3. AnimalFits(b)
  BY <1>1 DEF AnimalFits, Hungry, Sick, Yield
<1> QED BY <1>1, <1>2, <1>3 DEF b

-----------------------------------------------------------------------------
(* Bee houses.                                                             *)

BeeHouseFields ==
  {"sort", "species", "at", "level", "yielding", "state", "quality", "thieves", "harvests",
   "desired", "min", "left"}

LEMMA BeeHouseInfosByField ==
  ASSUME NEW b, b = [x \in DOMAIN b |-> b[x]], DOMAIN b = BeeHouseFields,
         b.sort = "beeHouse", b.species = BeeHouse, b.at \in Int \X Int,
         b.level \in DOMAIN HoneyMultiplier, b.yielding \in Nat, b.state \in BeeHouseStates,
         b.quality \in BOOLEAN, b.thieves \in SUBSET Users, b.harvests \in Nat,
         b.desired \in Nat, b.min \in Nat, b.left \in Int
  PROVE  b \in BeeHouseInfos
BY DEF BeeHouseInfos, BeeHouseFields

BeeHouseFits(b) == b.state # BeeHouseYield => b.left = 0

\* However many flowers are in bloom around it, a bee house makes a number of honeys.
LEMMA HoneyType ==
  ASSUME NEW b \in BeeHouseInfos, NEW flowers \in SUBSET Beds
  PROVE  Honey(b, flowers) \in Nat
<1> DEFINE fed == {bed \in flowers : BedAt[bed] \in Adjacent(b.at)}
           sum == FlowersHoney(fed)
           level == HoneyMultiplier[b.level]
           total == (BaseHoney + sum) * level
<1>1. fed \in SUBSET Beds
  OBVIOUS
<1>2. Honey(b, flowers) = total \div 1000
  BY DEF Honey
<1> HIDE DEF fed
<1>3. sum \in Nat
  BY <1>1, BeeHouseAssumption, SumOfNats DEF FlowersHoney
<1>4. level \in Nat
  BY BeeHouseAssumption DEF BeeHouseInfos
<1> HIDE DEF sum, level
<1>5. total \in Nat
  BY <1>3, <1>4, BeeHouseAssumption
<1> HIDE DEF total
<1> QED BY <1>2, <1>5

LEMMA GrowBeeHouseLemma ==
  ASSUME NEW b \in BeeHouseInfos, NEW time \in Nat, NEW roll \in Rolls,
         NEW flowers \in SUBSET Beds
  PROVE  LET c == GrowBeeHouse(b, time, roll, flowers)
         IN  /\ c \in BeeHouseInfos /\ (BeeHouseFits(b) => BeeHouseFits(c))
             /\ c.sort = b.sort /\ c.species = b.species /\ c.at = b.at /\ c.level = b.level
             /\ c.thieves = b.thieves /\ c.harvests = b.harvests
<1> DEFINE c == GrowBeeHouse(b, time, roll, flowers)
<1>1. CASE b.yielding + time < BeeHouseYieldTime
  <2> DEFINE yielding == b.yielding + time
  <2>1. yielding \in Nat /\ c = [b EXCEPT !.yielding = yielding]
    BY <1>1 DEF GrowBeeHouse, BeeHouseInfos
  <2> HIDE DEF yielding, c
  <2>2. /\ c \in BeeHouseInfos /\ c.state = b.state /\ c.left = b.left
        /\ c.sort = b.sort /\ c.species = b.species /\ c.at = b.at /\ c.level = b.level
        /\ c.thieves = b.thieves /\ c.harvests = b.harvests
    BY <2>1 DEF BeeHouseInfos
  <2> QED BY <2>2 DEF BeeHouseFits, c
<1>2. CASE ~ (b.yielding + time < BeeHouseYieldTime)
  <2> DEFINE desired == Honey(b, flowers)
             min == MinYield(b.sort, desired)
  <2>1. desired \in Nat
    BY HoneyType
  <2>2. min \in Nat
    <3> HIDE DEF desired
    <3> QED BY <2>1, QuantitiesType DEF BeeHouseInfos, Sorts
  <2>3. c = [Bears(b, desired, FALSE, roll.quality)
               EXCEPT !.yielding = 0, !.state = BeeHouseYield]
    BY <1>2 DEF GrowBeeHouse
  <2> HIDE DEF desired
  <2>4. /\ c = [x \in DOMAIN c |-> c[x]] /\ DOMAIN c = BeeHouseFields
        /\ c.sort = b.sort /\ c.species = b.species /\ c.at = b.at /\ c.level = b.level
        /\ c.thieves = b.thieves /\ c.harvests = b.harvests
        /\ c.yielding = 0 /\ c.state = BeeHouseYield /\ c.quality = (b.quality \/ roll.quality)
        /\ c.desired = desired /\ c.min = min /\ c.left = desired
    BY <2>3 DEF Bears, BeeHouseInfos, BeeHouseFields
  <2>5. c.quality \in BOOLEAN
    BY <2>4
  <2> HIDE DEF c, min
  <2>6. c \in BeeHouseInfos
    <3>1. /\ c.sort = "beeHouse" /\ c.species = BeeHouse /\ c.at \in Int \X Int
          /\ c.level \in DOMAIN HoneyMultiplier /\ c.thieves \in SUBSET Users
          /\ c.harvests \in Nat
      BY <2>4 DEF BeeHouseInfos
    <3>2. c.state \in BeeHouseStates /\ c.yielding \in Nat
      BY <2>4 DEF BeeHouseStates
    <3>3. c.desired \in Nat /\ c.min \in Nat /\ c.left \in Int
      BY <2>1, <2>2, <2>4
    <3> QED BY <2>4, <2>5, <3>1, <3>2, <3>3, BeeHouseInfosByField
  <2> QED BY <2>4, <2>6 DEF BeeHouseFits, c
<1> QED BY <1>1, <1>2

LEMMA BeeHouseHarvestedLemma ==
  ASSUME NEW b \in BeeHouseInfos
  PROVE  LET c == BeeHouseHarvested(b)
         IN  c \in BeeHouseInfos /\ c.state = Normal /\ BeeHouseFits(c)
<1> DEFINE c == BeeHouseHarvested(b)
<1>1. /\ c = [x \in DOMAIN c |-> c[x]] /\ DOMAIN c = BeeHouseFields
      /\ c.sort = b.sort /\ c.species = b.species /\ c.at = b.at /\ c.level = b.level
      /\ c.thieves = b.thieves /\ c.harvests = b.harvests /\ c.yielding = b.yielding
      /\ c.state = Normal /\ c.quality = FALSE
      /\ c.desired = 0 /\ c.min = b.min /\ c.left = 0
  BY DEF BeeHouseHarvested, BeeHouseInfos, BeeHouseFields
<1> HIDE DEF c
<1>2. c \in BeeHouseInfos
  <2>1. /\ c.sort = "beeHouse" /\ c.species = BeeHouse /\ c.at \in Int \X Int
        /\ c.level \in DOMAIN HoneyMultiplier /\ c.thieves \in SUBSET Users
        /\ c.harvests \in Nat /\ c.yielding \in Nat /\ c.min \in Nat
    BY <1>1 DEF BeeHouseInfos
  <2>2. c.state \in BeeHouseStates /\ c.desired \in Nat /\ c.left \in Int
    BY <1>1 DEF BeeHouseStates
  <2>3. c.quality \in BOOLEAN
    BY <1>1
  <2> QED BY <1>1, <2>1, <2>2, <2>3, BeeHouseInfosByField
<1> QED BY <1>1, <1>2 DEF BeeHouseFits, c

-----------------------------------------------------------------------------
(* Items of any sort.                                                      *)

Fits(p) ==
  /\ p.sort = "animal" => AnimalFits(p)
  /\ p.sort = "fruit" => FruitFits(p)
  /\ p.sort = "beeHouse" => BeeHouseFits(p)

FieldsOf(sort) ==
  IF sort = "animal" THEN AnimalFields ELSE IF sort = "fruit" THEN FruitFields ELSE BeeHouseFields

LEMMA InfoOfSort ==
  ASSUME NEW p \in Infos
  PROVE  /\ \/ p.sort = "animal" /\ p \in AnimalInfos
            \/ p.sort = "fruit" /\ p \in FruitInfos
            \/ p.sort = "beeHouse" /\ p \in BeeHouseInfos
         /\ p = [x \in DOMAIN p |-> p[x]] /\ DOMAIN p = FieldsOf(p.sort)
<1>1. CASE p \in AnimalInfos
  <2>1. p.sort = "animal" /\ p = [x \in DOMAIN p |-> p[x]]
    BY <1>1 DEF AnimalInfos
  <2>2. DOMAIN p = AnimalFields
    BY <1>1 DEF AnimalInfos, AnimalFields
  <2> QED BY <1>1, <2>1, <2>2 DEF FieldsOf
<1>2. CASE p \in FruitInfos
  <2>1. p.sort = "fruit" /\ p = [x \in DOMAIN p |-> p[x]]
    BY <1>2 DEF FruitInfos
  <2>2. DOMAIN p = FruitFields
    BY <1>2 DEF FruitInfos, FruitFields
  <2> QED BY <1>2, <2>1, <2>2 DEF FieldsOf
<1>3. CASE p \in BeeHouseInfos
  <2>1. p.sort = "beeHouse" /\ p = [x \in DOMAIN p |-> p[x]]
    BY <1>3 DEF BeeHouseInfos
  <2>2. DOMAIN p = BeeHouseFields
    BY <1>3 DEF BeeHouseInfos, BeeHouseFields
  <2> QED BY <1>3, <2>1, <2>2 DEF FieldsOf
<1> QED BY <1>1, <1>2, <1>3 DEF Infos

\* What the handlers read of an item of any sort.
LEMMA InfoTypes ==
  ASSUME NEW p \in Infos
  PROVE  /\ p.species \in Species /\ p.left \in Int /\ p.min \in Nat
         /\ p.quality \in BOOLEAN /\ p.sort \in Sorts
         /\ "state" \in DOMAIN p /\ "left" \in DOMAIN p /\ "sort" \in DOMAIN p
<1>1. CASE p \in AnimalInfos
  BY <1>1, AnimalAssumption DEF AnimalInfos, Sorts
<1>2. CASE p \in FruitInfos
  BY <1>2, FruitAssumption DEF FruitInfos, Sorts
<1>3. CASE p \in BeeHouseInfos
  BY <1>3, BeeHouseAssumption DEF BeeHouseInfos, Sorts
<1> QED BY <1>1, <1>2, <1>3 DEF Infos

\* What grows bears nothing yet.
LEMMA GrowingBearsNothing ==
  ASSUME NEW p \in Infos, Grows(p)
  PROVE  ~ Bearing(p)
<1> USE DEF Grows, Bearing, Yield, FullyMatured, Hungry, NeedFertilizer, BeeHouseYield, Normal
<1>1. CASE p.sort = "animal" /\ p \in AnimalInfos
  BY <1>1 DEF AnimalGrows, AnimalInfos, AnimalStates, Sick
<1>2. CASE p.sort = "fruit" /\ p \in FruitInfos
  BY <1>2 DEF FruitGrows, FruitInfos, FruitStates, IsBuggy
<1>3. CASE p.sort = "beeHouse" /\ p \in BeeHouseInfos
  BY <1>3 DEF BeeHouseGrows, BeeHouseInfos, BeeHouseStates
<1> QED BY <1>1, <1>2, <1>3, InfoOfSort

\* q is p some time later: fields the workers do not write are as they were.
Ages(p, q) ==
  /\ q \in Infos /\ DOMAIN q = DOMAIN p /\ q.sort = p.sort
  /\ \A f \in DOMAIN p \ WorkerFields : q[f] = p[f]
  /\ Fits(p) => Fits(q)

LEMMA GrowLemma ==
  ASSUME NEW p \in Infos, NEW time \in Nat, NEW roll \in Rolls, blossoms \subseteq Beds
  PROVE  Ages(p, Grow(p, time, roll))
<1> DEFINE q == Grow(p, time, roll)
<1>1. CASE p.sort = "animal" /\ p \in AnimalInfos
  <2>1. q = GrowAnimal(p, time, roll)
    BY <1>1 DEF Grow
  <2>2. AnimalAges(p, q)
    BY <1>1, <2>1, GrowAnimalLemma
  <2> HIDE DEF q
  <2>3. q \in Infos /\ q.sort = p.sort /\ DOMAIN q = DOMAIN p /\ DOMAIN p = AnimalFields
    BY <1>1, <2>2 DEF AnimalAges, Infos, AnimalInfos, AnimalFields
  <2>4. \A f \in AnimalFields \ WorkerFields : q[f] = p[f]
    BY <2>2 DEF AnimalFields, WorkerFields, AnimalAges, Same
  <2> QED BY <1>1, <2>2, <2>3, <2>4 DEF Ages, AnimalAges, Fits, q
<1>2. CASE p.sort = "fruit" /\ p \in FruitInfos
  <2>1. q = GrowFruit(p, time, roll)
    BY <1>2 DEF Grow
  <2>2. FruitAges(p, q)
    BY <1>2, <2>1, GrowFruitLemma
  <2> HIDE DEF q
  <2>3. q \in Infos /\ q.sort = p.sort /\ DOMAIN q = DOMAIN p /\ DOMAIN p = FruitFields
    BY <1>2, <2>2 DEF FruitAges, Infos, FruitInfos, FruitFields
  <2>4. \A f \in FruitFields \ WorkerFields : q[f] = p[f]
    BY <2>2 DEF FruitFields, WorkerFields, FruitAges, Same
  <2> QED BY <1>2, <2>2, <2>3, <2>4 DEF Ages, FruitAges, Fits, q
<1>3. CASE p.sort = "beeHouse" /\ p \in BeeHouseInfos
  <2>1. q = GrowBeeHouse(p, time, roll, blossoms)
    BY <1>3 DEF Grow
  <2>2. /\ q \in BeeHouseInfos /\ (BeeHouseFits(p) => BeeHouseFits(q))
        /\ q.sort = p.sort /\ q.species = p.species /\ q.at = p.at /\ q.level = p.level
        /\ q.thieves = p.thieves /\ q.harvests = p.harvests
    BY <1>3, <2>1, GrowBeeHouseLemma
  <2> HIDE DEF q
  <2>3. q \in Infos /\ DOMAIN q = DOMAIN p /\ DOMAIN p = BeeHouseFields
    BY <1>3, <2>2 DEF Infos, BeeHouseInfos, BeeHouseFields
  <2>4. \A f \in BeeHouseFields \ WorkerFields : q[f] = p[f]
    BY <2>2 DEF BeeHouseFields, WorkerFields
  <2> QED BY <1>3, <2>2, <2>3, <2>4 DEF Ages, Fits, q
<1> QED BY <1>1, <1>2, <1>3, InfoOfSort

\* What a cure does to an item, whatever ails it.
Mended(p) == [p EXCEPT !.state = Normal]

LEMMA MendedLemma ==
  ASSUME NEW p \in Infos
  PROVE  /\ Mended(p) \in Infos /\ Mended(p).sort = p.sort /\ Mended(p).state = Normal
         /\ Mended(p).left = p.left /\ Grows(Mended(p)) /\ ~ Bearing(Mended(p))
         /\ Fits(p) /\ ~ Bearing(p) => Fits(Mended(p))
         /\ DOMAIN Mended(p) = DOMAIN p
         /\ \A f \in DOMAIN p \ {"state"} : Mended(p)[f] = p[f]
<1> DEFINE q == Mended(p)
<1>1. CASE p.sort = "animal" /\ p \in AnimalInfos
  <2>1. q \in AnimalInfos /\ q.sort = p.sort /\ q.state = Normal /\ q.left = p.left
    BY <1>1 DEF Mended, AnimalInfos, AnimalStates
  <2> HIDE DEF q
  <2>2. Fits(q) /\ Grows(q) /\ ~ Bearing(q)
    BY <1>1, <2>1 DEF Fits, AnimalFits, Grows, AnimalGrows, Bearing, Normal, Sick, Yield, Hungry,
                      FullyMatured
  <2> QED BY <2>1, <2>2 DEF Infos, q, Mended
<1>2. CASE p.sort = "fruit" /\ p \in FruitInfos
  <2>1. /\ q \in FruitInfos /\ q.sort = p.sort /\ q.state = Normal /\ q.left = p.left
        /\ q.stage = p.stage
    BY <1>2 DEF Mended, FruitInfos, FruitStates
  <2> HIDE DEF q
  <2>2. Grows(q) /\ ~ Bearing(q)
    BY <1>2, <2>1 DEF Grows, FruitGrows, Bearing, Normal, NeedFertilizer, Yield, FullyMatured
  <2>3. Fits(p) /\ ~ Bearing(p) => Fits(q)
    BY <1>2, <2>1 DEF Fits, FruitFits, Bearing, Normal, FullyMatured, IsBuggy
  <2> QED BY <2>1, <2>2, <2>3 DEF Infos, q, Mended
<1>3. CASE p.sort = "beeHouse" /\ p \in BeeHouseInfos
  <2>1. q \in BeeHouseInfos /\ q.sort = p.sort /\ q.state = Normal /\ q.left = p.left
    BY <1>3 DEF Mended, BeeHouseInfos, BeeHouseStates
  <2> HIDE DEF q
  <2>2. Grows(q) /\ ~ Bearing(q)
    BY <1>3, <2>1 DEF Grows, BeeHouseGrows, Bearing, Normal, BeeHouseYield, Yield, FullyMatured
  <2>3. Fits(p) /\ ~ Bearing(p) => Fits(q)
    BY <1>3, <2>1 DEF Fits, BeeHouseFits, Bearing, BeeHouseYield, Yield
  <2> QED BY <2>1, <2>2, <2>3 DEF Infos, q, Mended
<1> QED BY <1>1, <1>2, <1>3, InfoOfSort

\* A theft changes the list of thieves and what is left.
LEMMA StolenLemma ==
  ASSUME NEW p \in Infos, NEW u \in Users, NEW quantity \in Int
  PROVE  LET q == Stolen(p, u, quantity)
         IN  /\ q \in Infos /\ q.sort = p.sort /\ q.state = p.state
             /\ q.left = p.left - quantity
             /\ Fits(p) /\ Bearing(p) => Fits(q)
<1> DEFINE q == Stolen(p, u, quantity)
           thieves == p.thieves \union {u}
           left == p.left - quantity
<1>1. q = [p EXCEPT !.thieves = thieves, !.left = left]
  BY DEF Stolen
<1>2. CASE p.sort = "animal" /\ p \in AnimalInfos
  <2>1. thieves \in SUBSET Users /\ left \in Int
    BY <1>2 DEF AnimalInfos
  <2> HIDE DEF q, thieves, left
  <2>2. /\ q \in AnimalInfos /\ q.sort = p.sort /\ q.state = p.state /\ q.left = left
        /\ q.adult = p.adult /\ q.immunized = p.immunized
    BY <1>1, <1>2, <2>1 DEF AnimalInfos
  <2>3. Fits(p) => Fits(q)
    BY <1>2, <2>2 DEF Fits, AnimalFits
  <2> QED BY <2>2, <2>3 DEF Infos, q, left
<1>3. CASE p.sort = "fruit" /\ p \in FruitInfos
  <2>1. thieves \in SUBSET Users /\ left \in Int
    BY <1>3 DEF FruitInfos
  <2> HIDE DEF q, thieves, left
  <2>2. /\ q \in FruitInfos /\ q.sort = p.sort /\ q.state = p.state /\ q.left = left
        /\ q.stage = p.stage
    BY <1>1, <1>3, <2>1 DEF FruitInfos
  <2>3. Fits(p) /\ Bearing(p) => Fits(q)
    BY <1>3, <2>2 DEF Fits, FruitFits, Bearing, FruitInfos, FruitStates, Yield, FullyMatured,
                      Normal, NeedFertilizer, IsBuggy
  <2> QED BY <2>2, <2>3 DEF Infos, q, left
<1>4. CASE p.sort = "beeHouse" /\ p \in BeeHouseInfos
  <2>1. thieves \in SUBSET Users /\ left \in Int
    BY <1>4 DEF BeeHouseInfos
  <2> HIDE DEF q, thieves, left
  <2>2. q \in BeeHouseInfos /\ q.sort = p.sort /\ q.state = p.state /\ q.left = left
    BY <1>1, <1>4, <2>1 DEF BeeHouseInfos
  <2>3. Fits(p) /\ Bearing(p) => Fits(q)
    BY <1>4, <2>2 DEF Fits, BeeHouseFits, Bearing, BeeHouseInfos, BeeHouseStates, Yield,
                      FullyMatured, Normal, BeeHouseYield
  <2> QED BY <2>2, <2>3 DEF Infos, q, left
<1> QED BY <1>2, <1>3, <1>4, InfoOfSort

\* What is placed new fits and bears nothing.
LEMMA NewLemma ==
  ASSUME NEW farm \in Farms, NEW i \in Items, farm[i] # NoItem
  PROVE  farm[i] \in Infos /\ Fits(farm[i]) /\ ~ Bearing(farm[i])
<1> DEFINE p == farm[i]
<1>1. p \in Infos /\ IsNew(p)
  BY HusbandryAssumption
<1> HIDE DEF p
<1> USE DEF Bearing, Normal, Yield, FullyMatured, Sick, IsBuggy
<1>2. CASE p.sort = "animal"
  BY <1>1, <1>2 DEF IsNew, NewAnimal, Fits, AnimalFits, p
<1>3. CASE p.sort = "fruit"
  BY <1>1, <1>3, FruitAssumption DEF IsNew, NewFruit, Fits, FruitFits, p
<1>4. CASE p.sort = "beeHouse"
  BY <1>1, <1>4 DEF IsNew, NewBeeHouse, Fits, BeeHouseFits, p
<1> QED BY <1>1, <1>2, <1>3, <1>4, InfoOfSort DEF p

-----------------------------------------------------------------------------
(* Type correctness, with any number of workers.  An item keeps its sort,  *)
(* so a stale copy is always one of the same sort as the document it is    *)
(* saved over.                                                             *)

HeldSorts ==
  \A w \in Workers, i \in Items : task[w][i] # NoTask =>
    Placed(i) /\ items[i].sort = task[w][i].mem.sort

TypeInv == TypeOK /\ HeldSorts

LedgerEntries == [borne : Int, taken : Int]

LEMMA LedgerEntryType ==
  ASSUME NEW entry \in LedgerEntries, NEW n \in Int
  PROVE  /\ [entry EXCEPT !.borne = @ + n] \in LedgerEntries
         /\ [entry EXCEPT !.taken = @ + n] \in LedgerEntries
BY DEF LedgerEntries

\* Every action of a player replaces one placed item by one of its sort.
LEMMA PlayerType ==
  ASSUME TypeInv, NEW i \in Items, NEW p \in Infos, SetItem(i, p), Placed(i),
         p.sort = items[i].sort, UNCHANGED <<blossoms, queue, task>>,
         users' \in [Users -> Farmers], supplies' \in [Users -> [Supplies -> Nat]],
         products' \in [Users -> [Products -> Int]], ledger' \in [Items -> LedgerEntries]
  PROVE  TypeInv'
<1>1. items' \in [Items -> Infos \union {NoItem}]
  BY DEF SetItem, TypeInv, TypeOK
<1>2. \A j \in Items : items'[j] = IF j = i THEN p ELSE items[j]
  BY DEF SetItem, TypeInv, TypeOK
<1>3. p # NoItem
  BY HusbandryAssumption
<1>4. HeldSorts'
  BY <1>2, <1>3 DEF TypeInv, HeldSorts, Placed
<1>5. TypeOK'
  BY <1>1 DEF TypeInv, TypeOK, LedgerEntries
<1> QED BY <1>4, <1>5 DEF TypeInv

LEMMA ChargeType ==
  ASSUME TypeOK, NEW u \in Users, NEW activity \in Activities, Charge(u, activity)
  PROVE  users' \in [Users -> Farmers]
<1>1. EnergyConsume[activity] \in Nat /\ ExperiencesGain[activity] \in Nat
  BY HusbandryAssumption
<1>2. Work(users[u], EnergyConsume[activity], ExperiencesGain[activity]) \in Farmers
  BY <1>1, WorkType DEF Charge, TypeOK
<1> QED BY <1>2 DEF Charge, TypeOK

LEMMA StoreType ==
  ASSUME TypeOK, NEW u \in Users, NEW product \in Products, NEW quantity \in Int,
         Store(u, product, quantity)
  PROVE  products' \in [Users -> [Products -> Int]]
<1>1. [products[u] EXCEPT ![product] = @ + quantity] \in [Products -> Int]
  BY DEF TypeOK
<1> QED BY <1>1 DEF Store, TypeOK

LEMMA SpendType ==
  ASSUME TypeOK, NEW v \in Users, NEW supply \in Supplies, Spend(v, supply)
  PROVE  supplies' \in [Users -> [Supplies -> Nat]]
<1>1. [supplies[v] EXCEPT ![supply] = @ - 1] \in [Supplies -> Nat]
  BY DEF Spend, TypeOK
<1> QED BY <1>1 DEF Spend, TypeOK

\* Feeding, fertilizing and curing, whoever pays for it with what.
LEMMA TendType ==
  ASSUME TypeInv, NEW u \in Users, NEW i \in Items, Placed(i), NEW ailment,
         NEW activity \in Activities, Tend(u, i, ailment, activity),
         supplies' \in [Users -> [Supplies -> Nat]]
  PROVE  TypeInv'
<1>1. users' \in [Users -> Farmers]
  BY ChargeType DEF Tend, TypeInv
<1>2. items[i] \in Infos
  BY DEF Placed, TypeInv, TypeOK
<1>3. SetItem(i, Mended(items[i])) /\ UNCHANGED <<products, blossoms, queue, task, ledger>>
  BY DEF Tend, Mended
<1>4. Mended(items[i]) \in Infos /\ Mended(items[i]).sort = items[i].sort
  BY <1>2, MendedLemma
<1>5. products' \in [Users -> [Products -> Int]] /\ ledger' \in [Items -> LedgerEntries]
  BY <1>3 DEF TypeInv, TypeOK, LedgerEntries
<1> QED BY <1>1, <1>3, <1>4, <1>5, PlayerType

LEMMA CureType ==
  ASSUME TypeInv, NEW u \in Users, NEW i \in Items, NEW sort, NEW tool, NEW ailment,
         NEW activity \in Activities, Cure(u, i, sort, tool, ailment, activity)
  PROVE  TypeInv'
<1>1. Placed(i) /\ Tend(u, i, ailment, activity) /\ supplies' \in [Users -> [Supplies -> Nat]]
  BY DEF Cure, IsSort, TypeInv, TypeOK
<1> QED BY <1>1, TendType

\* The harvests of the three sorts.
LEMMA HarvestType ==
  ASSUME TypeInv, NEW u \in Users, NEW i \in Items, NEW activity \in Activities,
         NEW product \in Products, NEW after \in Infos, after.sort = items[i].sort,
         Harvest(u, i, activity, product, after)
  PROVE  TypeInv'
<1>1. Placed(i) /\ items[i] \in Infos
  BY DEF Harvest, Ripe, Placed, TypeInv, TypeOK
<1>2. /\ items[i].left \in Int /\ items[i].species \in Species
      /\ items[i].quality \in BOOLEAN
  BY <1>1, InfoTypes
<1>3. users' \in [Users -> Farmers]
  <2> DEFINE gain == HarvestExperiences[items[i].species][items[i].quality]
  <2>1. EnergyConsume[activity] \in Nat /\ gain \in Nat
    BY <1>2, HusbandryAssumption
  <2>2. users' = [users EXCEPT ![u] = Work(@, EnergyConsume[activity], gain)]
    BY DEF Harvest
  <2> HIDE DEF gain
  <2>3. Work(users[u], EnergyConsume[activity], gain) \in Farmers
    BY <2>1, WorkType DEF Harvest, TypeInv, TypeOK
  <2> QED BY <2>2, <2>3 DEF TypeInv, TypeOK
<1>4. products' \in [Users -> [Products -> Int]]
  BY <1>2, StoreType DEF Harvest, TypeInv
<1>5. ledger' \in [Items -> LedgerEntries]
  <2>1. [ledger[i] EXCEPT !.taken = @ + items[i].left] \in LedgerEntries
    BY <1>2, LedgerEntryType DEF TypeInv, TypeOK, LedgerEntries
  <2> QED BY <2>1 DEF Harvest, TypeInv, TypeOK, LedgerEntries
<1>6. SetItem(i, after) /\ UNCHANGED <<supplies, blossoms, queue, task>>
  BY DEF Harvest
<1>7. supplies' \in [Users -> [Supplies -> Nat]]
  BY <1>6 DEF TypeInv, TypeOK
<1> QED BY <1>1, <1>3, <1>4, <1>5, <1>6, <1>7, PlayerType

\* What each of them leaves standing.
Regrown(p) ==
  IF p.sort = "animal" THEN AnimalHarvested(p)
  ELSE IF p.sort = "fruit" THEN FruitHarvested(p)
  ELSE BeeHouseHarvested(p)

LEMMA RegrownLemma ==
  ASSUME NEW p \in Infos
  PROVE  /\ Regrown(p) \in Infos /\ Regrown(p).sort = p.sort
         /\ Fits(Regrown(p)) /\ ~ Bearing(Regrown(p))
<1> USE DEF Bearing, Hungry, NeedFertilizer, Normal, Yield, FullyMatured
<1> DEFINE q == Regrown(p)
<1>1. CASE p.sort = "animal" /\ p \in AnimalInfos
  <2>1. q \in AnimalInfos /\ q.state = Hungry /\ AnimalFits(q)
    BY <1>1, AnimalHarvestedLemma DEF Regrown
  <2> HIDE DEF q
  <2>2. q.sort = "animal"
    BY <2>1 DEF AnimalInfos
  <2> QED BY <1>1, <2>1, <2>2 DEF Infos, Fits, q
<1>2. CASE p.sort = "fruit" /\ p \in FruitInfos
  <2>1. q \in FruitInfos /\ q.state = NeedFertilizer /\ FruitFits(q)
    BY <1>2, FruitHarvestedLemma DEF Regrown
  <2> HIDE DEF q
  <2>2. q.sort = "fruit"
    BY <2>1 DEF FruitInfos
  <2> QED BY <1>2, <2>1, <2>2 DEF Infos, Fits, q
<1>3. CASE p.sort = "beeHouse" /\ p \in BeeHouseInfos
  <2>1. q \in BeeHouseInfos /\ q.state = Normal /\ BeeHouseFits(q)
    BY <1>3, BeeHouseHarvestedLemma DEF Regrown
  <2> HIDE DEF q
  <2>2. q.sort = "beeHouse"
    BY <2>1 DEF BeeHouseInfos
  <2> QED BY <1>3, <2>1, <2>2 DEF Infos, Fits, q
<1> QED BY <1>1, <1>2, <1>3, InfoOfSort

\* The three handlers as one.
LEMMA HarvestsLemma ==
  ASSUME TypeOK, NEW u \in Users, NEW i \in Items,
         HarvestAnimal(u, i) \/ HarvestFruit(u, i) \/ HarvestBeeHouse(u, i)
  PROVE  /\ Ripe(i) /\ items[i] \in Infos
         /\ \E activity \in Activities, product \in Products :
              Harvest(u, i, activity, product, Regrown(items[i]))
<1>1. Ripe(i)
  BY DEF HarvestAnimal, HarvestFruit, HarvestBeeHouse, Harvest
<1>2. items[i] \in Infos
  BY <1>1 DEF Ripe, Placed, TypeOK
<1>3. items[i].species \in Species /\ items[i].quality \in BOOLEAN
  BY <1>2, InfoTypes
<1>4. /\ <<items[i].species, FALSE>> \in Products
      /\ <<items[i].species, items[i].quality>> \in Products
  BY <1>3 DEF Products
<1>5. CASE HarvestAnimal(u, i)
  BY <1>1, <1>2, <1>4, <1>5 DEF HarvestAnimal, IsSort, Regrown, Activities
<1>6. CASE HarvestFruit(u, i)
  BY <1>1, <1>2, <1>4, <1>6 DEF HarvestFruit, IsSort, Regrown, Activities
<1>7. CASE HarvestBeeHouse(u, i)
  BY <1>1, <1>2, <1>4, <1>7 DEF HarvestBeeHouse, IsSort, Regrown, Activities
<1> QED BY <1>5, <1>6, <1>7

\* What a theft takes is a natural number.
LEMMA HaulLemma ==
  ASSUME NEW q \in Nat, NEW cat \in BOOLEAN
  PROVE  Haul(q, cat) \in Nat
<1> DEFINE a == q + CatPlusQuantity
           b == 100 + CatBonusPercent
           c == a * b
<1>1. a \in Nat /\ b \in Nat
  BY HusbandryAssumption
<1>2. c \in Nat
  <2> HIDE DEF a, b
  <2> QED BY <1>1
<1>3. Haul(q, cat) = IF cat THEN c \div 100 ELSE q
  BY DEF Haul
<1> HIDE DEF c
<1> QED BY <1>2, <1>3

MayThieve(u, i) == MayThieveAnimal(u, i) \/ MayThieveFruit(u, i) \/ MayThieveBeeHouse(u, i)

LEMMA MayThieveLemma ==
  ASSUME TypeOK, NEW u \in Users, NEW i \in Items, MayThieve(u, i)
  PROVE  /\ Ripe(i) /\ items[i] \in Infos /\ items[i].left > items[i].min
         /\ Owner[i] \in Users /\ Owner[i] # u
         /\ \E activity \in {"thiefAnimal", "thiefFruit", "thiefBeeHouse"} :
              CanThieve(u, i, activity)
<1>1. /\ Ripe(i) /\ items[i].left > items[i].min /\ Owner[i] # u
      /\ \E activity \in {"thiefAnimal", "thiefFruit", "thiefBeeHouse"} :
              CanThieve(u, i, activity)
  BY DEF MayThieve, MayThieveAnimal, MayThieveFruit, MayThieveBeeHouse, CanThieve, Neighbor
<1>2. items[i] \in Infos
  BY <1>1 DEF Ripe, Placed, TypeOK
<1>3. Owner[i] \in Users
  BY HusbandryAssumption
<1> QED BY <1>1, <1>2, <1>3

LEMMA BittenType ==
  ASSUME TypeInv, NEW u \in Users, NEW i \in Items, MayThieve(u, i), Bitten(u, i)
  PROVE  TypeInv'
<1>1. Ripe(i) /\ items[i] \in Infos /\ Owner[i] \in Users /\ Owner[i] # u
  BY MayThieveLemma DEF TypeInv
<1>2. SpendEnergy(users[u], DogEnergyReduce) \in Farmers
  BY HusbandryAssumption, SpendEnergyType DEF Bitten, TypeInv, TypeOK
<1>3. AddExperiences(users[Owner[i]], PetExperience) \in Farmers
  BY <1>1, HusbandryAssumption, AddExperiencesType DEF TypeInv, TypeOK
<1>4. users' \in [Users -> Farmers]
  BY <1>1, <1>2, <1>3 DEF Bitten, TypeInv, TypeOK
<1>5. /\ SetItem(i, Stolen(items[i], u, 0))
      /\ UNCHANGED <<supplies, products, blossoms, queue, task, ledger>>
  BY DEF Bitten
<1>6. Stolen(items[i], u, 0) \in Infos /\ Stolen(items[i], u, 0).sort = items[i].sort
  BY <1>1, StolenLemma
<1>7. /\ supplies' \in [Users -> [Supplies -> Nat]]
      /\ products' \in [Users -> [Products -> Int]] /\ ledger' \in [Items -> LedgerEntries]
  BY <1>5 DEF TypeInv, TypeOK, LedgerEntries
<1> QED BY <1>1, <1>4, <1>5, <1>6, <1>7, PlayerType DEF Ripe

\* The cat's experience leaves the energy that was checked.
LEMMA ThiefType ==
  ASSUME NEW f \in Farmers, NEW n \in Nat, NEW e \in Nat, CanSpend(f, n), NEW cat \in BOOLEAN
  PROVE  Work(IF cat THEN AddExperiences(f, PetExperience) ELSE f, n, e) \in Farmers
<1> DEFINE g == IF cat THEN AddExperiences(f, PetExperience) ELSE f
<1>1. PetExperience \in Nat
  BY HusbandryAssumption
<1>2. /\ AddExperiences(f, PetExperience) \in Farmers
      /\ AddExperiences(f, PetExperience).energy = f.energy
  BY <1>1, AddExperiencesType, LevelsOnlyGrow
<1>3. g \in Farmers /\ CanSpend(g, n)
  BY <1>2 DEF CanSpend
<1> HIDE DEF g
<1>4. Work(g, n, e) \in Farmers
  BY <1>3, WorkType
<1> QED BY <1>4 DEF g

LEMMA StealType ==
  ASSUME TypeInv, NEW u \in Users, NEW i \in Items, MayThieve(u, i),
         NEW wanted \in StealQuantities, NEW cat \in BOOLEAN, NEW product \in Products,
         NEW activity \in {"thiefAnimal", "thiefFruit", "thiefBeeHouse"},
         CanThieve(u, i, activity), Steal(u, i, wanted, cat, product, activity)
  PROVE  TypeInv' /\ Haul(Spare(items[i], wanted), cat) \in Nat
<1> DEFINE haul == Haul(Spare(items[i], wanted), cat)
<1>1. Ripe(i) /\ items[i] \in Infos /\ items[i].left > items[i].min
  BY MayThieveLemma DEF TypeInv
<1>2. items[i].left \in Int /\ items[i].min \in Nat
  BY <1>1, InfoTypes
<1>3. haul \in Nat
  <2>1. Spare(items[i], wanted) \in Nat
    BY <1>1, <1>2, HusbandryAssumption DEF Spare
  <2> QED BY <2>1, HaulLemma
<1>4. users' \in [Users -> Farmers]
  <2>1. EnergyConsume[activity] \in Nat /\ ExperiencesGain[activity] \in Nat
    BY HusbandryAssumption DEF Activities
  <2>2. users[u] \in Farmers /\ CanSpend(users[u], EnergyConsume[activity])
    BY DEF CanThieve, TypeInv, TypeOK
  <2>3. Work(IF cat THEN AddExperiences(users[u], PetExperience) ELSE users[u],
             EnergyConsume[activity], ExperiencesGain[activity]) \in Farmers
    BY <2>1, <2>2, ThiefType
  <2> QED BY <2>3 DEF Steal, TypeInv, TypeOK
<1>5. /\ Store(u, product, haul) /\ SetItem(i, Stolen(items[i], u, haul))
      /\ ledger' = [ledger EXCEPT ![i].taken = @ + haul]
      /\ UNCHANGED <<supplies, blossoms, queue, task>>
  BY DEF Steal
<1> HIDE DEF haul
<1>6. products' \in [Users -> [Products -> Int]]
  BY <1>3, <1>5, StoreType DEF TypeInv
<1>7. Stolen(items[i], u, haul) \in Infos /\ Stolen(items[i], u, haul).sort = items[i].sort
  BY <1>1, <1>3, StolenLemma
<1>8. ledger' \in [Items -> LedgerEntries]
  <2>1. [ledger[i] EXCEPT !.taken = @ + haul] \in LedgerEntries
    BY <1>3, LedgerEntryType DEF TypeInv, TypeOK, LedgerEntries
  <2> QED BY <1>5, <2>1 DEF TypeInv, TypeOK, LedgerEntries
<1>9. supplies' \in [Users -> [Supplies -> Nat]]
  BY <1>5 DEF TypeInv, TypeOK
<1>10. TypeInv'
  BY <1>1, <1>4, <1>5, <1>6, <1>7, <1>8, <1>9, PlayerType DEF Ripe
<1> QED BY <1>3, <1>10 DEF haul

\* The thefts of the three sorts as one.
LEMMA StealsLemma ==
  ASSUME TypeOK, NEW u \in Users, NEW i \in Items, NEW wanted \in StealQuantities,
         NEW cat \in BOOLEAN,
         \/ ThiefAnimal(u, i, wanted, cat)
         \/ ThiefFruit(u, i, wanted, cat)
         \/ ThiefBeeHouse(u, i, wanted, cat)
  PROVE  /\ MayThieve(u, i)
         /\ \E activity \in {"thiefAnimal", "thiefFruit", "thiefBeeHouse"}, product \in Products :
              CanThieve(u, i, activity) /\ Steal(u, i, wanted, cat, product, activity)
<1>1. MayThieve(u, i)
  BY DEF ThiefAnimal, ThiefFruit, ThiefBeeHouse, MayThieve
<1>2. items[i].species \in Species /\ items[i].quality \in BOOLEAN
  BY <1>1, MayThieveLemma, InfoTypes
<1>3. /\ <<items[i].species, FALSE>> \in Products
      /\ <<items[i].species, items[i].quality>> \in Products
  BY <1>2 DEF Products
<1>4. CASE ThiefAnimal(u, i, wanted, cat)
  BY <1>1, <1>3, <1>4 DEF ThiefAnimal, MayThieveAnimal
<1>5. CASE ThiefFruit(u, i, wanted, cat)
  BY <1>1, <1>3, <1>5 DEF ThiefFruit, MayThieveFruit
<1>6. CASE ThiefBeeHouse(u, i, wanted, cat)
  BY <1>1, <1>3, <1>6 DEF ThiefBeeHouse, MayThieveBeeHouse
<1> QED BY <1>4, <1>5, <1>6

LEMMA OwnType ==
  ASSUME TypeInv, NEW u \in Users, NEW i \in Items, Own(u, i)
  PROVE  TypeInv'
<1>1. ASSUME NEW v \in Users, UseAnimalFeed(u, i, v) PROVE TypeInv'
  <2>1. supplies' \in [Users -> [Supplies -> Nat]]
    BY <1>1, SpendType DEF UseAnimalFeed, Supplies, TypeInv
  <2> QED BY <1>1, <2>1, TendType DEF UseAnimalFeed, IsSort, Activities
<1>2. ASSUME NEW v \in Users, UseFruitFertilizer(u, i, v) PROVE TypeInv'
  <2>1. supplies' \in [Users -> [Supplies -> Nat]]
    BY <1>2, SpendType DEF UseFruitFertilizer, Supplies, TypeInv
  <2> QED BY <1>2, <2>1, TendType DEF UseFruitFertilizer, IsSort, Activities
<1>3. CASE UseAnimalMedicine(u, i)
  BY <1>3, CureType DEF UseAnimalMedicine, Activities
<1>4. CASE UseBugNet(u, i)
  BY <1>4, CureType DEF UseBugNet, Activities
<1>5. CASE HarvestAnimal(u, i) \/ HarvestBeeHouse(u, i)
  BY <1>5, HarvestsLemma, HarvestType, RegrownLemma DEF TypeInv
<1> QED BY <1>1, <1>2, <1>3, <1>4, <1>5 DEF Own

LEMMA VisitType ==
  ASSUME TypeInv, NEW u \in Users, NEW i \in Items, Visit(u, i)
  PROVE  TypeInv'
<1>1. CASE HelpUseAnimalMedicine(u, i)
  BY <1>1, CureType DEF HelpUseAnimalMedicine, Activities
<1>2. CASE HelpUseBugNet(u, i)
  BY <1>2, CureType DEF HelpUseBugNet, Activities
<1>3. CASE HarvestFruit(u, i)
  BY <1>3, HarvestsLemma, HarvestType, RegrownLemma DEF TypeInv
<1>4. CASE AnimalThiefBitten(u, i) \/ FruitThiefBitten(u, i) \/ BeeHouseThiefBitten(u, i)
  BY <1>4, BittenType DEF AnimalThiefBitten, FruitThiefBitten, BeeHouseThiefBitten, MayThieve
<1>5. ASSUME NEW wanted \in StealQuantities, NEW cat \in BOOLEAN,
             \/ ThiefAnimal(u, i, wanted, cat)
             \/ ThiefFruit(u, i, wanted, cat)
             \/ ThiefBeeHouse(u, i, wanted, cat)
      PROVE  TypeInv'
  BY <1>5, StealsLemma, StealType DEF TypeInv
<1> QED BY <1>1, <1>2, <1>3, <1>4, <1>5 DEF Visit

\* A worker's copy stays a well-formed task when it is aged.
LEMMA OutcomeLemma ==
  ASSUME TypeOK, NEW job \in Tasks, NEW next \in Outcomes(job)
  PROVE  /\ next \in Tasks /\ Ages(job.mem, next.mem)
         /\ next.modified = job.modified \union
              {f \in DOMAIN next.mem \intersect WorkerFields : next.mem[f] # job.mem[f]}
         /\ [next EXCEPT !.tries = next.tries + 1] \in Tasks
<1>1. /\ job.mem \in Infos /\ job.time \in Nat /\ job.tries \in Nat
      /\ job.modified \in SUBSET WorkerFields
  BY DEF Tasks
<1>2. PICK roll \in RollChoices : next = AgedTo(job, Grow(job.mem, job.time, roll))
  BY DEF Outcomes
<1> DEFINE grown == Grow(job.mem, job.time, roll)
           modified == job.modified \union
              {f \in DOMAIN grown \intersect WorkerFields : grown[f] # job.mem[f]}
<1>3. Ages(job.mem, grown)
  BY <1>1, HusbandryAssumption, GrowLemma DEF TypeOK
<1>4. next = [job EXCEPT !.mem = grown, !.modified = modified]
  BY <1>2 DEF AgedTo
<1>5. modified \in SUBSET WorkerFields /\ grown \in Infos
  BY <1>1, <1>3 DEF Ages
<1>6. modified = job.modified \union
              {f \in DOMAIN grown \intersect WorkerFields : grown[f] # job.mem[f]}
  OBVIOUS
<1> HIDE DEF grown, modified
<1>7. next = [mem |-> grown, modified |-> modified, time |-> job.time, tries |-> job.tries]
  BY <1>4 DEF Tasks
<1>8. next \in Tasks /\ next.mem = grown /\ next.modified = modified /\ next.tries = job.tries
  BY <1>1, <1>5, <1>7 DEF Tasks
<1>9. [next EXCEPT !.tries = next.tries + 1] \in Tasks
  BY <1>1, <1>5, <1>7 DEF Tasks
<1> QED BY <1>3, <1>6, <1>8, <1>9

\* Whatever fields of a copy of the same sort are written, the document is one.
Merged(p, q, modified) == [f \in DOMAIN p |-> IF f \in modified THEN q[f] ELSE p[f]]

LEMMA MergedType ==
  ASSUME NEW p \in Infos, NEW q \in Infos, p.sort = q.sort, NEW modified
  PROVE  Merged(p, q, modified) \in Infos /\ Merged(p, q, modified).sort = p.sort
<1> DEFINE r == Merged(p, q, modified)
<1>1. DOMAIN p = FieldsOf(p.sort) /\ "sort" \in DOMAIN p
  BY InfoOfSort, InfoTypes
<1>2. /\ r = [x \in DOMAIN r |-> r[x]] /\ DOMAIN r = FieldsOf(p.sort)
      /\ \A f \in FieldsOf(p.sort) : r[f] = q[f] \/ r[f] = p[f]
  BY <1>1 DEF Merged
<1>3. r.sort = p.sort
  BY <1>1 DEF Merged
<1> HIDE DEF r
<1>4. CASE p.sort = "animal" /\ p \in AnimalInfos
  <2>1. q \in AnimalInfos
    BY <1>4, InfoOfSort
  <2>2. \A f \in AnimalFields : r[f] \in {q[f], p[f]}
    BY <1>2, <1>4 DEF FieldsOf
  <2>3. /\ r.species \in Animals /\ r.accel \in Nat /\ r.bonus \in Nat
        /\ r.growth \in Nat /\ r.hunger \in Nat /\ r.yielding \in Nat
        /\ r.state \in AnimalStates /\ r.thieves \in SUBSET Users /\ r.harvests \in Nat
        /\ r.desired \in Nat /\ r.min \in Nat /\ r.left \in Int
    BY <1>4, <2>1, <2>2 DEF AnimalFields, AnimalInfos
  <2>4. r.adult \in BOOLEAN /\ r.immunized \in BOOLEAN /\ r.quality \in BOOLEAN
    BY <1>4, <2>1, <2>2 DEF AnimalFields, AnimalInfos
  <2>5. DOMAIN r = AnimalFields
    BY <1>2, <1>4 DEF FieldsOf
  <2>6. r \in AnimalInfos
    BY <1>2, <1>3, <1>4, <2>3, <2>4, <2>5, AnimalInfosByField
  <2> QED BY <1>3, <2>6 DEF Infos, r
<1>5. CASE p.sort = "fruit" /\ p \in FruitInfos
  <2>1. q \in FruitInfos
    BY <1>5, InfoOfSort
  <2>2. \A f \in FruitFields : r[f] \in {q[f], p[f]}
    BY <1>2, <1>5 DEF FieldsOf
  <2>3. /\ r.species \in Fruits /\ r.accel \in Nat /\ r.bonus \in Nat
        /\ r.stage \in 0 .. FruitStages - 1 /\ r.elapsed \in Int /\ r.hunger \in Nat
        /\ r.state \in FruitStates /\ r.thieves \in SUBSET Users /\ r.harvests \in Nat
        /\ r.desired \in Nat /\ r.min \in Nat /\ r.left \in Int
    BY <1>5, <2>1, <2>2 DEF FruitFields, FruitInfos
  <2>4. r.quality \in BOOLEAN
    BY <1>5, <2>1, <2>2 DEF FruitFields, FruitInfos
  <2>5. DOMAIN r = FruitFields
    BY <1>2, <1>5 DEF FieldsOf
  <2>6. r \in FruitInfos
    BY <1>2, <1>3, <1>5, <2>3, <2>4, <2>5, FruitInfosByField
  <2> QED BY <1>3, <2>6 DEF Infos, r
<1>6. CASE p.sort = "beeHouse" /\ p \in BeeHouseInfos
  <2>1. q \in BeeHouseInfos
    BY <1>6, InfoOfSort
  <2>2. \A f \in BeeHouseFields : r[f] \in {q[f], p[f]}
    BY <1>2, <1>6 DEF FieldsOf
  <2>3. /\ r.species = BeeHouse /\ r.at \in Int \X Int /\ r.level \in DOMAIN HoneyMultiplier
        /\ r.yielding \in Nat /\ r.state \in BeeHouseStates
        /\ r.thieves \in SUBSET Users /\ r.harvests \in Nat
        /\ r.desired \in Nat /\ r.min \in Nat /\ r.left \in Int
    BY <1>6, <2>1, <2>2 DEF BeeHouseFields, BeeHouseInfos
  <2>4. r.quality \in BOOLEAN
    BY <1>6, <2>1, <2>2 DEF BeeHouseFields, BeeHouseInfos
  <2>5. DOMAIN r = BeeHouseFields
    BY <1>2, <1>6 DEF FieldsOf
  <2>6. r \in BeeHouseInfos
    BY <1>2, <1>3, <1>6, <2>3, <2>4, <2>5, BeeHouseInfosByField
  <2> QED BY <1>3, <2>6 DEF Infos, r
<1> QED BY <1>4, <1>5, <1>6, InfoOfSort

\* What is due can be counted.
LEMMA DueCounted == \A sort : Cardinality(Due(sort)) \in Nat
<1>1. \A sort : IsFiniteSet(Due(sort))
  BY HusbandryAssumption, FS_Subset DEF Due
<1> QED BY <1>1, FS_CardinalityType

LEMMA ScheduleType ==
  ASSUME TypeInv, NEW sort \in Sorts, NEW time \in TickTimes, Schedule(sort, time)
  PROVE  TypeInv'
<1> DEFINE jobs == Batches(Cardinality(Due(sort)), time)
<1>1. jobs \in Seq(Jobs)
  BY DueCounted, BatchesType, HusbandryAssumption
<1>2. queue' = [queue EXCEPT ![sort] = @ \o jobs]
      /\ UNCHANGED <<player, items, blossoms, task, ledger>>
  BY DEF Schedule
<1> HIDE DEF jobs
<1>3. queue[sort] \o jobs \in Seq(Jobs)
  BY <1>1 DEF TypeInv, TypeOK
<1>4. queue' \in [Sorts -> Seq(Jobs)]
  BY <1>2, <1>3 DEF TypeInv, TypeOK
<1> QED BY <1>2, <1>4 DEF TypeInv, TypeOK, HeldSorts, Placed, player

\* What a worker takes in memory: copies of items of its sort that are due.
LEMMA ReadsLemma ==
  ASSUME TypeInv, NEW w \in Workers, NEW sort \in Sorts, NEW order,
         WorkerReads(w, sort, order)
  PROVE  /\ UNCHANGED <<player, items, blossoms, ledger>>
         /\ queue' \in [Sorts -> Seq(Jobs)]
         /\ task' \in [Workers -> [Items -> Tasks \union {NoTask}]]
         /\ \A v \in Workers, i \in Items :
              \/ task'[v][i] = task[v][i]
              \/ /\ task'[v][i].mem = items[i] /\ task'[v][i].modified = {}
                 /\ task'[v][i] # NoTask /\ i \in Due(sort)
<1> DEFINE job == Head(queue[sort])
           batch == Page(Due(sort), order, job)
           copy(i) == [mem |-> items[i], modified |-> {}, time |-> job.time, tries |-> 0]
           held == [i \in Items |-> IF i \in batch THEN copy(i) ELSE task[w][i]]
<1>1. queue[sort] # <<>> /\ queue[sort] \in Seq(Jobs)
  BY DEF WorkerReads, TypeInv, TypeOK
<1>2. job \in Jobs /\ Tail(queue[sort]) \in Seq(Jobs)
  BY <1>1
<1>3. job.time \in Nat
  BY <1>2 DEF Jobs
<1>4. UNCHANGED <<player, items, blossoms, ledger>>
      /\ queue' = [queue EXCEPT ![sort] = Tail(@)] /\ task' = [task EXCEPT ![w] = held]
  BY DEF WorkerReads
<1>5. batch \subseteq Due(sort)
  BY PageIsDue
<1> HIDE DEF job, batch
<1>6. ASSUME NEW i \in Items, i \in batch PROVE copy(i) \in Tasks
  <2>1. items[i] \in Infos
    BY <1>5, <1>6 DEF Due, IsSort, Placed, TypeInv, TypeOK
  <2> QED BY <1>3, <2>1 DEF Tasks
<1>7. \A i \in Items : copy(i).mem = items[i] /\ copy(i).modified = {}
  OBVIOUS
<1> HIDE DEF copy
<1>8. held \in [Items -> Tasks \union {NoTask}]
  BY <1>6 DEF TypeInv, TypeOK
<1>9. ASSUME NEW v \in Workers, NEW i \in Items
      PROVE  task'[v][i] = IF v = w /\ i \in batch THEN copy(i) ELSE task[v][i]
  BY <1>4 DEF TypeInv, TypeOK
<1>10. \A i \in batch : copy(i) # NoTask
  BY <1>5, <1>6, HusbandryAssumption DEF Due
<1> HIDE DEF held
<1>11. task' \in [Workers -> [Items -> Tasks \union {NoTask}]]
  BY <1>4, <1>8 DEF TypeInv, TypeOK
<1>12. queue' \in [Sorts -> Seq(Jobs)]
  BY <1>2, <1>4 DEF TypeInv, TypeOK
<1>13. ASSUME NEW v \in Workers, NEW i \in Items
       PROVE  \/ task'[v][i] = task[v][i]
              \/ /\ task'[v][i].mem = items[i] /\ task'[v][i].modified = {}
                 /\ task'[v][i] # NoTask /\ i \in Due(sort)
  <2>1. CASE v = w /\ i \in batch
    BY <1>5, <1>7, <1>9, <1>10, <2>1
  <2>2. CASE ~ (v = w /\ i \in batch)
    BY <1>9, <2>2
  <2> QED BY <2>1, <2>2
<1> QED BY <1>4, <1>11, <1>12, <1>13

LEMMA ReadsType ==
  ASSUME TypeInv, NEW w \in Workers, NEW sort \in Sorts, NEW order,
         WorkerReads(w, sort, order)
  PROVE  TypeInv'
<1>1. UNCHANGED <<player, items, blossoms, ledger>>
  BY ReadsLemma
<1>2. ASSUME NEW v \in Workers, NEW i \in Items, task'[v][i] # NoTask
      PROVE  Placed(i) /\ items[i].sort = task'[v][i].mem.sort
  <2>1. CASE task'[v][i] = task[v][i]
    BY <1>2, <2>1 DEF TypeInv, HeldSorts
  <2>2. CASE task'[v][i].mem = items[i] /\ i \in Due(sort)
    BY <2>2 DEF Due, IsSort
  <2> QED BY <2>1, <2>2, ReadsLemma
<1>3. HeldSorts'
  BY <1>1, <1>2 DEF HeldSorts, Placed
<1>4. TypeOK'
  BY <1>1, ReadsLemma DEF TypeInv, TypeOK, player
<1> QED BY <1>3, <1>4 DEF TypeInv

LEMMA DropsType ==
  ASSUME TypeInv, NEW w \in Workers, NEW sort \in Sorts, WorkerDropsJob(w, sort)
  PROVE  TypeInv'
<1>1. queue' = [queue EXCEPT ![sort] = Tail(@)]
      /\ UNCHANGED <<player, items, blossoms, task, ledger>>
  BY DEF WorkerDropsJob
<1>2. Tail(queue[sort]) \in Seq(Jobs)
  BY DEF WorkerDropsJob, TypeInv, TypeOK
<1>3. queue' \in [Sorts -> Seq(Jobs)]
  BY <1>1, <1>2 DEF TypeInv, TypeOK
<1> QED BY <1>1, <1>3 DEF TypeInv, TypeOK, HeldSorts, Placed, player

LEMMA SavesType ==
  ASSUME TypeInv, NEW w \in Workers, NEW i \in Items, WorkerSaves(w, i)
  PROVE  TypeInv'
<1>1. PICK job \in Outcomes(task[w][i]) :
        /\ SetItem(i, Persisted(i, job))
        /\ ledger' = [ledger EXCEPT ![i].borne =
                        IF ComesToBear(i, job) THEN @ + job.mem.left ELSE @]
  BY DEF WorkerSaves
<1>2. /\ task' = [task EXCEPT ![w][i] = NoTask] /\ UNCHANGED <<player, blossoms, queue>>
      /\ task[w][i] \in Tasks /\ task[w][i] # NoTask
  BY DEF WorkerSaves, TypeInv, TypeOK
<1>3. job \in Tasks /\ job.mem.sort = task[w][i].mem.sort
  BY <1>1, <1>2, OutcomeLemma DEF TypeInv, Ages
<1>4. /\ Placed(i) /\ items[i] \in Infos /\ job.mem \in Infos
      /\ items[i].sort = job.mem.sort
  BY <1>2, <1>3 DEF TypeInv, TypeOK, HeldSorts, Placed, Tasks
<1> DEFINE p == Persisted(i, job)
<1>5. p \in Infos /\ p.sort = items[i].sort
  <2>1. p = Merged(items[i], job.mem, job.modified)
    BY DEF Persisted, Merged
  <2> QED BY <1>4, <2>1, MergedType
<1>6. job.mem.left \in Int
  BY <1>4, InfoTypes
<1>7. ledger' \in [Items -> LedgerEntries]
  <2>1. CASE ComesToBear(i, job)
    <3>1. [ledger[i] EXCEPT !.borne = @ + job.mem.left] \in LedgerEntries
      BY <1>6, LedgerEntryType DEF TypeInv, TypeOK, LedgerEntries
    <3> QED BY <1>1, <2>1, <3>1 DEF TypeInv, TypeOK, LedgerEntries
  <2>2. CASE ~ ComesToBear(i, job)
    <3>1. [ledger[i] EXCEPT !.borne = @] = ledger[i]
      BY DEF TypeInv, TypeOK
    <3> QED BY <1>1, <2>2, <3>1 DEF TypeInv, TypeOK, LedgerEntries
  <2> QED BY <2>1, <2>2
<1>8. SetItem(i, p)
  BY <1>1
<1> HIDE DEF p
<1>9. /\ items' \in [Items -> Infos \union {NoItem}]
      /\ \A j \in Items : items'[j] = IF j = i THEN p ELSE items[j]
  BY <1>5, <1>8 DEF SetItem, TypeInv, TypeOK
<1>10. /\ task' \in [Workers -> [Items -> Tasks \union {NoTask}]]
       /\ \A v \in Workers, j \in Items : task'[v][j] # NoTask => task'[v][j] = task[v][j]
  BY <1>2 DEF TypeInv, TypeOK
<1>11. HeldSorts'
  <2>1. p # NoItem
    BY <1>5, HusbandryAssumption
  <2> QED BY <1>5, <1>9, <1>10, <2>1 DEF TypeInv, HeldSorts, Placed
<1>12. TypeOK'
  BY <1>2, <1>7, <1>9, <1>10 DEF TypeInv, TypeOK, LedgerEntries, player
<1> QED BY <1>11, <1>12 DEF TypeInv

LEMMA RetriesType ==
  ASSUME TypeInv, NEW w \in Workers, NEW i \in Items, WorkerRetries(w, i)
  PROVE  TypeInv'
<1>1. PICK job \in Outcomes(task[w][i]) :
        task' = [task EXCEPT ![w][i] = [job EXCEPT !.tries = job.tries + 1]]
  BY DEF WorkerRetries
<1>2. /\ UNCHANGED <<player, items, blossoms, queue, ledger>>
      /\ task[w][i] \in Tasks /\ task[w][i] # NoTask
  BY DEF WorkerRetries, TypeInv, TypeOK
<1> DEFINE again == [job EXCEPT !.tries = job.tries + 1]
<1>3. job \in Tasks /\ job.mem.sort = task[w][i].mem.sort /\ again \in Tasks
  BY <1>1, <1>2, OutcomeLemma DEF TypeInv, Ages
<1>4. again.mem = job.mem
  BY <1>3 DEF Tasks
<1>5. task' = [task EXCEPT ![w][i] = again]
  BY <1>1
<1> HIDE DEF again
<1>6. /\ task' \in [Workers -> [Items -> Tasks \union {NoTask}]]
      /\ \A v \in Workers, j \in Items :
           task'[v][j] = IF v = w /\ j = i THEN again ELSE task[v][j]
  BY <1>3, <1>5 DEF TypeInv, TypeOK
<1>7. HeldSorts'
  BY <1>2, <1>3, <1>4, <1>6 DEF TypeInv, HeldSorts, Placed
<1>8. TypeOK'
  BY <1>2, <1>6 DEF TypeInv, TypeOK, player
<1> QED BY <1>7, <1>8 DEF TypeInv

LEMMA FailsType ==
  ASSUME TypeInv, NEW w \in Workers, NEW i \in Items, WorkerFails(w, i)
  PROVE  TypeInv'
<1>1. task' = [task EXCEPT ![w][i] = NoTask] /\ UNCHANGED <<player, items, blossoms, queue, ledger>>
  BY DEF WorkerFails
<1>2. /\ task' \in [Workers -> [Items -> Tasks \union {NoTask}]]
      /\ \A v \in Workers, j \in Items : task'[v][j] # NoTask => task'[v][j] = task[v][j]
  BY <1>1 DEF TypeInv, TypeOK
<1> QED BY <1>1, <1>2 DEF TypeInv, TypeOK, HeldSorts, Placed, player

LEMMA InitType == Init => TypeInv
<1>1. ASSUME Init
      PROVE  /\ queue \in [Sorts -> Seq(Jobs)]
             /\ task \in [Workers -> [Items -> Tasks \union {NoTask}]]
             /\ ledger \in [Items -> [borne : Int, taken : Int]]
  BY <1>1 DEF Init
<1>2. ASSUME Init
      PROVE  /\ users \in [Users -> Farmers] /\ supplies \in [Users -> [Supplies -> Nat]]
             /\ products \in [Users -> [Products -> Int]]
  BY <1>2, HusbandryAssumption DEF Init
<1>3. ASSUME Init
      PROVE  items \in [Items -> Infos \union {NoItem}] /\ blossoms \subseteq Beds
  BY <1>3, HusbandryAssumption DEF Init
<1>4. ASSUME Init
      PROVE  \A w \in Workers, i \in Items : task[w][i] = NoTask
  BY <1>4 DEF Init
<1> QED BY <1>1, <1>2, <1>3, <1>4 DEF TypeInv, TypeOK, HeldSorts

LEMMA NextType == TypeInv /\ [Next]_vars => TypeInv'
<1> SUFFICES ASSUME TypeInv, [Next]_vars PROVE TypeInv'
  OBVIOUS
<1>1. ASSUME NEW u \in Users, NEW i \in Items, Own(u, i) \/ Visit(u, i) PROVE TypeInv'
  BY <1>1, OwnType, VisitType
<1>2. ASSUME NEW bed \in Beds, FlowerBlooms(bed) \/ FlowerHarvested(bed) PROVE TypeInv'
  BY <1>2 DEF FlowerBlooms, FlowerHarvested, TypeInv, TypeOK, HeldSorts, Placed, player
<1>3. ASSUME NEW time \in TickTimes,
             ScheduleAnimals(time) \/ ScheduleFruits(time) \/ ScheduleBeeHouses(time)
      PROVE  TypeInv'
  BY <1>3, ScheduleType DEF ScheduleAnimals, ScheduleFruits, ScheduleBeeHouses, Sorts
<1>4. ASSUME NEW w \in Workers, ReadAnimals(w) \/ ReadFruits(w) \/ ReadBeeHouses(w)
      PROVE  TypeInv'
  BY <1>4, ReadsType DEF ReadAnimals, ReadFruits, ReadBeeHouses, Sorts
<1>5. ASSUME NEW w \in Workers, NEW s \in Sorts, WorkerDropsJob(w, s) PROVE TypeInv'
  BY <1>5, DropsType
<1>6. ASSUME NEW w \in Workers, NEW i \in Items, WorkOn(w, i) PROVE TypeInv'
  BY <1>6, SavesType, RetriesType, FailsType DEF WorkOn
<1>7. CASE UNCHANGED vars
  BY <1>7 DEF vars, player, TypeInv, TypeOK, HeldSorts, Placed
<1> QED BY <1>1, <1>2, <1>3, <1>4, <1>5, <1>6, <1>7 DEF Next

LEMMA TypeInvariant == Spec => []TypeInv
BY InitType, NextType, PTL DEF Spec

\* Every document stays well formed, however many workers run and whatever they
\* overwrite: no handler spends energy, feed or fertilizer it has not checked, and no
\* merge of a stale copy with a document leaves something that is neither.
THEOREM TypeCorrect == Spec => []TypeOK
<1>1. TypeInv => TypeOK
  BY DEF TypeInv
<1> QED BY <1>1, TypeInvariant, PTL

-----------------------------------------------------------------------------
(* Safety with one worker of each sort, as the project deploys it.  A save *)
(* is harmless because an item that is held keeps growing, and because no  *)
(* handler but a cure changes an item that grows: what the worker did not  *)
(* modify the database still holds, but for an ailment since cured.        *)

SingleWorker == \A v, w \in Workers : v = w

\* The copy a worker holds of item i against the document in the database.
Fresh(i, job) ==
  /\ Placed(i) /\ Grows(items[i]) /\ items[i].sort = job.mem.sort
  /\ Fits(job.mem)
  /\ Bearing(job.mem) => "state" \in job.modified
  /\ "state" \notin job.modified => items[i].state \in {job.mem.state, Normal}
  /\ \A f \in DOMAIN job.mem \ {"state"} :
       f \notin job.modified => job.mem[f] = items[i][f]

ItemsFit == \A i \in Items : Placed(i) => Fits(items[i])

CopiesFresh == \A w \in Workers, i \in Items : task[w][i] # NoTask => Fresh(i, task[w][i])

Inductive == TypeInv /\ ItemsFit /\ YieldLedger /\ CopiesFresh

Balance(entry) == entry.borne - entry.taken

\* What may be taken of an item.
Offer(p) == IF Bearing(p) THEN p.left ELSE 0

\* p takes the place of q in the database under the feet of a worker.
Undisturbed(q, p) ==
  /\ Grows(p) /\ p.state = Normal /\ DOMAIN p = DOMAIN q
  /\ \A f \in DOMAIN q \ {"state"} : p[f] = q[f]

LEMMA PlacedInfo ==
  ASSUME TypeInv, NEW i \in Items, Placed(i)
  PROVE  items[i] \in Infos
BY DEF TypeInv, TypeOK, Placed

LEMMA OfferLemma ==
  ASSUME Inductive, NEW i \in Items, Placed(i)
  PROVE  Balance(ledger[i]) = Offer(items[i])
BY DEF Inductive, YieldLedger, Balance, Offer, Ripe

\* Every action of a player replaces one item and at most one ledger entry.
LEMMA PlayerStep ==
  ASSUME Inductive, TypeInv', UNCHANGED task,
         NEW i \in Items, Placed(i), NEW p \in Infos, SetItem(i, p), Fits(p),
         p.sort = items[i].sort,
         Grows(items[i]) => Undisturbed(items[i], p),
         \A j \in Items : j # i => ledger'[j] = ledger[j],
         Balance(ledger'[i]) = Offer(p)
  PROVE  Inductive'
<1>1. items'[i] = p /\ \A j \in Items : j # i => items'[j] = items[j]
  BY DEF SetItem, Inductive, TypeInv, TypeOK
<1>2. p # NoItem
  BY HusbandryAssumption
<1>3. ItemsFit'
  BY <1>1 DEF Inductive, ItemsFit, Placed
<1>4. YieldLedger'
  <2>1. ASSUME NEW j \in Items
        PROVE  ledger'[j].borne - ledger'[j].taken
                 = IF items'[j] # NoItem /\ Bearing(items'[j]) THEN items'[j].left ELSE 0
    <3>1. CASE j = i
      BY <1>1, <1>2, <3>1 DEF Balance, Offer
    <3>2. CASE j # i
      BY <1>1, <3>2 DEF Inductive, YieldLedger, Ripe, Placed
    <3> QED BY <3>1, <3>2
  <2> QED BY <2>1 DEF YieldLedger, Ripe, Placed
<1>5. ASSUME NEW w \in Workers, NEW j \in Items, task[w][j] # NoTask
      PROVE  Fresh(j, task[w][j])'
  <2>1. Fresh(j, task[w][j]) /\ task' = task
    BY <1>5 DEF Inductive, CopiesFresh
  <2>2. CASE j = i
    <3>1. Undisturbed(items[i], p)
      BY <2>1, <2>2 DEF Fresh
    <3>2. task[w][j].mem \in Infos /\ items[i] \in Infos
      BY <1>5, PlacedInfo DEF Inductive, TypeInv, TypeOK, Tasks
    <3>3. DOMAIN task[w][j].mem = DOMAIN items[i]
      BY <2>1, <2>2, <3>2, InfoOfSort DEF Fresh
    <3>4. items'[j] = p /\ items'[j] # NoItem
      BY <1>1, <1>2, <2>2
    <3> QED BY <2>1, <2>2, <3>1, <3>3, <3>4 DEF Fresh, Undisturbed, Placed
  <2>3. CASE j # i
    BY <1>1, <2>1, <2>3 DEF Fresh, Placed
  <2> QED BY <2>2, <2>3
<1>6. CopiesFresh'
  BY <1>5 DEF CopiesFresh
<1> QED BY <1>3, <1>4, <1>6 DEF Inductive

LEMMA TendSafe ==
  ASSUME Inductive, TypeInv', NEW u \in Users, NEW i \in Items, Placed(i), NEW ailment,
         ailment \notin {Yield, FullyMatured}, NEW activity, Tend(u, i, ailment, activity)
  PROVE  Inductive'
<1> DEFINE p == Mended(items[i])
<1>1. items[i] \in Infos /\ Fits(items[i]) /\ ~ Bearing(items[i])
  BY PlacedInfo DEF Inductive, ItemsFit, Tend, Bearing
<1>2. /\ p \in Infos /\ p.sort = items[i].sort /\ p.state = Normal /\ Grows(p) /\ ~ Bearing(p)
      /\ Fits(p) /\ DOMAIN p = DOMAIN items[i]
      /\ \A f \in DOMAIN items[i] \ {"state"} : p[f] = items[i][f]
  BY <1>1, MendedLemma
<1>3. SetItem(i, p) /\ UNCHANGED <<task, ledger>>
  BY DEF Tend, Mended
<1> HIDE DEF p
<1>4. Undisturbed(items[i], p)
  BY <1>2 DEF Undisturbed
<1>5. Balance(ledger'[i]) = Offer(p)
  BY <1>1, <1>2, <1>3, OfferLemma DEF Offer
<1> QED BY <1>2, <1>3, <1>4, <1>5, PlayerStep

LEMMA CureSafe ==
  ASSUME Inductive, TypeInv', NEW u \in Users, NEW i \in Items, NEW sort, NEW tool, NEW ailment,
         ailment \notin {Yield, FullyMatured}, NEW activity,
         Cure(u, i, sort, tool, ailment, activity)
  PROVE  Inductive'
<1>1. Placed(i) /\ Tend(u, i, ailment, activity)
  BY DEF Cure, IsSort
<1> QED BY <1>1, TendSafe

LEMMA Taken ==
  ASSUME TypeInv, NEW i \in Items, NEW n \in Int,
         ledger' = [ledger EXCEPT ![i].taken = @ + n]
  PROVE  /\ \A j \in Items : j # i => ledger'[j] = ledger[j]
         /\ Balance(ledger'[i]) = Balance(ledger[i]) - n
<1>1. ledger[i] \in LedgerEntries /\ ledger \in [Items -> LedgerEntries]
  BY DEF TypeInv, TypeOK, LedgerEntries
<1>2. ledger'[i] = [ledger[i] EXCEPT !.taken = @ + n]
  BY <1>1
<1>3. Balance(ledger'[i]) = Balance(ledger[i]) - n
  BY <1>1, <1>2 DEF Balance, LedgerEntries
<1> QED BY <1>1, <1>3

\* What bears does not grow: no worker holds it.
LEMMA RipeLemma ==
  ASSUME Inductive, NEW i \in Items, Ripe(i)
  PROVE  /\ Placed(i) /\ items[i] \in Infos /\ Fits(items[i]) /\ ~ Grows(items[i])
         /\ items[i].left \in Int /\ Balance(ledger[i]) = items[i].left
<1>1. Placed(i) /\ Bearing(items[i]) /\ items[i] \in Infos /\ Fits(items[i])
  BY PlacedInfo DEF Ripe, Inductive, ItemsFit
<1>2. ~ Grows(items[i]) /\ items[i].left \in Int
  BY <1>1, GrowingBearsNothing, InfoTypes
<1>3. Balance(ledger[i]) = items[i].left
  BY <1>1, OfferLemma DEF Offer
<1> QED BY <1>1, <1>2, <1>3

LEMMA HarvestSafe ==
  ASSUME Inductive, TypeInv', NEW u \in Users, NEW i \in Items,
         HarvestAnimal(u, i) \/ HarvestFruit(u, i) \/ HarvestBeeHouse(u, i)
  PROVE  Inductive'
<1> DEFINE p == Regrown(items[i])
<1>1. /\ Ripe(i) /\ SetItem(i, p) /\ UNCHANGED task
      /\ ledger' = [ledger EXCEPT ![i].taken = @ + items[i].left]
  BY HarvestsLemma DEF Harvest, Inductive, TypeInv
<1>2. /\ Placed(i) /\ items[i] \in Infos /\ ~ Grows(items[i])
      /\ items[i].left \in Int /\ Balance(ledger[i]) = items[i].left
  BY <1>1, RipeLemma
<1>3. p \in Infos /\ p.sort = items[i].sort /\ Fits(p) /\ ~ Bearing(p)
  BY <1>2, RegrownLemma
<1> HIDE DEF p
<1>4. /\ \A j \in Items : j # i => ledger'[j] = ledger[j]
      /\ Balance(ledger'[i]) = Balance(ledger[i]) - items[i].left
  BY <1>1, <1>2, Taken DEF Inductive
<1>5. Balance(ledger'[i]) = Offer(p)
  BY <1>2, <1>3, <1>4 DEF Offer
<1> QED BY <1>1, <1>2, <1>3, <1>4, <1>5, PlayerStep

LEMMA BittenSafe ==
  ASSUME Inductive, TypeInv', NEW u \in Users, NEW i \in Items, MayThieve(u, i), Bitten(u, i)
  PROVE  Inductive'
<1> DEFINE p == Stolen(items[i], u, 0)
<1>1. Ripe(i) /\ SetItem(i, p) /\ UNCHANGED <<task, ledger>>
  BY MayThieveLemma DEF Bitten, Inductive, TypeInv
<1>2. /\ Placed(i) /\ items[i] \in Infos /\ ~ Grows(items[i]) /\ Fits(items[i])
      /\ items[i].left \in Int /\ Balance(ledger[i]) = items[i].left /\ Bearing(items[i])
  BY <1>1, RipeLemma DEF Ripe
<1>3. /\ p \in Infos /\ p.sort = items[i].sort /\ p.state = items[i].state
      /\ p.left = items[i].left - 0 /\ Fits(p)
  BY <1>2, StolenLemma
<1> HIDE DEF p
<1>4. Balance(ledger'[i]) = Offer(p)
  BY <1>1, <1>2, <1>3 DEF Offer, Bearing
<1> QED BY <1>1, <1>2, <1>3, <1>4, PlayerStep

LEMMA StealSafe ==
  ASSUME Inductive, TypeInv', NEW u \in Users, NEW i \in Items,
         NEW wanted \in StealQuantities, NEW cat \in BOOLEAN,
         \/ ThiefAnimal(u, i, wanted, cat)
         \/ ThiefFruit(u, i, wanted, cat)
         \/ ThiefBeeHouse(u, i, wanted, cat)
  PROVE  Inductive'
<1> DEFINE haul == Haul(Spare(items[i], wanted), cat)
           p == Stolen(items[i], u, haul)
<1>1. MayThieve(u, i) /\ haul \in Nat
  BY StealsLemma, StealType DEF Inductive, TypeInv
<1>2. /\ Ripe(i) /\ SetItem(i, p) /\ UNCHANGED task
      /\ ledger' = [ledger EXCEPT ![i].taken = @ + haul]
  BY <1>1, StealsLemma, MayThieveLemma DEF Steal, Inductive, TypeInv
<1> HIDE DEF haul
<1>3. /\ Placed(i) /\ items[i] \in Infos /\ ~ Grows(items[i]) /\ Fits(items[i])
      /\ items[i].left \in Int /\ Balance(ledger[i]) = items[i].left /\ Bearing(items[i])
  BY <1>2, RipeLemma DEF Ripe
<1>4. /\ p \in Infos /\ p.sort = items[i].sort /\ p.state = items[i].state
      /\ p.left = items[i].left - haul /\ Fits(p)
  BY <1>1, <1>3, StolenLemma
<1> HIDE DEF p
<1>5. /\ \A j \in Items : j # i => ledger'[j] = ledger[j]
      /\ Balance(ledger'[i]) = Balance(ledger[i]) - haul
  <2>1. haul \in Int
    BY <1>1
  <2> QED BY <1>2, <2>1, Taken DEF Inductive
<1>6. Balance(ledger'[i]) = Offer(p)
  BY <1>3, <1>4, <1>5 DEF Offer, Bearing
<1> QED BY <1>2, <1>3, <1>4, <1>5, <1>6, PlayerStep

LEMMA OwnSafe ==
  ASSUME Inductive, TypeInv', NEW u \in Users, NEW i \in Items, Own(u, i)
  PROVE  Inductive'
<1> USE DEF Hungry, NeedFertilizer, Sick, IsBuggy, Yield, FullyMatured
<1>1. ASSUME NEW v \in Users, UseAnimalFeed(u, i, v) PROVE Inductive'
  BY <1>1, TendSafe DEF UseAnimalFeed, IsSort
<1>2. ASSUME NEW v \in Users, UseFruitFertilizer(u, i, v) PROVE Inductive'
  BY <1>2, TendSafe DEF UseFruitFertilizer, IsSort
<1>3. CASE UseAnimalMedicine(u, i)
  BY <1>3, CureSafe DEF UseAnimalMedicine
<1>4. CASE UseBugNet(u, i)
  BY <1>4, CureSafe DEF UseBugNet
<1>5. CASE HarvestAnimal(u, i) \/ HarvestBeeHouse(u, i)
  BY <1>5, HarvestSafe
<1> QED BY <1>1, <1>2, <1>3, <1>4, <1>5 DEF Own

LEMMA VisitSafe ==
  ASSUME Inductive, TypeInv', NEW u \in Users, NEW i \in Items, Visit(u, i)
  PROVE  Inductive'
<1>1. CASE HelpUseAnimalMedicine(u, i)
  BY <1>1, CureSafe DEF HelpUseAnimalMedicine, Sick, Yield, FullyMatured
<1>2. CASE HelpUseBugNet(u, i)
  BY <1>2, CureSafe DEF HelpUseBugNet, IsBuggy, Yield, FullyMatured
<1>3. CASE HarvestFruit(u, i)
  BY <1>3, HarvestSafe
<1>4. CASE AnimalThiefBitten(u, i) \/ FruitThiefBitten(u, i) \/ BeeHouseThiefBitten(u, i)
  BY <1>4, BittenSafe DEF AnimalThiefBitten, FruitThiefBitten, BeeHouseThiefBitten, MayThieve
<1>5. ASSUME NEW wanted \in StealQuantities, NEW cat \in BOOLEAN,
             \/ ThiefAnimal(u, i, wanted, cat)
             \/ ThiefFruit(u, i, wanted, cat)
             \/ ThiefBeeHouse(u, i, wanted, cat)
      PROVE  Inductive'
  BY <1>5, StealSafe
<1> QED BY <1>1, <1>2, <1>3, <1>4, <1>5 DEF Visit

\* Aging a copy keeps it fresh: it only changes fields it marks as modified.
LEMMA AgedFresh ==
  ASSUME TypeInv, NEW i \in Items, NEW job \in Tasks, NEW next \in Outcomes(job), Fresh(i, job)
  PROVE  Fresh(i, next)
<1>1. /\ Ages(job.mem, next.mem) /\ job.mem \in Infos
      /\ next.modified = job.modified \union
           {f \in DOMAIN next.mem \intersect WorkerFields : next.mem[f] # job.mem[f]}
  BY OutcomeLemma DEF TypeInv, Tasks
<1>2. /\ DOMAIN next.mem = DOMAIN job.mem /\ next.mem.sort = job.mem.sort /\ Fits(next.mem)
      /\ \A f \in DOMAIN job.mem \ WorkerFields : next.mem[f] = job.mem[f]
  BY <1>1 DEF Ages, Fresh
<1>3. ASSUME NEW f \in DOMAIN job.mem, f \notin next.modified
      PROVE  f \notin job.modified /\ next.mem[f] = job.mem[f]
  BY <1>1, <1>2, <1>3
<1>4. "state" \notin next.modified => "state" \notin job.modified /\ next.mem.state = job.mem.state
  BY <1>1, <1>3, InfoTypes
<1>5. Bearing(next.mem) => "state" \in next.modified
  BY <1>4 DEF Fresh, Bearing
<1>6. "state" \notin next.modified => items[i].state \in {next.mem.state, Normal}
  BY <1>4 DEF Fresh
<1>7. \A f \in DOMAIN next.mem \ {"state"} : f \notin next.modified => next.mem[f] = items[i][f]
  BY <1>2, <1>3 DEF Fresh
<1>8. Placed(i) /\ Grows(items[i]) /\ items[i].sort = next.mem.sort
  BY <1>2 DEF Fresh
<1> QED BY <1>2, <1>5, <1>6, <1>7, <1>8 DEF Fresh

\* A fresh copy saved over an item that grows leaves the item the copy was aged to, or
\* that item cured.
LEMMA SaveLemma ==
  ASSUME TypeInv, NEW i \in Items, NEW job \in Tasks, Fresh(i, job)
  PROVE  LET r == Persisted(i, job)
         IN  /\ r \in Infos /\ r.sort = items[i].sort /\ Fits(r)
             /\ r.left = job.mem.left /\ (Bearing(r) <=> Bearing(job.mem))
<1> DEFINE p == items[i]
           q == job.mem
           r == Persisted(i, job)
<1>1. p \in Infos /\ q \in Infos /\ p.sort = q.sort /\ Fits(q)
  BY PlacedInfo DEF Fresh, Tasks
<1>2. /\ DOMAIN p = DOMAIN q /\ q = [x \in DOMAIN q |-> q[x]]
      /\ "state" \in DOMAIN q /\ "left" \in DOMAIN q /\ "sort" \in DOMAIN q
  BY <1>1, InfoOfSort, InfoTypes
<1>3. r = [f \in DOMAIN q |-> IF f \in job.modified THEN q[f] ELSE p[f]]
  BY <1>2 DEF Persisted
<1>4. /\ \A f \in DOMAIN q \ {"state"} : f \notin job.modified => q[f] = p[f]
      /\ Bearing(q) => "state" \in job.modified
      /\ "state" \notin job.modified => p.state \in {q.state, Normal}
  BY DEF Fresh
<1> HIDE DEF p, q, r
<1>5. r = [x \in DOMAIN q |-> r[x]] /\ DOMAIN r = DOMAIN q
  BY <1>3
<1>6. \A f \in DOMAIN q \ {"state"} : r[f] = q[f]
  BY <1>3, <1>4
<1>7. CASE r.state = q.state
  <2>1. \A f \in DOMAIN q : r[f] = q[f]
    BY <1>6, <1>7
  <2>2. r = q
    BY <1>2, <1>5, <2>1
  <2> QED BY <1>1, <2>2 DEF p, q, r
<1>8. CASE r.state # q.state
  <2>1. "state" \notin job.modified /\ r.state = p.state
    BY <1>2, <1>3, <1>8
  <2>2. r.state = Normal /\ ~ Bearing(q)
    BY <1>4, <1>8, <2>1
  <2>3. r = Mended(q)
    <3>1. \A f \in DOMAIN q : Mended(q)[f] = r[f]
      BY <1>2, <1>6, <2>2 DEF Mended
    <3>2. Mended(q) = [x \in DOMAIN q |-> Mended(q)[x]]
      BY DEF Mended
    <3> QED BY <1>5, <3>1, <3>2
  <2>4. /\ r \in Infos /\ r.sort = q.sort /\ r.left = q.left /\ ~ Bearing(r) /\ Fits(r)
    BY <1>1, <2>2, <2>3, MendedLemma
  <2> QED BY <1>1, <2>2, <2>4 DEF p, q, r
<1> QED BY <1>7, <1>8

\* With one worker a copy of any item belongs to the worker that takes the step.
LEMMA SavesSafe ==
  ASSUME Inductive, SingleWorker, TypeInv', NEW w \in Workers, NEW i \in Items,
         WorkerSaves(w, i)
  PROVE  Inductive'
<1>1. PICK job \in Outcomes(task[w][i]) :
        /\ SetItem(i, Persisted(i, job))
        /\ ledger' = [ledger EXCEPT ![i].borne =
                        IF ComesToBear(i, job) THEN @ + job.mem.left ELSE @]
  BY DEF WorkerSaves
<1>2. /\ task' = [task EXCEPT ![w][i] = NoTask]
      /\ task[w][i] \in Tasks /\ task[w][i] # NoTask
  BY DEF WorkerSaves, Inductive, TypeInv, TypeOK
<1>3. job \in Tasks /\ Fresh(i, job)
  BY <1>1, <1>2, OutcomeLemma, AgedFresh DEF Inductive, TypeInv, CopiesFresh
<1> DEFINE p == Persisted(i, job)
<1>4. /\ p \in Infos /\ p.sort = items[i].sort /\ Fits(p)
      /\ p.left = job.mem.left /\ (Bearing(p) <=> Bearing(job.mem))
  BY <1>3, SaveLemma DEF Inductive
<1>5. SetItem(i, p)
  BY <1>1
<1> HIDE DEF p
<1>6. p # NoItem /\ p.left \in Int
  BY <1>4, InfoTypes, HusbandryAssumption
<1>7. /\ items'[i] = p
      /\ \A j \in Items : j # i => items'[j] = items[j]
  BY <1>5 DEF SetItem, Inductive, TypeInv, TypeOK
<1>8. ItemsFit'
  BY <1>4, <1>7 DEF Inductive, ItemsFit, Placed
<1>9. /\ \A j \in Items : j # i => ledger'[j] = ledger[j]
      /\ Balance(ledger'[i]) = Offer(p)
  <2>1. ledger[i] \in LedgerEntries /\ ledger \in [Items -> LedgerEntries]
    BY DEF Inductive, TypeInv, TypeOK, LedgerEntries
  <2>2. \A j \in Items : j # i => ledger'[j] = ledger[j]
    BY <1>1, <2>1
  <2>3. Placed(i) /\ items[i] \in Infos /\ ~ Bearing(items[i])
    BY <1>3, PlacedInfo, GrowingBearsNothing DEF Fresh, Inductive
  <2>4. Balance(ledger[i]) = 0 /\ ~ Ripe(i)
    BY <2>3, OfferLemma DEF Offer, Ripe
  <2>5. ComesToBear(i, job) <=> Bearing(p)
    BY <1>4, <2>4 DEF ComesToBear
  <2>6. CASE Bearing(p)
    <3>1. ledger'[i] = [ledger[i] EXCEPT !.borne = @ + p.left]
      BY <1>1, <1>4, <2>1, <2>5, <2>6
    <3>2. Balance(ledger'[i]) = Balance(ledger[i]) + p.left
      BY <1>6, <2>1, <3>1 DEF Balance, LedgerEntries
    <3> QED BY <1>6, <2>2, <2>4, <2>6, <3>2 DEF Offer
  <2>7. CASE ~ Bearing(p)
    <3>1. ledger'[i] = [ledger[i] EXCEPT !.borne = @]
      BY <1>1, <2>1, <2>5, <2>7
    <3>2. ledger'[i] = ledger[i]
      BY <2>1, <3>1 DEF LedgerEntries
    <3> QED BY <2>2, <2>4, <2>7, <3>2 DEF Offer
  <2> QED BY <2>6, <2>7
<1>10. YieldLedger'
  <2>1. ASSUME NEW j \in Items
        PROVE  ledger'[j].borne - ledger'[j].taken
                 = IF items'[j] # NoItem /\ Bearing(items'[j]) THEN items'[j].left ELSE 0
    <3>1. CASE j = i
      BY <1>6, <1>7, <1>9, <3>1 DEF Balance, Offer
    <3>2. CASE j # i
      BY <1>7, <1>9, <3>2 DEF Inductive, YieldLedger, Ripe, Placed
    <3> QED BY <3>1, <3>2
  <2> QED BY <2>1 DEF YieldLedger, Ripe, Placed
<1>11. ASSUME NEW v \in Workers, NEW j \in Items, task'[v][j] # NoTask
       PROVE  Fresh(j, task[v][j])'
  <2>1. v = w
    BY DEF SingleWorker
  <2>2. j # i /\ task'[v][j] = task[v][j]
    BY <1>2, <1>11, <2>1 DEF Inductive, TypeInv, TypeOK
  <2>3. Fresh(j, task[v][j])
    BY <1>11, <2>2 DEF Inductive, CopiesFresh
  <2>4. items'[j] = items[j]
    BY <1>7, <2>2
  <2> QED BY <2>2, <2>3, <2>4 DEF Fresh, Placed
<1>12. CopiesFresh'
  BY <1>11 DEF CopiesFresh
<1> QED BY <1>8, <1>10, <1>12 DEF Inductive

\* Steps that leave the items and the ledger alone.
LEMMA QuietStep ==
  ASSUME Inductive, TypeInv', UNCHANGED <<items, ledger>>,
         \A v \in Workers, j \in Items : task'[v][j] # NoTask => Fresh(j, task'[v][j])
  PROVE  Inductive'
<1>1. ItemsFit' /\ YieldLedger'
  BY DEF Inductive, ItemsFit, YieldLedger, Ripe, Placed
<1>2. CopiesFresh'
  BY DEF CopiesFresh, Fresh, Placed
<1> QED BY <1>1, <1>2 DEF Inductive

LEMMA RetriesSafe ==
  ASSUME Inductive, TypeInv', NEW w \in Workers, NEW i \in Items, WorkerRetries(w, i)
  PROVE  Inductive'
<1>1. PICK job \in Outcomes(task[w][i]) :
        task' = [task EXCEPT ![w][i] = [job EXCEPT !.tries = job.tries + 1]]
  BY DEF WorkerRetries
<1>2. UNCHANGED <<items, ledger>> /\ task[w][i] \in Tasks /\ task[w][i] # NoTask
  BY DEF WorkerRetries, Inductive, TypeInv, TypeOK
<1>3. job \in Tasks /\ Fresh(i, job)
  BY <1>1, <1>2, OutcomeLemma, AgedFresh DEF Inductive, TypeInv, CopiesFresh
<1> DEFINE again == [job EXCEPT !.tries = job.tries + 1]
<1>4. again.mem = job.mem /\ again.modified = job.modified
  BY <1>3 DEF Tasks
<1>5. task' = [task EXCEPT ![w][i] = again]
  BY <1>1
<1> HIDE DEF again
<1>6. Fresh(i, again)
  BY <1>3, <1>4 DEF Fresh
<1>7. ASSUME NEW v \in Workers, NEW j \in Items, task'[v][j] # NoTask
      PROVE  Fresh(j, task'[v][j])
  <2>1. task'[v][j] = (IF v = w /\ j = i THEN again ELSE task[v][j])
    BY <1>5 DEF Inductive, TypeInv, TypeOK
  <2> QED BY <1>6, <1>7, <2>1 DEF Inductive, CopiesFresh
<1> QED BY <1>2, <1>7, QuietStep

LEMMA FailsSafe ==
  ASSUME Inductive, TypeInv', NEW w \in Workers, NEW i \in Items, WorkerFails(w, i)
  PROVE  Inductive'
<1>1. task' = [task EXCEPT ![w][i] = NoTask] /\ UNCHANGED <<items, ledger>>
  BY DEF WorkerFails
<1>2. ASSUME NEW v \in Workers, NEW j \in Items, task'[v][j] # NoTask
      PROVE  Fresh(j, task'[v][j])
  <2>1. task'[v][j] = task[v][j]
    BY <1>1, <1>2 DEF Inductive, TypeInv, TypeOK
  <2> QED BY <1>2, <2>1 DEF Inductive, CopiesFresh
<1> QED BY <1>1, <1>2, QuietStep

\* The batch a worker reads holds items that grow only.
LEMMA ReadsSafe ==
  ASSUME Inductive, TypeInv', NEW w \in Workers, NEW sort \in Sorts, NEW order,
         WorkerReads(w, sort, order)
  PROVE  Inductive'
<1>1. UNCHANGED <<items, ledger>>
  BY ReadsLemma DEF Inductive
<1>2. ASSUME NEW v \in Workers, NEW i \in Items, task'[v][i] # NoTask
      PROVE  Fresh(i, task'[v][i])
  <2>1. CASE task'[v][i] = task[v][i]
    BY <1>2, <2>1 DEF Inductive, CopiesFresh
  <2>2. CASE task'[v][i].mem = items[i] /\ task'[v][i].modified = {} /\ i \in Due(sort)
    <3>1. Placed(i) /\ Grows(items[i]) /\ items[i] \in Infos /\ Fits(items[i])
      BY <2>2, PlacedInfo DEF Due, IsSort, Inductive, ItemsFit
    <3>2. ~ Bearing(items[i])
      BY <3>1, GrowingBearsNothing
    <3> QED BY <2>2, <3>1, <3>2 DEF Fresh
  <2> QED BY <2>1, <2>2, ReadsLemma DEF Inductive
<1> QED BY <1>1, <1>2, QuietStep

LEMMA InductiveStep ==
  ASSUME Inductive, SingleWorker, TypeInv', [Next]_vars
  PROVE  Inductive'
<1>1. ASSUME UNCHANGED <<items, ledger, task>> PROVE Inductive'
  BY <1>1, QuietStep DEF Inductive, CopiesFresh
<1>2. ASSUME NEW u \in Users, NEW i \in Items, Own(u, i) \/ Visit(u, i) PROVE Inductive'
  BY <1>2, OwnSafe, VisitSafe
<1>3. ASSUME NEW bed \in Beds, FlowerBlooms(bed) \/ FlowerHarvested(bed) PROVE Inductive'
  BY <1>1, <1>3 DEF FlowerBlooms, FlowerHarvested
<1>4. ASSUME NEW time \in TickTimes,
             ScheduleAnimals(time) \/ ScheduleFruits(time) \/ ScheduleBeeHouses(time)
      PROVE  Inductive'
  BY <1>1, <1>4 DEF ScheduleAnimals, ScheduleFruits, ScheduleBeeHouses, Schedule
<1>5. ASSUME NEW w \in Workers, ReadAnimals(w) \/ ReadFruits(w) \/ ReadBeeHouses(w)
      PROVE  Inductive'
  BY <1>5, ReadsSafe DEF ReadAnimals, ReadFruits, ReadBeeHouses, Sorts
<1>6. ASSUME NEW w \in Workers, NEW s \in Sorts, WorkerDropsJob(w, s) PROVE Inductive'
  BY <1>1, <1>6 DEF WorkerDropsJob
<1>7. ASSUME NEW w \in Workers, NEW i \in Items, WorkOn(w, i) PROVE Inductive'
  BY <1>7, SavesSafe, RetriesSafe, FailsSafe DEF WorkOn
<1>8. CASE UNCHANGED vars
  BY <1>1, <1>8 DEF vars
<1> QED BY <1>2, <1>3, <1>4, <1>5, <1>6, <1>7, <1>8 DEF Next

\* One worker: the inductive invariant, which ties what the worker holds of an item to
\* the document as the handlers have left it.
THEOREM InductiveInvariant ==
  ASSUME SingleWorker
  PROVE  Spec => []Inductive
<1>1. Init => Inductive
  <2> SUFFICES ASSUME Init, TypeInv PROVE Inductive
    BY InitType
  <2>1. \A i \in Items : Placed(i) => Fits(items[i]) /\ ~ Bearing(items[i])
    BY NewLemma DEF Init, Placed
  <2>2. \A i \in Items : ledger[i].borne = 0 /\ ledger[i].taken = 0
    BY DEF Init
  <2>3. \A w \in Workers, i \in Items : task[w][i] = NoTask
    BY DEF Init
  <2> QED BY <2>1, <2>2, <2>3 DEF Inductive, ItemsFit, YieldLedger, CopiesFresh, Ripe
<1>2. Inductive /\ TypeInv' /\ [Next]_vars => Inductive'
  BY InductiveStep
<1> QED BY <1>1, <1>2, TypeInvariant, PTL DEF Spec

\* One worker, retries and stale copies notwithstanding: nobody harvests or robs an
\* animal, a tree or a bee house between the read and the save of its worker.
THEOREM HeldItemsKeepGrowing ==
  ASSUME SingleWorker
  PROVE  Spec => []HeldItemsGrow
<1>1. Inductive => HeldItemsGrow
  BY DEF Inductive, CopiesFresh, Fresh, HeldItemsGrow
<1> QED BY <1>1, InductiveInvariant, PTL

\* One worker: what an item came to bear and was not taken from it is still on offer,
\* however often a transaction was run again.
THEOREM YieldsAccounted ==
  ASSUME SingleWorker
  PROVE  Spec => []YieldLedger
<1>1. Inductive => YieldLedger
  BY DEF Inductive
<1> QED BY <1>1, InductiveInvariant, PTL

\* One worker: state, age and yield, saved as separate fields beside the cures of the
\* players, fit together.
THEOREM StatesFitTheirAge ==
  ASSUME SingleWorker
  PROVE  Spec => []StateFitsAge
<1>1. Inductive => StateFitsAge
  <2> SUFFICES ASSUME Inductive, NEW i \in Items, Placed(i)
               PROVE  LET item == items[i]
                      IN  /\ item.sort # "animal" /\ ~Bearing(item) => item.left = 0
                          /\ item.sort = "animal" /\ item.state \in {Sick, Yield} =>
                               item.adult /\ item.immunized
                          /\ item.sort = "fruit" =>
                               /\ item.state = FullyMatured <=> item.stage = FruitStages - 1
                               /\ item.state = IsBuggy => item.stage = FruitStages - 2
    BY DEF StateFitsAge
  <2>1. items[i] \in Infos /\ Fits(items[i])
    BY PlacedInfo DEF Inductive, ItemsFit
  <2>2. items[i].sort # "animal" /\ ~Bearing(items[i]) => items[i].left = 0
    BY <2>1, InfoOfSort DEF Fits, FruitFits, BeeHouseFits, Bearing, Yield, BeeHouseYield
  <2> QED BY <2>1, <2>2 DEF Fits, AnimalFits, FruitFits
<1> QED BY <1>1, InductiveInvariant, PTL
=============================================================================
