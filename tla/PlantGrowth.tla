---------------------------- MODULE PlantGrowth -----------------------------
(***************************************************************************)
(* The plantInfo subdocument of a tile: how it is created by the schema    *)
(* defaults, how one run of the plant worker ages it in memory, what the   *)
(* fertilizer and harvest services do to it, and what a Mongoose save      *)
(* writes back of an in-memory copy.                                       *)
(***************************************************************************)
EXTENDS Integers, FiniteSets

CONSTANTS
  Users,
  Crops, Flowers,       \* kinds of plant; only crops are perennial
  PerennialCount,       \* harvests of one planting of a crop
  HarvestQuantity,      \* items a healthy plant of a kind ripens to
  GrowthStages, NextGrowthStageAfterHarvest, GrowthStageDuration,
  MinThievablePercent,  \* share of a ripe plant thieves may not touch
  FertilizerTimeReduce

Kinds == Crops \union Flowers
NoKind == "no kind"

ASSUME GrowthAssumption ==
  /\ Crops \cap Flowers = {}
  /\ NoKind \notin Kinds
  /\ PerennialCount \in [Crops -> Nat \ {0}]
  /\ HarvestQuantity \in [Kinds -> Nat \ {0}]
  /\ GrowthStages \in Nat /\ GrowthStages >= 4
  /\ NextGrowthStageAfterHarvest \in 1 .. GrowthStages - 1
  /\ GrowthStageDuration \in [Kinds -> Nat \ {0}]
  /\ MinThievablePercent \in 0 .. 100
  /\ FertilizerTimeReduce \in Nat

NeedWater == "NeedWater"
Normal == "Normal"
IsWeedy == "IsWeedy"
IsInfested == "IsInfested"
FullyMatured == "FullyMatured"
PlantStates == {NeedWater, Normal, IsWeedy, IsInfested, FullyMatured}

\* plantInfo: harvests = harvestCount, desired, min and left = the three
\* harvestQuantity fields (Desired, Min, Remaining), fertilized and quality =
\* isFertilized and isQuality.
PlantInfos ==
  [kind : Kinds \union {NoKind}, stage : 0 .. GrowthStages - 1, elapsed : Nat,
   state : PlantStates, fertilized : BOOLEAN, quality : BOOLEAN,
   thieves : SUBSET Users, harvests : Nat,
   desired : Nat, min : Nat, left : Int]

NewPlant(kind) ==
  [kind |-> kind, stage |-> 0, elapsed |-> 0, state |-> Normal,
   fertilized |-> FALSE, quality |-> FALSE, thieves |-> {}, harvests |-> 0,
   desired |-> 0, min |-> 0, left |-> 0]

\* Mutant: the query forgets the plants that need water.
GrowingUnlessRipe(p) == p.state # FullyMatured

\* Mutant: the query forgets the ripe plants.
GrowingUnlessThirsty(p) == p.state # NeedWater

\* countDocuments and find of the scheduler and the worker.
Growing(p) == p.state \notin {NeedWater, FullyMatured}

-----------------------------------------------------------------------------
(* One run of updatePlacedItem.  A roll is what Math.random decides.       *)

Rolls == [thirst : BOOLEAN, pest : {Normal, IsWeedy, IsInfested}, quality : BOOLEAN]

MinYield(kind) == (HarvestQuantity[kind] * MinThievablePercent) \div 100

RipeYield(p) ==
  IF p.state \in {IsInfested, IsWeedy}
    THEN (MinYield(p.kind) + HarvestQuantity[p.kind]) \div 2
    ELSE HarvestQuantity[p.kind]

Ripen(p, roll) ==
  [p EXCEPT !.elapsed = 0, !.state = FullyMatured, !.quality = @ \/ roll.quality,
            !.desired = HarvestQuantity[p.kind], !.min = MinYield(p.kind),
            !.left = RipeYield(p)]

\* p has just been moved to its next stage.
EnterStage(p, roll) ==
  IF p.stage <= GrowthStages - 3
    THEN [p EXCEPT !.state = IF roll.thirst THEN NeedWater ELSE @, !.elapsed = 0]
  ELSE IF p.stage = GrowthStages - 2
    THEN [p EXCEPT !.state = IF roll.pest # Normal THEN roll.pest ELSE @]
  ELSE Ripen(p, roll)

Grow(p, time, roll) ==
  IF p.stage >= GrowthStages - 1 THEN p
  ELSE IF p.elapsed + time < GrowthStageDuration[p.kind]
    THEN [p EXCEPT !.elapsed = @ + time]
    ELSE EnterStage([p EXCEPT !.elapsed = @ + time - GrowthStageDuration[p.kind],
                              !.stage = @ + 1, !.fertilized = FALSE], roll)

-----------------------------------------------------------------------------
(* Services the player handlers call.                                      *)

Tended(p) == [p EXCEPT !.state = Normal]

Fertilized(p) == [p EXCEPT !.elapsed = @ + FertilizerTimeReduce, !.fertilized = TRUE]

IsPerennial(p) == p.kind \in Crops /\ p.harvests + 1 < PerennialCount[p.kind]

\* Mutant: what was harvested is not cleared.
RegrownWithLeft(p) ==
  [p EXCEPT !.harvests = @ + 1, !.state = NeedWater, !.elapsed = 0,
            !.stage = NextGrowthStageAfterHarvest - 1, !.quality = FALSE]

\* Mutant: the plant goes back a stage but stays FullyMatured.
RegrownRipe(p) ==
  [p EXCEPT !.harvests = @ + 1, !.elapsed = 0,
            !.stage = NextGrowthStageAfterHarvest - 1, !.left = 0, !.quality = FALSE]

\* Mutant: a harvest forgives the thieves.
RegrownForgiving(p) ==
  [p EXCEPT !.harvests = @ + 1, !.state = NeedWater, !.elapsed = 0, !.thieves = {},
            !.stage = NextGrowthStageAfterHarvest - 1, !.left = 0, !.quality = FALSE]

Regrown(p) ==
  [p EXCEPT !.harvests = @ + 1, !.state = NeedWater, !.elapsed = 0,
            !.stage = NextGrowthStageAfterHarvest - 1, !.left = 0, !.quality = FALSE]

Stolen(p, thief, quantity) ==
  [p EXCEPT !.thieves = @ \union {thief}, !.left = @ - quantity]

-----------------------------------------------------------------------------
(* Mongoose: save() sends $set for the paths assigned a different value    *)
(* since the document was read, and nothing else.                          *)

WorkerPaths == {"stage", "elapsed", "state", "fertilized", "quality", "desired", "min", "left"}

Modified(old, new) == {f \in WorkerPaths : old[f] # new[f]}

\* What the database holds after $set of the modified paths of mem over db.
Saved(db, mem, modified) ==
  [f \in DOMAIN db |-> IF f \in modified THEN mem[f] ELSE db[f]]
=============================================================================
