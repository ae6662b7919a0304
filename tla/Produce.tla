------------------------------ MODULE Produce -------------------------------
(***************************************************************************)
(* What an animal, a fruit tree and a bee house have in common: they yield *)
(* a harvest, neighbours may steal a part of it above a protected minimum, *)
(* and their attributes (0 unless the item came as an NFT) speed them up   *)
(* and enlarge the harvest.                                                *)
(***************************************************************************)
EXTENDS Integers

CONSTANTS
  Users,
  Species,              \* what can be kept: kinds of animal and of fruit, the bee house
  MinThievablePercent   \* share of a harvest thieves may not touch, per sort

Sorts == {"animal", "fruit", "beeHouse"}

ASSUME ProduceAssumption == MinThievablePercent \in [Sorts -> 0 .. 100]

\* What a run of a worker leaves to Math.random: the ailment, and the quality.
Rolls == [ill : BOOLEAN, quality : BOOLEAN]

Normal == "Normal"

\* time * (1 + a / (1000 + a)), quantity * (1 + b / (1000 + b)): rounded down.
Enhanced(n, attribute) == n + (n * attribute) \div (1000 + attribute)

MinYield(sort, desired) == (desired * MinThievablePercent[sort]) \div 100

\* The three harvestQuantity fields of an item that comes to yield.
Bears(item, desired, ailing, quality) ==
  LET min == MinYield(item.sort, desired)
  IN  [item EXCEPT !.desired = desired, !.min = min,
                   !.left = IF ailing THEN (min + desired) \div 2 ELSE desired,
                   !.quality = @ \/ quality]

\* Mutant: the thief is written down, the quantity stays.
StolenForFree(item, thief, quantity) == [item EXCEPT !.thieves = @ \union {thief}]

Stolen(item, thief, quantity) ==
  [item EXCEPT !.thieves = @ \union {thief}, !.left = @ - quantity]
=============================================================================
