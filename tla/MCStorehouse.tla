---------------------------- MODULE MCStorehouse ----------------------------
(* Small inventories for TLC: a few types, three or four documents.        *)
EXTENDS Storehouse, TLC

CONSTANTS i1, i2, i3, i4, carrot, egg, seed, feed, crate, phone, tablet, w1

Symmetric == Permutations(Ids)

\* The slot of the toolbar and an index on either side of it.
MCTargets == -1 .. 1

MCPrice == [type \in Buyable \cup Tools |-> 1]
MCGoldAmount == [type \in Products |-> 2]

\* As in the list of the code, feed comes twice.
MCPriorities == <<crate, seed, carrot, feed, egg, feed>>
=============================================================================
