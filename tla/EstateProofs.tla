---------------------------- MODULE EstateProofs ----------------------------
(***************************************************************************)
(* The farm of Estate, for any catalogue, any prices and limits and any    *)
(* number of devices: what a purchase decides on a snapshot still holds    *)
(* when it commits, because it writes the user as every other purchase,    *)
(* sale and reward does.                                                   *)
(***************************************************************************)
EXTENDS Estate, ServiceProofs

Maps == [Ids -> PlacedItems \cup {Free, Gone}]

\* Besides where items stand, what may change without a write of the user: a building
\* may be upgraded for nothing.
Grown(old, new) ==
  \A i \in Ids :
    /\ i \in Standing(old) <=> i \in Standing(new)
    /\ i \in Standing(old) => new[i].type = old[i].type /\ old[i].upgrade <= new[i].upgrade

\* One item more, and one less.
Added(old, new, i) ==
  /\ i \in Ids /\ i \notin Standing(old) /\ i \in Standing(new)
  /\ \A j \in Ids \ {i} : new[j] = old[j]

-----------------------------------------------------------------------------
(* Items and how many there are.                                           *)

LEMMA StandingItem ==
  ASSUME NEW map \in Maps, NEW i \in Standing(map)
  PROVE  /\ i \in Ids /\ map[i] \in PlacedItems
         /\ map[i].type \in PlacedItemTypes /\ map[i].upgrade \in Nat
<1>1. i \in Ids /\ map[i] \in PlacedItems
  BY DEF Standing, Maps
<1> QED BY <1>1 DEF PlacedItems

LEMMA KindsApart ==
  /\ \A kind \in Kinds : \A type \in OfKind[kind] :
       type \in PlacedItemTypes /\ Kind[type] = kind
  /\ \A type \in PlacedItemTypes : Kind[type] \in Kinds /\ type \in OfKind[Kind[type]]
BY EstateAssumption DEF OfKind

LEMMA CountType ==
  ASSUME NEW map, NEW types
  PROVE  /\ IsFiniteSet(Of(map, types)) /\ Count(map, types) \in Nat
         /\ Of(map, types) \subseteq Ids
<1>1. Of(map, types) \subseteq Ids
  BY DEF Of, Standing
<1>2. IsFiniteSet(Of(map, types))
  BY <1>1, IdsAssumption, FS_Subset
<1> QED BY <1>1, <1>2, FS_CardinalityType DEF Count

LEMMA CountMore ==
  ASSUME NEW map, NEW types, NEW more, types \subseteq more
  PROVE  Count(map, types) <= Count(map, more)
<1>1. Of(map, types) \subseteq Of(map, more)
  BY DEF Of
<1>2. IsFiniteSet(Of(map, more))
  BY CountType
<1> QED BY <1>1, <1>2, FS_Subset DEF Count

LEMMA GrownOf ==
  ASSUME NEW old, NEW new, Grown(old, new), NEW types
  PROVE  Of(new, types) = Of(old, types) /\ Count(new, types) = Count(old, types)
<1>1. Of(new, types) = Of(old, types)
  BY DEF Grown, Of, Standing
<1> QED BY <1>1 DEF Count

LEMMA GrownTransitive ==
  ASSUME NEW a \in Maps, NEW b \in Maps, NEW c \in Maps, Grown(a, b), Grown(b, c)
  PROVE  Grown(a, c)
<1> SUFFICES ASSUME NEW i \in Ids
             PROVE  /\ i \in Standing(a) <=> i \in Standing(c)
                    /\ i \in Standing(a) =>
                         c[i].type = a[i].type /\ a[i].upgrade <= c[i].upgrade
  BY DEF Grown
<1>1. /\ i \in Standing(a) <=> i \in Standing(b)
      /\ i \in Standing(a) => b[i].type = a[i].type /\ a[i].upgrade <= b[i].upgrade
      /\ i \in Standing(b) <=> i \in Standing(c)
      /\ i \in Standing(b) => c[i].type = b[i].type /\ b[i].upgrade <= c[i].upgrade
  BY DEF Grown
<1>2. i \in Standing(a) =>
        a[i].upgrade \in Nat /\ b[i].upgrade \in Nat /\ c[i].upgrade \in Nat
  BY <1>1, StandingItem
<1> QED BY <1>1, <1>2

LEMMA AddedOf ==
  ASSUME NEW old, NEW new, NEW i, Added(old, new, i), NEW types
  PROVE  /\ i \notin Of(old, types)
         /\ Of(new, types) = Of(old, types) \cup (IF new[i].type \in types THEN {i} ELSE {})
         /\ Count(new, types) = Count(old, types) + (IF new[i].type \in types THEN 1 ELSE 0)
<1>1. i \notin Of(old, types)
  BY DEF Added, Of
<1>2. Of(new, types) = Of(old, types) \cup (IF new[i].type \in types THEN {i} ELSE {})
  BY DEF Added, Of, Standing
<1>3. IsFiniteSet(Of(old, types)) /\ Count(old, types) \in Nat
  BY CountType
<1>4. CASE new[i].type \in types
  BY <1>1, <1>2, <1>3, <1>4, FS_AddElement DEF Count
<1>5. CASE new[i].type \notin types
  <2>1. Of(new, types) = Of(old, types)
    BY <1>2, <1>5
  <2>2. Count(new, types) = Count(old, types)
    BY <2>1 DEF Count
  <2> QED BY <1>1, <1>2, <1>3, <1>5, <2>2
<1> QED BY <1>1, <1>2, <1>4, <1>5

-----------------------------------------------------------------------------
(* Houses.                                                                 *)

LEMMA CapacityOfType ==
  ASSUME NEW map \in Maps, Upgraded(map), NEW house \in OfKind["building"],
         NEW i \in Of(map, {house})
  PROVE  /\ CapacityOf(map, i) \in Nat /\ map[i].type = house
         /\ map[i].upgrade \in DOMAIN Upgrades[house] /\ map[i].upgrade \in Nat
<1>1. /\ i \in Of(map, OfKind["building"]) /\ map[i].type = house
      /\ map[i].upgrade \in Nat
  BY StandingItem DEF Of
<1>2. map[i].upgrade \in DOMAIN Upgrades[house]
  BY <1>1 DEF Upgraded
<1>3. Upgrades[house] \in Seq([price : Nat, capacity : Nat])
  BY EstateAssumption
<1>4. Upgrades[house][map[i].upgrade] \in [price : Nat, capacity : Nat]
  <2> DEFINE levels == Upgrades[house]
             n == map[i].upgrade
             Levels == [price : Nat, capacity : Nat]
  <2>1. levels \in Seq(Levels) /\ n \in DOMAIN levels
    BY <1>2, <1>3
  <2> HIDE DEF levels, n, Levels
  <2>2. levels[n] \in Levels
    BY <2>1
  <2> QED BY <2>2 DEF levels, n, Levels
<1> QED BY <1>1, <1>2, <1>4 DEF CapacityOf

LEMMA CapacityType ==
  ASSUME NEW map \in Maps, Upgraded(map), NEW house \in OfKind["building"]
  PROVE  Capacity(map, house) \in Int
<1> DEFINE f == [i \in Of(map, {house}) |-> CapacityOf(map, i)]
<1>1. f \in [Of(map, {house}) -> Int]
  BY CapacityOfType
<1> HIDE DEF f
<1>2. SumFunction(f) \in Int
  BY <1>1, CountType, SumType
<1> QED BY <1>2 DEF Capacity, f

\* More houses, none at a lower level, have more room.
LEMMA CapacityGrows ==
  ASSUME NEW old \in Maps, NEW new \in Maps, Upgraded(old), Upgraded(new),
         NEW house \in OfKind["building"], Of(old, {house}) \subseteq Of(new, {house}),
         \A i \in Of(old, {house}) : old[i].upgrade <= new[i].upgrade
  PROVE  Capacity(old, house) <= Capacity(new, house)
<1> DEFINE D == Of(old, {house})
           E == Of(new, {house})
           f == [i \in D |-> CapacityOf(old, i)]
           h == [i \in E |-> CapacityOf(new, i)]
<1>1. f \in [D -> Nat] /\ h \in [E -> Nat]
  BY CapacityOfType
<1>2. ASSUME NEW i \in D PROVE f[i] <= h[i]
  <2>1. /\ old[i].type = house /\ new[i].type = house
        /\ old[i].upgrade \in DOMAIN Upgrades[house]
        /\ new[i].upgrade \in DOMAIN Upgrades[house]
    BY CapacityOfType
  <2>2. CapacityOf(old, i) <= CapacityOf(new, i)
    BY <2>1, EstateAssumption DEF CapacityOf
  <2> QED BY <2>2
<1>3. IsFiniteSet(E) /\ D \subseteq E
  BY CountType
<1> HIDE DEF f, h, D, E
<1>4. SumFunction(f) <= SumFunction(h)
  BY <1>1, <1>2, <1>3, SumGrows
<1> QED BY <1>4 DEF Capacity, f, h, D, E

\* One house has no more room than all of its kind.
LEMMA CapacityOfOne ==
  ASSUME NEW map \in Maps, Upgraded(map), NEW house \in OfKind["building"],
         NEW i \in Of(map, {house})
  PROVE  CapacityOf(map, i) <= Capacity(map, house)
<1> DEFINE E == Of(map, {house})
           f == [j \in {i} |-> CapacityOf(map, j)]
           h == [j \in E |-> CapacityOf(map, j)]
<1>1. f \in [{i} -> Nat] /\ h \in [E -> Nat] /\ f[i] = CapacityOf(map, i)
      /\ \A j \in {i} : f[j] <= h[j]
  <2>1. \A j \in E : CapacityOf(map, j) \in Nat
    BY CapacityOfType
  <2> QED BY <2>1
<1>2. IsFiniteSet(E) /\ {i} \subseteq E /\ IsFiniteSet({i}) /\ IsFiniteSet({})
  BY CountType, FS_Singleton, FS_EmptySet
<1> HIDE DEF f, h, E
<1>3. SumFunction(f) <= SumFunction(h)
  BY <1>1, <1>2, SumGrows
<1>4. SumFunction(f) = f[i]
  <2> DEFINE e == [j \in {} |-> 0]
  <2>1. e \in [{} -> Int] /\ SumFunction(e) = 0
    <3>1. e \in [{} -> Int] /\ \A x \in {} : e[x] = 0
      OBVIOUS
    <3> HIDE DEF e
    <3> QED BY <1>2, <3>1, SumZero
  <2>2. f \in [{} \cup {i} -> Int] /\ i \notin {} /\ \A j \in {} : f[j] = e[j]
    BY <1>1
  <2> HIDE DEF e
  <2>3. SumFunction(f) = SumFunction(e) + f[i]
    BY <1>2, <2>1, <2>2, SumAdded
  <2> QED BY <1>1, <2>1, <2>3
<1> QED BY <1>1, <1>3, <1>4 DEF Capacity, h, E

-----------------------------------------------------------------------------
(* Limits, and what items sell for.                                        *)

LEMMA PetHouses ==
  ASSUME NEW type, type \in OfKind["pet"] \/ type \in OfKind["animal"]
  PROVE  Houses[type] \in OfKind["building"]
BY EstateAssumption

LEMMA LimitsGrown ==
  ASSUME NEW old \in Maps, NEW new \in Maps, Upgraded(old), Upgraded(new),
         WithinLimits(old), Grown(old, new)
  PROVE  WithinLimits(new)
<1>1. \A types : Of(new, types) = Of(old, types) /\ Count(new, types) = Count(old, types)
  BY GrownOf
<1>2. ASSUME NEW type \in OfKind["pet"]
      PROVE  Count(new, {type}) <= Capacity(new, Houses[type])
  <2>1. Houses[type] \in OfKind["building"]
    BY PetHouses
  <2>2. \A i \in Of(old, {Houses[type]}) : old[i].upgrade <= new[i].upgrade
    BY DEF Grown, Of, Standing
  <2>3. Capacity(old, Houses[type]) <= Capacity(new, Houses[type])
    BY <1>1, <2>1, <2>2, CapacityGrows
  <2>4. Count(old, {type}) <= Capacity(old, Houses[type])
    BY DEF WithinLimits
  <2>5. Count(old, {type}) \in Nat /\ Capacity(old, Houses[type]) \in Int
        /\ Capacity(new, Houses[type]) \in Int
    BY <2>1, CountType, CapacityType
  <2> QED BY <1>1, <2>3, <2>4, <2>5
<1> QED BY <1>1, <1>2 DEF WithinLimits

LEMMA SellPriceType ==
  ASSUME NEW map \in Maps
  PROVE  [i \in Of(map, Sellable) |-> SellPrice[map[i].type]]
           \in [Of(map, Sellable) -> Nat]
<1>1. ASSUME NEW i \in Of(map, Sellable) PROVE SellPrice[map[i].type] \in Nat
  BY <1>1, StandingItem, EstateAssumption DEF Of
<1> QED BY <1>1

LEMMA SellValueType ==
  ASSUME NEW map \in Maps
  PROVE  SellValue(map) \in Int
<1> DEFINE f == [i \in Of(map, Sellable) |-> SellPrice[map[i].type]]
<1>1. f \in [Of(map, Sellable) -> Int]
  BY SellPriceType
<1> HIDE DEF f
<1>2. SumFunction(f) \in Int
  BY <1>1, CountType, SumType
<1> QED BY <1>2 DEF SellValue, f

LEMMA SellValueGrown ==
  ASSUME NEW old, NEW new, Grown(old, new)
  PROVE  SellValue(new) = SellValue(old)
<1>1. Of(new, Sellable) = Of(old, Sellable)
  BY GrownOf
<1>2. \A i \in Of(old, Sellable) : new[i].type = old[i].type
  BY DEF Grown, Of, Standing
<1>3. [i \in Of(new, Sellable) |-> SellPrice[new[i].type]]
        = [i \in Of(old, Sellable) |-> SellPrice[old[i].type]]
  BY <1>1, <1>2
<1> QED BY <1>3 DEF SellValue

LEMMA SellValueAdded ==
  ASSUME NEW old \in Maps, NEW new \in Maps, NEW i, Added(old, new, i)
  PROVE  SellValue(new) = SellValue(old)
                            + (IF new[i].type \in Sellable THEN SellPrice[new[i].type] ELSE 0)
<1> DEFINE D == Of(old, Sellable)
           E == Of(new, Sellable)
           f == [j \in D |-> SellPrice[old[j].type]]
           h == [j \in E |-> SellPrice[new[j].type]]
<1>1. f \in [D -> Int] /\ h \in [E -> Int] /\ IsFiniteSet(D)
  BY SellPriceType, CountType
<1>2. i \notin D /\ E = D \cup (IF new[i].type \in Sellable THEN {i} ELSE {})
  BY AddedOf
<1>3. \A j \in D : new[j] = old[j] /\ f[j] = SellPrice[old[j].type]
  BY <1>2 DEF Added, Of, Standing
<1>4. \A j \in E : h[j] = SellPrice[new[j].type]
  OBVIOUS
<1>5. SellValue(old) = SumFunction(f) /\ SellValue(new) = SumFunction(h)
  BY DEF SellValue
<1>6. SellValue(old) \in Int
  BY SellValueType
<1>7. f = [j \in D |-> SellPrice[old[j].type]] /\ h = [j \in E |-> SellPrice[new[j].type]]
  OBVIOUS
<1> HIDE DEF D, E, f, h
<1>8. CASE new[i].type \in Sellable
  <2>1. E = D \cup {i} /\ \A j \in D : h[j] = f[j]
    BY <1>2, <1>3, <1>4, <1>8
  <2>2. SumFunction(h) = SumFunction(f) + h[i]
    BY <1>1, <1>2, <2>1, SumAdded
  <2> QED BY <1>4, <1>5, <1>8, <2>1, <2>2
<1>9. CASE new[i].type \notin Sellable
  <2>1. E = D
    BY <1>2, <1>9
  <2>2. h = f
    BY <1>3, <1>7, <2>1
  <2> QED BY <1>5, <1>6, <1>9, <2>2
<1> QED BY <1>8, <1>9

-----------------------------------------------------------------------------
(* The invariant.                                                          *)

\* A snapshot differs from the documents where others wrote, and while nobody wrote the
\* user only in where items stand.  What it knows of was claimed by its day.
SnapshotsAgree ==
  \A d \in Devices :
    txn[d] # NoTxn =>
      /\ \A i \in Ids \ txn[d].stale : placed[i] = txn[d].placed[i]
      /\ "user" \notin txn[d].stale => user = txn[d].user /\ Grown(txn[d].placed, placed)
      /\ Upgraded(txn[d].placed)
      /\ txn[d].user.lastClaim <= txn[d].today

\* Rewards were paid on different days, none of them to come.
RewardsApart ==
  /\ claims = user.streak
  /\ claims <= user.lastClaim /\ user.lastClaim <= today
  /\ user.lastClaim > 0 => claims > 0

EstateInv ==
  /\ TypeOK /\ SnapshotsAgree /\ Upgraded(placed)
  /\ RewardsApart /\ LimitsKept /\ AnswersAreHonest

\* The two action properties of the runs, of one step.
Enriching == Worth' <= Worth + (IF claims' = claims THEN 0 ELSE Reward(user'.streak))

Housing ==
  \A type \in OfKind["animal"] :
    Count(placed', {type}) > Count(placed, {type}) =>
      Count(placed', {type}) <= Capacity(placed', Houses[type])

LEMMA UserFields ==
  ASSUME NEW u \in Users
  PROVE  /\ u.golds \in Nat /\ u.dog \in Ids \cup {NoPet} /\ u.cat \in Ids \cup {NoPet}
         /\ u.streak \in Nat /\ u.lastClaim \in Nat /\ u.sound \in Volumes
         /\ u.tutorial \in SUBSET Steps
         /\ DOMAIN u = {"golds", "dog", "cat", "streak", "lastClaim", "sound", "tutorial"}
         /\ u = [x \in DOMAIN u |-> u[x]]
BY DEF Users

LEMMA UsersByField ==
  ASSUME NEW u, u = [x \in DOMAIN u |-> u[x]],
         DOMAIN u = {"golds", "dog", "cat", "streak", "lastClaim", "sound", "tutorial"},
         u.golds \in Nat, u.dog \in Ids \cup {NoPet}, u.cat \in Ids \cup {NoPet},
         u.streak \in Nat, u.lastClaim \in Nat, u.sound \in Volumes,
         u.tutorial \in SUBSET Steps
  PROVE  u \in Users
BY DEF Users

\* What a device knows of the farm when it commits.
LEMMA SnapshotOf ==
  ASSUME EstateInv, NEW d \in Devices, txn[d] # NoTxn
  PROVE  /\ txn[d].user \in Users /\ txn[d].placed \in Maps /\ Upgraded(txn[d].placed)
         /\ user \in Users /\ placed \in Maps /\ Upgraded(placed)
         /\ \A i \in Ids \ txn[d].stale : placed[i] = txn[d].placed[i]
         /\ "user" \notin txn[d].stale => user = txn[d].user /\ Grown(txn[d].placed, placed)
BY DEF EstateInv, TypeOK, SnapshotsAgree, Maps

\* A commit changes what the handler changed, and finds that as the snapshot had it.
LEMMA CommitLands ==
  ASSUME EstateInv, NEW d \in Devices, txn[d] # NoTxn,
         NEW newUser, NEW newPlaced, NEW newOffer, Commit(d, newUser, newPlaced, newOffer)
  PROVE  /\ today' = today /\ offer' = newOffer
         /\ IF newUser = txn[d].user THEN user' = user
            ELSE /\ user = txn[d].user /\ user' = newUser
                 /\ Grown(txn[d].placed, placed)
         /\ DOMAIN placed' = Ids
         /\ \A i \in Ids :
              IF newPlaced[i] = txn[d].placed[i] THEN placed'[i] = placed[i]
              ELSE placed[i] = txn[d].placed[i] /\ placed'[i] = newPlaced[i]
<1> DEFINE written == Written(d, newUser, newPlaced)
<1>1. /\ NoConflict(d, written)
      /\ user' = IF "user" \in written THEN newUser ELSE user
      /\ placed' = [i \in Ids |-> IF i \in written THEN newPlaced[i] ELSE placed[i]]
      /\ offer' = newOffer /\ today' = today
  BY DEF Commit
<1>2. "user" \in written <=> newUser # txn[d].user
  BY IdsAssumption DEF Written
<1>3. \A i \in Ids : i \in written <=> newPlaced[i] # txn[d].placed[i]
  BY IdsAssumption DEF Written
<1>4. \A x \in written : x \notin txn[d].stale
  BY <1>1 DEF NoConflict
<1> HIDE DEF written
<1>5. IF newUser = txn[d].user THEN user' = user
      ELSE user = txn[d].user /\ user' = newUser /\ Grown(txn[d].placed, placed)
  BY <1>1, <1>2, <1>4, SnapshotOf
<1>6. ASSUME NEW i \in Ids
      PROVE  IF newPlaced[i] = txn[d].placed[i] THEN placed'[i] = placed[i]
             ELSE placed[i] = txn[d].placed[i] /\ placed'[i] = newPlaced[i]
  BY <1>1, <1>3, <1>4, SnapshotOf
<1> QED BY <1>1, <1>5, <1>6

LEMMA CommitGrown ==
  ASSUME EstateInv, NEW d \in Devices, txn[d] # NoTxn,
         NEW newUser, NEW newPlaced, NEW newOffer, Commit(d, newUser, newPlaced, newOffer),
         Grown(txn[d].placed, newPlaced)
  PROVE  Grown(placed, placed')
<1> SUFFICES ASSUME NEW i \in Ids
             PROVE  /\ i \in Standing(placed) <=> i \in Standing(placed')
                    /\ i \in Standing(placed) =>
                         /\ placed'[i].type = placed[i].type
                         /\ placed[i].upgrade <= placed'[i].upgrade
  BY DEF Grown
<1>1. \/ placed'[i] = placed[i]
      \/ placed[i] = txn[d].placed[i] /\ placed'[i] = newPlaced[i]
  BY CommitLands
<1>2. i \in Standing(placed) => placed[i].upgrade \in Nat
  BY SnapshotOf, StandingItem
<1> QED BY <1>1, <1>2 DEF Grown, Standing

\* The types, and the snapshots of the others.
LEMMA CommitTypes ==
  ASSUME EstateInv, NEW d \in Devices, txn[d] # NoTxn,
         NEW newUser \in Users, NEW newPlaced \in Maps, Upgraded(newPlaced),
         newUser = txn[d].user => Grown(txn[d].placed, newPlaced),
         NEW newOffer \in AvailableInShop \cup {NoOffer},
         Commit(d, newUser, newPlaced, newOffer), claims' \in Nat
  PROVE  TypeOK' /\ SnapshotsAgree' /\ placed' \in Maps /\ Upgraded(placed')
<1> DEFINE written == Written(d, newUser, newPlaced)
<1>1. /\ \A e \in Devices \ {d} : txn[e] # NoTxn => txn[e].overlap < MaxOverlap
      /\ user' = IF "user" \in written THEN newUser ELSE user
      /\ placed' = [i \in Ids |-> IF i \in written THEN newPlaced[i] ELSE placed[i]]
      /\ txn' = [e \in Devices |->
                   IF e = d \/ txn[e] = NoTxn
                     THEN NoTxn
                     ELSE [txn[e] EXCEPT !.stale = @ \cup written, !.overlap = @ + 1]]
      /\ offer' = newOffer /\ today' = today
  BY DEF Commit
<1>2. written \subseteq Ids \cup {"user"}
  BY DEF Written
<1>3. "user" \in written <=> newUser # txn[d].user
  BY IdsAssumption DEF Written
<1> HIDE DEF written
<1>4. placed' \in Maps
  BY <1>1, SnapshotOf DEF Maps
<1>5. Upgraded(placed')
  <2> SUFFICES ASSUME NEW i \in Of(placed', OfKind["building"])
               PROVE  placed'[i].upgrade \in DOMAIN Upgrades[placed'[i].type]
    BY DEF Upgraded
  <2>1. i \in Ids /\ (placed'[i] = placed[i] \/ placed'[i] = newPlaced[i])
    BY <1>1, CountType
  <2>2. CASE placed'[i] = placed[i]
    <3>1. i \in Of(placed, OfKind["building"])
      BY <2>1, <2>2 DEF Of, Standing
    <3> QED BY <2>2, <3>1, SnapshotOf DEF Upgraded
  <2>3. CASE placed'[i] = newPlaced[i]
    <3>1. i \in Of(newPlaced, OfKind["building"])
      BY <2>1, <2>3 DEF Of, Standing
    <3> QED BY <2>3, <3>1 DEF Upgraded
  <2> QED BY <2>1, <2>2, <2>3
<1>6. "user" \notin written => user' = user /\ Grown(placed, placed')
  BY <1>1, <1>3, CommitGrown
<1>7. ASSUME NEW e \in Devices, txn'[e] # NoTxn
      PROVE  LET t == txn'[e]
             IN  /\ DOMAIN t = {"user", "placed", "today", "stale", "overlap"}
                 /\ t.user \in Users /\ t.placed \in Maps
                 /\ t.today \in 1 .. today /\ t.user.lastClaim <= t.today
                 /\ t.stale \subseteq Ids \cup {"user"} /\ t.overlap \in 0 .. MaxOverlap
                 /\ \A i \in Ids \ t.stale : placed'[i] = t.placed[i]
                 /\ "user" \notin t.stale => user' = t.user /\ Grown(t.placed, placed')
                 /\ Upgraded(t.placed)
  <2> DEFINE s == txn[e]
             t == [s EXCEPT !.stale = @ \cup written, !.overlap = @ + 1]
  <2>1. s # NoTxn /\ txn'[e] = t /\ s.overlap < MaxOverlap
    BY <1>1, <1>7
  <2>2. /\ DOMAIN s = {"user", "placed", "today", "stale", "overlap"}
        /\ s.stale \subseteq Ids \cup {"user"} /\ s.overlap \in 0 .. MaxOverlap
        /\ s.today \in 1 .. today /\ s.user.lastClaim <= s.today
    BY <2>1 DEF EstateInv, TypeOK, SnapshotsAgree
  <2>3. /\ s.user \in Users /\ s.placed \in Maps /\ Upgraded(s.placed)
        /\ \A i \in Ids \ s.stale : placed[i] = s.placed[i]
        /\ "user" \notin s.stale => user = s.user /\ Grown(s.placed, placed)
    BY <2>1, SnapshotOf
  <2>4. /\ DOMAIN t = DOMAIN s /\ t.user = s.user /\ t.placed = s.placed
        /\ t.stale = s.stale \cup written /\ t.overlap = s.overlap + 1
        /\ t.today = s.today
    BY <2>2
  <2> HIDE DEF t, s
  <2>5. t.overlap \in 0 .. MaxOverlap
    <3>1. MaxOverlap \in Nat
      BY EstateAssumption
    <3> QED BY <2>1, <2>2, <2>4, <3>1
  <2>6. \A i \in Ids \ t.stale : placed'[i] = t.placed[i]
    BY <1>1, <2>3, <2>4
  <2>7. "user" \notin t.stale => user' = t.user /\ Grown(t.placed, placed')
    <3>1. placed \in Maps
      BY SnapshotOf
    <3> QED BY <1>4, <1>6, <2>3, <2>4, <3>1, GrownTransitive
  <2> QED BY <1>2, <2>1, <2>2, <2>3, <2>4, <2>5, <2>6, <2>7
<1>8. TypeOK'
  <2>1. /\ user' \in Users /\ today' \in 1 .. MaxDays /\ DOMAIN txn' = Devices
        /\ offer' \in AvailableInShop \cup {NoOffer}
    BY <1>1 DEF EstateInv, TypeOK
  <2> QED BY <1>1, <1>4, <1>7, <2>1 DEF TypeOK, Maps
<1>9. SnapshotsAgree'
  BY <1>7 DEF SnapshotsAgree
<1> QED BY <1>4, <1>5, <1>8, <1>9

-----------------------------------------------------------------------------
(* Steps that bring no item and take none away.                            *)

LEMMA WorthType ==
  ASSUME EstateInv
  PROVE  Worth \in Int /\ user.golds \in Nat /\ SellValue(placed) \in Int
<1>1. user \in Users /\ placed \in Maps
  BY DEF EstateInv, TypeOK, Maps
<1>2. user.golds \in Nat /\ SellValue(placed) \in Int
  BY <1>1, UserFields, SellValueType
<1> QED BY <1>2 DEF Worth

LEMMA GrownStep ==
  ASSUME EstateInv, placed' \in Maps, Upgraded(placed'), Grown(placed, placed')
  PROVE  LimitsKept' /\ Housing /\ SellValue(placed') = SellValue(placed)
<1>1. placed \in Maps /\ Upgraded(placed) /\ WithinLimits(placed)
  BY DEF EstateInv, TypeOK, Maps, LimitsKept
<1>2. WithinLimits(placed')
  BY <1>1, LimitsGrown
<1>3. \A types : Count(placed', types) = Count(placed, types)
  BY GrownOf
<1>4. \A types : Count(placed, types) \in Nat
  BY CountType
<1>5. Housing
  BY <1>3, <1>4 DEF Housing
<1>6. SellValue(placed') = SellValue(placed)
  BY SellValueGrown
<1> QED BY <1>2, <1>5, <1>6 DEF LimitsKept

\* Begin, the clock, and steps that change nothing.
LEMMA IdleStep ==
  ASSUME EstateInv, (\E d \in Devices : Begin(d)) \/ DayPasses \/ UNCHANGED vars
  PROVE  EstateInv' /\ Enriching /\ Housing
<1>1. /\ user' = user /\ placed' = placed /\ offer' = offer /\ claims' = claims
      /\ today' = today \/ (today < MaxDays /\ today' = today + 1)
      /\ \/ txn' = txn
         \/ \E d \in Devices :
              txn' = [txn EXCEPT ![d] = [user |-> user, placed |-> placed, today |-> today,
                                         stale |-> {}, overlap |-> 0]]
  BY DEF Begin, DayPasses, vars
<1>2. DOMAIN txn = Devices /\ today \in 1 .. MaxDays /\ user \in Users
      /\ placed \in Maps /\ MaxOverlap \in Nat /\ MaxDays \in Nat
  BY EstateAssumption DEF EstateInv, TypeOK, Maps
<1>3. today' \in 1 .. MaxDays /\ today <= today' /\ DOMAIN txn' = Devices
  BY <1>1, <1>2
<1>4. \A i \in Ids : i \in Standing(placed) => placed[i].upgrade \in Nat
  BY <1>2, StandingItem
<1>5. Grown(placed, placed)
  BY <1>4 DEF Grown
<1>6. ASSUME NEW e \in Devices, txn'[e] # NoTxn
      PROVE  \/ txn[e] # NoTxn /\ txn'[e] = txn[e]
             \/ txn'[e] = [user |-> user, placed |-> placed, today |-> today,
                           stale |-> {}, overlap |-> 0]
  BY <1>1, <1>2, <1>6
<1>7. TypeOK'
  <2>1. ASSUME NEW e \in Devices, txn'[e] # NoTxn
        PROVE  /\ DOMAIN txn'[e] = {"user", "placed", "today", "stale", "overlap"}
               /\ txn'[e].user \in Users /\ txn'[e].placed \in Maps
               /\ txn'[e].today \in 1 .. today'
               /\ txn'[e].stale \subseteq Ids \cup {"user"}
               /\ txn'[e].overlap \in 0 .. MaxOverlap
    <3>1. CASE txn[e] # NoTxn /\ txn'[e] = txn[e]
      <4>1. txn[e].today \in 1 .. today
        BY <3>1 DEF EstateInv, TypeOK
      <4>2. txn'[e].today \in 1 .. today'
        BY <1>2, <1>3, <3>1, <4>1
      <4> QED BY <3>1, <4>2 DEF EstateInv, TypeOK, Maps
    <3>2. CASE txn'[e] = [user |-> user, placed |-> placed, today |-> today,
                          stale |-> {}, overlap |-> 0]
      BY <1>2, <1>3, <3>2
    <3> QED BY <1>6, <2>1, <3>1, <3>2
  <2> QED BY <1>1, <1>2, <1>3, <2>1 DEF EstateInv, TypeOK, Maps
<1>8. SnapshotsAgree'
  <2> SUFFICES ASSUME NEW e \in Devices, txn'[e] # NoTxn
               PROVE  /\ \A i \in Ids \ txn'[e].stale : placed[i] = txn'[e].placed[i]
                      /\ "user" \notin txn'[e].stale =>
                           user = txn'[e].user /\ Grown(txn'[e].placed, placed)
                      /\ Upgraded(txn'[e].placed)
                      /\ txn'[e].user.lastClaim <= txn'[e].today
    BY <1>1 DEF SnapshotsAgree
  <2>1. CASE txn[e] # NoTxn /\ txn'[e] = txn[e]
    BY <2>1 DEF EstateInv, SnapshotsAgree
  <2>2. CASE txn'[e] = [user |-> user, placed |-> placed, today |-> today,
                        stale |-> {}, overlap |-> 0]
    BY <1>5, <2>2 DEF EstateInv, RewardsApart
  <2> QED BY <1>6, <2>1, <2>2
<1>9. Upgraded(placed') /\ AnswersAreHonest'
  BY <1>1 DEF EstateInv, AnswersAreHonest
<1>10. RewardsApart'
  <2>1. user.lastClaim \in Nat
    BY <1>2, UserFields
  <2> QED BY <1>1, <1>2, <1>3, <2>1 DEF EstateInv, RewardsApart
<1>11. LimitsKept' /\ Housing
  BY <1>1, <1>2, <1>5, <1>9, GrownStep
<1>12. Enriching
  <2>1. Worth \in Int
    BY WorthType
  <2>2. Worth' = Worth
    BY <1>1 DEF Worth
  <2> QED BY <1>1, <2>1, <2>2 DEF Enriching
<1> QED BY <1>7, <1>8, <1>9, <1>10, <1>11, <1>12 DEF EstateInv

\* Moves, upgrades, the pets, the settings.
LEMMA QuietStep ==
  ASSUME EstateInv, NEW d \in Devices, txn[d] # NoTxn,
         NEW newUser \in Users, NEW newPlaced \in Maps, Upgraded(newPlaced),
         Grown(txn[d].placed, newPlaced), newUser.golds <= txn[d].user.golds,
         newUser.streak = txn[d].user.streak, newUser.lastClaim = txn[d].user.lastClaim,
         Commit(d, newUser, newPlaced, NoOffer), claims' = claims
  PROVE  EstateInv' /\ Enriching /\ Housing
<1>1. claims \in Nat
  BY DEF EstateInv, TypeOK
<1>2. TypeOK' /\ SnapshotsAgree' /\ placed' \in Maps /\ Upgraded(placed')
  BY <1>1, CommitTypes
<1>3. Grown(placed, placed')
  BY CommitGrown
<1>4. LimitsKept' /\ Housing /\ SellValue(placed') = SellValue(placed)
  BY <1>2, <1>3, GrownStep
<1>5. /\ today' = today /\ offer' = NoOffer
      /\ IF newUser = txn[d].user THEN user' = user
         ELSE user = txn[d].user /\ user' = newUser
  BY CommitLands
<1>6. user \in Users /\ user' \in Users /\ txn[d].user \in Users
  BY <1>5, SnapshotOf
<1>7. /\ user'.golds <= user.golds /\ user'.streak = user.streak
      /\ user'.lastClaim = user.lastClaim /\ user'.golds \in Nat /\ user.golds \in Nat
  BY <1>5, <1>6, UserFields
<1>8. RewardsApart'
  BY <1>5, <1>7 DEF EstateInv, RewardsApart
<1>9. AnswersAreHonest'
  BY <1>5 DEF AnswersAreHonest
<1>10. Enriching
  <2>1. SellValue(placed) \in Int
    BY WorthType
  <2>2. Worth' = user'.golds + SellValue(placed)
    BY <1>4 DEF Worth
  <2>3. Worth' <= Worth /\ Worth' \in Int /\ Worth \in Int
    BY <1>7, <2>1, <2>2 DEF Worth
  <2> QED BY <2>3 DEF Enriching
<1> QED BY <1>2, <1>4, <1>8, <1>9, <1>10 DEF EstateInv

LEMMA Replaced ==
  ASSUME NEW map \in Maps, Upgraded(map), NEW i \in Standing(map), NEW item \in PlacedItems,
         item.type = map[i].type, map[i].upgrade <= item.upgrade,
         item.type \in OfKind["building"] => item.upgrade \in DOMAIN Upgrades[item.type]
  PROVE  LET new == [map EXCEPT ![i] = item]
         IN  new \in Maps /\ Upgraded(new) /\ Grown(map, new)
<1> DEFINE new == [map EXCEPT ![i] = item]
<1>1. i \in Ids /\ item # Free /\ item # Gone /\ map[i] # Free /\ map[i] # Gone
  BY IdsAssumption DEF Standing
<1>2. new \in Maps /\ new[i] = item /\ \A j \in Ids \ {i} : new[j] = map[j]
  BY <1>1 DEF Maps
<1> HIDE DEF new
<1>3. ASSUME NEW j \in Of(new, OfKind["building"])
      PROVE  new[j].upgrade \in DOMAIN Upgrades[new[j].type]
  <2>1. j \in Ids /\ new[j].type \in OfKind["building"]
    BY DEF Of, Standing
  <2>2. CASE j = i
    BY <1>2, <2>1, <2>2
  <2>3. CASE j # i
    <3>1. new[j] = map[j] /\ j \in Of(map, OfKind["building"])
      BY <1>2, <2>1, <2>3 DEF Of, Standing
    <3> QED BY <3>1 DEF Upgraded
  <2> QED BY <2>2, <2>3
<1>4. Upgraded(new)
  BY <1>3 DEF Upgraded
<1>5. \A j \in Standing(map) : map[j].upgrade \in Nat
  BY StandingItem
<1>6. Grown(map, new)
  BY <1>1, <1>2, <1>5 DEF Grown, Standing
<1> QED BY <1>2, <1>4, <1>6 DEF new

LEMMA AtFields ==
  ASSUME NEW item \in PlacedItems, NEW place \in Places
  PROVE  /\ At(item, place) \in PlacedItems
         /\ At(item, place).type = item.type /\ At(item, place).upgrade = item.upgrade
         /\ [At(item, place) EXCEPT !.stored = FALSE] \in PlacedItems
         /\ [At(item, place) EXCEPT !.stored = FALSE].type = item.type
         /\ [At(item, place) EXCEPT !.stored = FALSE].upgrade = item.upgrade
<1>1. place[1] \in Int /\ place[2] \in Int
  BY EstateAssumption
<1> DEFINE x == place[1]
           y == place[2]
           at == [item EXCEPT !.x = x, !.y = y]
<1> HIDE DEF x, y
<1>2. at \in PlacedItems /\ at.type = item.type /\ at.upgrade = item.upgrade
  <2>1. x \in Int /\ y \in Int
    BY <1>1 DEF x, y
  <2>2. /\ DOMAIN at = {"type", "x", "y", "upgrade", "stored", "nft"}
        /\ at = [f \in DOMAIN at |-> at[f]]
        /\ at.type = item.type /\ at.x = x /\ at.y = y /\ at.upgrade = item.upgrade
        /\ at.stored = item.stored /\ at.nft = item.nft
    BY DEF PlacedItems
  <2>3. /\ item.type \in PlacedItemTypes /\ item.upgrade \in Nat
        /\ item.stored \in BOOLEAN /\ item.nft \in BOOLEAN
    BY DEF PlacedItems
  <2> HIDE DEF at
  <2> QED BY <2>1, <2>2, <2>3 DEF PlacedItems
<1>3. At(item, place) = at
  BY DEF At, x, y
<1> HIDE DEF at
<1>4. LET shown == [at EXCEPT !.stored = FALSE]
      IN  shown \in PlacedItems /\ shown.type = at.type /\ shown.upgrade = at.upgrade
  BY <1>2 DEF PlacedItems
<1> QED BY <1>2, <1>3, <1>4

\* A standing item of a snapshot, wherever it is put.
LEMMA PlacedAnew ==
  ASSUME EstateInv, NEW d \in Devices, txn[d] # NoTxn, NEW i \in Standing(txn[d].placed),
         NEW item \in PlacedItems, item.type = txn[d].placed[i].type,
         item.upgrade = txn[d].placed[i].upgrade,
         Commit(d, txn[d].user, [txn[d].placed EXCEPT ![i] = item], NoOffer),
         claims' = claims
  PROVE  EstateInv' /\ Enriching /\ Housing
<1> DEFINE map == txn[d].placed
           new == [map EXCEPT ![i] = item]
<1>1. map \in Maps /\ Upgraded(map) /\ txn[d].user \in Users
  BY SnapshotOf
<1>2. map[i].upgrade \in Nat
  BY <1>1, StandingItem
<1>3. item.type \in OfKind["building"] => item.upgrade \in DOMAIN Upgrades[item.type]
  <2>1. i \in Standing(map) /\ item.type = map[i].type /\ item.upgrade = map[i].upgrade
    OBVIOUS
  <2> HIDE DEF map
  <2> QED BY <1>1, <2>1 DEF Upgraded, Of
<1> HIDE DEF map
<1>4. new \in Maps /\ Upgraded(new) /\ Grown(map, new)
  BY <1>1, <1>2, <1>3, Replaced DEF map
<1> HIDE DEF new
<1>5. Commit(d, txn[d].user, new, NoOffer)
  BY DEF new, map
<1>6. txn[d].user.golds <= txn[d].user.golds
  BY <1>1, UserFields
<1> QED BY <1>1, <1>4, <1>5, <1>6, QuietStep DEF map

LEMMA PlacementSteps ==
  ASSUME EstateInv, NEW d \in Devices, Move(d) \/ PlaceNFT(d)
  PROVE  EstateInv' /\ Enriching /\ Housing
<1>1. txn[d] # NoTxn /\ claims' = claims
  BY DEF Move, PlaceNFT
<1>2. ASSUME NEW i \in Standing(txn[d].placed)
      PROVE  txn[d].placed[i] \in PlacedItems /\ i \in DOMAIN txn[d].placed
  BY <1>1, SnapshotOf, StandingItem DEF Maps
<1>3. CASE Move(d)
  <2>1. PICK i \in Standing(txn[d].placed), place \in Places :
          Commit(d, txn[d].user, [txn[d].placed EXCEPT ![i] = At(@, place)], NoOffer)
    BY <1>3 DEF Move
  <2> DEFINE item == At(txn[d].placed[i], place)
  <2>2. /\ item \in PlacedItems /\ item.type = txn[d].placed[i].type
        /\ item.upgrade = txn[d].placed[i].upgrade
    BY <1>2, AtFields
  <2>3. Commit(d, txn[d].user, [txn[d].placed EXCEPT ![i] = item], NoOffer)
    BY <2>1
  <2> HIDE DEF item
  <2> QED BY <1>1, <2>2, <2>3, PlacedAnew
<1>4. CASE PlaceNFT(d)
  <2>1. PICK i \in Standing(txn[d].placed), place \in Places :
          Commit(d, txn[d].user,
                 [txn[d].placed EXCEPT
                    ![i] = [At(txn[d].placed[i], place) EXCEPT !.stored = FALSE]], NoOffer)
    BY <1>4 DEF PlaceNFT
  <2> DEFINE item == [At(txn[d].placed[i], place) EXCEPT !.stored = FALSE]
  <2>2. /\ item \in PlacedItems /\ item.type = txn[d].placed[i].type
        /\ item.upgrade = txn[d].placed[i].upgrade
    BY <1>2, AtFields
  <2>3. Commit(d, txn[d].user, [txn[d].placed EXCEPT ![i] = item], NoOffer)
    BY <2>1
  <2> HIDE DEF item
  <2> QED BY <1>1, <2>2, <2>3, PlacedAnew
<1> QED BY <1>3, <1>4

\* At least as high a level, for gold or for nothing.
LEMMA UpgradeBuildingStep ==
  ASSUME EstateInv, NEW d \in Devices, UpgradeBuilding(d)
  PROVE  EstateInv' /\ Enriching /\ Housing
<1> DEFINE map == txn[d].placed
           u == txn[d].user
<1>1. PICK i \in Of(map, OfKind["building"]) :
        /\ map[i].upgrade + 1 <= Len(Upgrades[map[i].type])
        /\ CanAfford(u, Upgrades[map[i].type][map[i].upgrade + 1].price)
        /\ Commit(d, [u EXCEPT !.golds =
                        Charge(@, Upgrades[map[i].type][map[i].upgrade + 1].price)],
                  [map EXCEPT ![i].upgrade = map[i].upgrade + 1], NoOffer)
  BY DEF UpgradeBuilding
<1>2. txn[d] # NoTxn /\ claims' = claims
  BY DEF UpgradeBuilding
<1>3. map \in Maps /\ Upgraded(map) /\ u \in Users
  BY <1>2, SnapshotOf
<1> HIDE DEF map, u
<1> DEFINE type == map[i].type
           n == map[i].upgrade
           levels == Upgrades[type]
           price == levels[n + 1].price
           item == [map[i] EXCEPT !.upgrade = n + 1]
           new == [map EXCEPT ![i] = item]
           newUser == [u EXCEPT !.golds = Charge(@, price)]
<1>4. /\ i \in Standing(map) /\ type \in OfKind["building"] /\ n \in Nat
      /\ n \in DOMAIN levels /\ map[i] \in PlacedItems /\ i \in DOMAIN map
  <2>1. i \in Standing(map) /\ type \in OfKind["building"] /\ n \in DOMAIN levels
    BY <1>3 DEF Of, Upgraded
  <2> QED BY <1>3, <2>1, StandingItem DEF Maps
<1>5. n + 1 \in DOMAIN levels /\ price \in Nat
  <2> DEFINE Levels == [price : Nat, capacity : Nat]
  <2>1. levels \in Seq(Levels)
    BY <1>4, EstateAssumption
  <2>2. n + 1 <= Len(levels)
    BY <1>1
  <2> HIDE DEF levels, n, Levels
  <2>3. n + 1 \in DOMAIN levels /\ levels[n + 1] \in Levels
    BY <1>4, <2>1, <2>2
  <2> QED BY <2>3 DEF Levels
<1>6. CanAfford(u, price) /\ Commit(d, newUser, new, NoOffer)
  BY <1>1
<1>7. u.golds >= price /\ u.golds \in Nat
  BY <1>3, <1>6, UserFields DEF CanAfford
<1>8. item \in PlacedItems /\ item.type = type /\ item.upgrade = n + 1
  BY <1>4 DEF PlacedItems
<1> HIDE DEF item
<1>9. new \in Maps /\ Upgraded(new) /\ Grown(map, new)
  <2>1. map[i].upgrade <= item.upgrade
    BY <1>4, <1>8
  <2>2. item.type \in OfKind["building"] => item.upgrade \in DOMAIN Upgrades[item.type]
    BY <1>5, <1>8
  <2> QED BY <1>3, <1>4, <1>8, <2>1, <2>2, Replaced
<1> HIDE DEF new, price
<1>10. /\ newUser \in Users /\ newUser.golds <= u.golds
       /\ newUser.streak = u.streak /\ newUser.lastClaim = u.lastClaim
  BY <1>3, <1>5, <1>7 DEF Users, Charge
<1> HIDE DEF newUser
<1> QED BY <1>2, <1>3, <1>6, <1>9, <1>10, QuietStep DEF map, u

\* A user document with other pets or settings.
LEMMA SettingSteps ==
  ASSUME EstateInv, NEW d \in Devices,
         SelectDog(d) \/ SelectCat(d) \/ UpdateSettings(d) \/ UpdateTutorial(d)
  PROVE  EstateInv' /\ Enriching /\ Housing
<1> DEFINE u == txn[d].user
<1>1. txn[d] # NoTxn /\ claims' = claims
  BY DEF SelectDog, SelectCat, UpdateSettings, UpdateTutorial
<1>2. txn[d].placed \in Maps /\ Upgraded(txn[d].placed) /\ u \in Users
  BY <1>1, SnapshotOf
<1>3. Grown(txn[d].placed, txn[d].placed)
  <2>1. \A i \in Standing(txn[d].placed) : txn[d].placed[i].upgrade \in Nat
    BY <1>2, StandingItem
  <2> QED BY <2>1 DEF Grown
<1>4. ASSUME NEW newUser, newUser \in Users, newUser.golds = u.golds,
             newUser.streak = u.streak, newUser.lastClaim = u.lastClaim,
             Commit(d, newUser, txn[d].placed, NoOffer)
      PROVE  EstateInv' /\ Enriching /\ Housing
  <2>1. newUser.golds <= u.golds
    BY <1>2, <1>4, UserFields
  <2> QED BY <1>1, <1>2, <1>3, <1>4, <2>1, QuietStep
<1>5. CASE SelectDog(d)
  <2>1. PICK i \in Of(txn[d].placed, Dogs) :
          Commit(d, [u EXCEPT !.dog = i], txn[d].placed, NoOffer)
    BY <1>5 DEF SelectDog
  <2> DEFINE newUser == [u EXCEPT !.dog = i]
  <2>2. i \in Ids
    BY CountType
  <2> HIDE DEF u
  <2>3. /\ newUser \in Users /\ newUser.golds = u.golds
        /\ newUser.streak = u.streak /\ newUser.lastClaim = u.lastClaim
    BY <1>2, <2>2 DEF Users
  <2>4. Commit(d, newUser, txn[d].placed, NoOffer)
    BY <2>1
  <2> HIDE DEF newUser
  <2> QED BY <1>4, <2>3, <2>4
<1>6. CASE SelectCat(d)
  <2>1. PICK i \in Of(txn[d].placed, Cats) :
          Commit(d, [u EXCEPT !.cat = i], txn[d].placed, NoOffer)
    BY <1>6 DEF SelectCat
  <2> DEFINE newUser == [u EXCEPT !.cat = i]
  <2>2. i \in Ids
    BY CountType
  <2> HIDE DEF u
  <2>3. /\ newUser \in Users /\ newUser.golds = u.golds
        /\ newUser.streak = u.streak /\ newUser.lastClaim = u.lastClaim
    BY <1>2, <2>2 DEF Users
  <2>4. Commit(d, newUser, txn[d].placed, NoOffer)
    BY <2>1
  <2> HIDE DEF newUser
  <2> QED BY <1>4, <2>3, <2>4
<1>7. CASE UpdateSettings(d)
  <2>1. PICK sound \in Volumes :
          Commit(d, [u EXCEPT !.sound = sound], txn[d].placed, NoOffer)
    BY <1>7 DEF UpdateSettings
  <2> DEFINE newUser == [u EXCEPT !.sound = sound]
  <2> HIDE DEF u
  <2>2. /\ newUser \in Users /\ newUser.golds = u.golds
        /\ newUser.streak = u.streak /\ newUser.lastClaim = u.lastClaim
    BY <1>2 DEF Users
  <2>3. Commit(d, newUser, txn[d].placed, NoOffer)
    BY <2>1
  <2> HIDE DEF newUser
  <2> QED BY <1>4, <2>2, <2>3
<1>8. CASE UpdateTutorial(d)
  <2>1. PICK steps \in SUBSET Steps :
          Commit(d, [u EXCEPT !.tutorial = @ \cup steps], txn[d].placed, NoOffer)
    BY <1>8 DEF UpdateTutorial
  <2> DEFINE newUser == [u EXCEPT !.tutorial = @ \cup steps]
  <2> HIDE DEF u
  <2>2. /\ newUser \in Users /\ newUser.golds = u.golds
        /\ newUser.streak = u.streak /\ newUser.lastClaim = u.lastClaim
    BY <1>2 DEF Users
  <2>3. Commit(d, newUser, txn[d].placed, NoOffer)
    BY <2>1 DEF u
  <2> HIDE DEF newUser
  <2> QED BY <1>4, <2>2, <2>3
<1> QED BY <1>5, <1>6, <1>7, <1>8

-----------------------------------------------------------------------------
(* The daily reward.                                                       *)

LEMMA RewardType ==
  ASSUME NEW streak \in Nat
  PROVE  Reward(streak) \in Nat
<1>1. \A n \in 1 .. 5 : DailyRewards[n] \in Nat
  BY EstateAssumption
<1>2. 5 \in 1 .. 5 /\ (~ (streak >= 4) => streak + 1 \in 1 .. 5)
  OBVIOUS
<1> QED BY <1>1, <1>2 DEF Reward

LEMMA RewardedFields ==
  ASSUME NEW u \in Users, NEW day \in Nat
  PROVE  /\ Rewarded(u, day) \in Users /\ Rewarded(u, day).lastClaim = day
         /\ Rewarded(u, day).streak = u.streak + 1
         /\ Rewarded(u, day).golds = u.golds + Reward(u.streak + 1)
<1> DEFINE r == Reward(u.streak + 1)
           new == [u EXCEPT !.lastClaim = day, !.streak = @ + 1, !.golds = @ + r]
<1>1. Rewarded(u, day) = new
  BY DEF Rewarded
<1>2. /\ u.golds \in Nat /\ u.dog \in Ids \cup {NoPet} /\ u.cat \in Ids \cup {NoPet}
      /\ u.streak \in Nat /\ u.sound \in Volumes /\ u.tutorial \in SUBSET Steps
  BY UserFields
<1>3. r \in Nat
  BY <1>2, RewardType
<1> HIDE DEF r
<1>4. /\ DOMAIN new = {"golds", "dog", "cat", "streak", "lastClaim", "sound", "tutorial"}
      /\ new = [x \in DOMAIN new |-> new[x]]
      /\ new.golds = u.golds + r /\ new.streak = u.streak + 1 /\ new.lastClaim = day
      /\ new.dog = u.dog /\ new.cat = u.cat /\ new.sound = u.sound
      /\ new.tutorial = u.tutorial
  BY DEF Users
<1> HIDE DEF new
<1>5. new.golds \in Nat /\ new.streak \in Nat
  BY <1>2, <1>3, <1>4
<1>6. new \in Users
  BY <1>2, <1>4, <1>5, UsersByField
<1> QED BY <1>1, <1>4, <1>6 DEF r

\* The day of the last reward is past, so there was at most one for every day so far.
LEMMA ClaimStep ==
  ASSUME EstateInv, NEW d \in Devices, ClaimDailyReward(d)
  PROVE  EstateInv' /\ Enriching /\ Housing
<1> DEFINE u == txn[d].user
<1>0. PICK now \in txn[d].today .. today :
        /\ u.lastClaim # now
        /\ Commit(d, Rewarded(u, now), txn[d].placed, NoOffer)
  BY DEF ClaimDailyReward, MayClaim
<1> DEFINE newUser == Rewarded(u, now)
<1>1. /\ txn[d] # NoTxn /\ u.lastClaim # now /\ claims' = claims + 1
      /\ Commit(d, newUser, txn[d].placed, NoOffer)
  BY <1>0 DEF ClaimDailyReward
<1>2. /\ txn[d].placed \in Maps /\ Upgraded(txn[d].placed) /\ u \in Users
      /\ today \in Nat /\ claims \in Nat
      /\ now \in Nat /\ now <= today /\ u.lastClaim <= now
  <2>1. txn[d].placed \in Maps /\ Upgraded(txn[d].placed) /\ u \in Users
    BY <1>1, SnapshotOf
  <2>2. today \in Nat /\ claims \in Nat
    BY EstateAssumption DEF EstateInv, TypeOK
  <2>3. txn[d].today \in 1 .. today /\ u.lastClaim <= txn[d].today
    BY <1>1 DEF EstateInv, TypeOK, SnapshotsAgree
  <2>4. u.lastClaim \in Nat
    BY <2>1, UserFields
  <2> QED BY <1>0, <2>1, <2>2, <2>3, <2>4
<1>3. Grown(txn[d].placed, txn[d].placed)
  <2>1. \A i \in Standing(txn[d].placed) : txn[d].placed[i].upgrade \in Nat
    BY <1>2, StandingItem
  <2> QED BY <2>1 DEF Grown
<1>4. /\ newUser \in Users /\ newUser.lastClaim = now
      /\ newUser.streak = u.streak + 1
      /\ newUser.golds = u.golds + Reward(u.streak + 1)
  BY <1>2, RewardedFields
<1>5. u.streak \in Nat /\ u.golds \in Nat /\ u.lastClaim \in Nat
  BY <1>2, UserFields
<1>6. newUser # u
  BY <1>4, <1>5
<1> HIDE DEF newUser, u
<1>7. TypeOK' /\ SnapshotsAgree' /\ placed' \in Maps /\ Upgraded(placed')
  BY <1>1, <1>2, <1>3, <1>4, CommitTypes
<1>8. /\ user = u /\ user' = newUser /\ today' = today /\ offer' = NoOffer
      /\ Grown(placed, placed')
  BY <1>1, <1>3, <1>6, CommitLands, CommitGrown DEF u
<1>9. LimitsKept' /\ Housing /\ SellValue(placed') = SellValue(placed)
  BY <1>7, <1>8, GrownStep
<1>10. RewardsApart'
  BY <1>1, <1>2, <1>4, <1>5, <1>8 DEF EstateInv, RewardsApart
<1>11. AnswersAreHonest'
  BY <1>8 DEF AnswersAreHonest
<1>12. Enriching
  <2> DEFINE r == Reward(u.streak + 1)
             v == SellValue(placed)
  <2>1. r \in Nat /\ v \in Int
    BY <1>5, RewardType, WorthType
  <2>2. Worth = u.golds + v /\ Worth' = (u.golds + r) + v /\ Reward(user'.streak) = r
    BY <1>4, <1>8, <1>9 DEF Worth
  <2>3. claims' # claims
    BY <1>1, <1>2
  <2> HIDE DEF r, v
  <2>4. Worth' <= Worth + r
    BY <1>5, <2>1, <2>2
  <2> QED BY <2>2, <2>3, <2>4 DEF Enriching
<1> QED BY <1>7, <1>9, <1>10, <1>11, <1>12 DEF EstateInv

-----------------------------------------------------------------------------
(* Sales.                                                                  *)

LEMMA SellStep ==
  ASSUME EstateInv, NEW d \in Devices, Sell(d)
  PROVE  EstateInv' /\ Enriching /\ Housing
<1> DEFINE map == txn[d].placed
           u == txn[d].user
<1>1. PICK i \in Standing(map) :
        /\ map[i].type \in Sellable /\ SellPrice[map[i].type] > 0
        /\ Commit(d, [u EXCEPT !.golds = @ + SellPrice[map[i].type]],
                  [map EXCEPT ![i] = Gone], NoOffer)
  BY DEF Sell
<1>2. txn[d] # NoTxn /\ claims' = claims
  BY DEF Sell
<1>3. /\ map \in Maps /\ Upgraded(map) /\ u \in Users
      /\ user \in Users /\ placed \in Maps /\ Upgraded(placed) /\ claims \in Nat
  BY <1>2, SnapshotOf DEF EstateInv, TypeOK
<1> HIDE DEF map, u
<1> DEFINE type == map[i].type
           price == SellPrice[type]
           newUser == [u EXCEPT !.golds = @ + price]
           new == [map EXCEPT ![i] = Gone]
<1>4. /\ i \in Ids /\ i \in DOMAIN map /\ map[i] # Gone
      /\ type \in PlacedItemTypes /\ map[i] \in PlacedItems
  BY <1>3, StandingItem DEF Standing, Maps
<1>5. price \in Nat /\ price > 0 /\ type \in Sellable
  BY <1>1, <1>4, EstateAssumption
<1>6. Commit(d, newUser, new, NoOffer)
  BY <1>1
<1>7. new \in Maps /\ new[i] = Gone /\ \A j \in Ids \ {i} : new[j] = map[j]
  BY <1>3, <1>4 DEF Maps
<1>8. u.golds \in Nat
  BY <1>3, UserFields
<1> HIDE DEF new, price
<1>9. /\ newUser \in Users /\ newUser.golds = u.golds + price
      /\ newUser.streak = u.streak /\ newUser.lastClaim = u.lastClaim
  BY <1>3, <1>5, <1>8 DEF Users
<1> HIDE DEF newUser
<1>10. newUser # u
  BY <1>5, <1>8, <1>9
<1>11. Upgraded(new)
  <2>1. ASSUME NEW j \in Of(new, OfKind["building"])
        PROVE  new[j].upgrade \in DOMAIN Upgrades[new[j].type]
    <3>1. j \in Ids /\ j # i
      BY <1>7 DEF Of, Standing
    <3>2. new[j] = map[j] /\ j \in Of(map, OfKind["building"])
      BY <1>7, <3>1 DEF Of, Standing
    <3> QED BY <1>3, <3>2 DEF Upgraded
  <2> QED BY <2>1 DEF Upgraded
<1>12. TypeOK' /\ SnapshotsAgree' /\ placed' \in Maps /\ Upgraded(placed')
  BY <1>2, <1>3, <1>6, <1>7, <1>9, <1>10, <1>11, CommitTypes DEF u
<1>13. /\ user = u /\ user' = newUser /\ today' = today /\ offer' = NoOffer
       /\ placed[i] = map[i] /\ placed'[i] = Gone
       /\ \A j \in Ids \ {i} : placed'[j] = placed[j]
  BY <1>2, <1>4, <1>6, <1>7, <1>10, CommitLands DEF map, u
<1>14. Added(placed', placed, i) /\ placed[i].type = type
  BY <1>1, <1>4, <1>13 DEF Added, Standing
<1> HIDE DEF type
<1>15. ASSUME NEW types
       PROVE  /\ Count(placed', types) <= Count(placed, types)
              /\ Count(placed', types) \in Nat /\ Count(placed, types) \in Nat
              /\ type \notin types => Of(placed', types) = Of(placed, types)
  <2>1. /\ Of(placed, types) = Of(placed', types) \cup (IF type \in types THEN {i} ELSE {})
        /\ Count(placed, types) = Count(placed', types) + (IF type \in types THEN 1 ELSE 0)
    BY <1>14, AddedOf
  <2>2. Count(placed', types) \in Nat /\ Count(placed, types) \in Nat
    BY CountType
  <2> QED BY <2>1, <2>2
<1>16. Housing
  BY <1>15 DEF Housing
<1>17. LimitsKept'
  <2>1. WithinLimits(placed)
    BY DEF EstateInv, LimitsKept
  <2>2. ASSUME NEW t \in OfKind["tile"] PROVE Count(placed', {t}) <= LandLimit.tileLimit
    <3>1. Count(placed, {t}) <= LandLimit.tileLimit /\ LandLimit.tileLimit \in Nat
      BY <2>1, EstateAssumption DEF WithinLimits
    <3> QED BY <1>15, <3>1
  <2>3. ASSUME NEW t \in OfKind["building"]
        PROVE  Count(placed', {t}) <= SameBuildingLimit(t)
    <3>1. Count(placed, {t}) <= SameBuildingLimit(t)
      BY <2>1 DEF WithinLimits
    <3>2. SameBuildingLimit(t) \in Nat
      BY EstateAssumption DEF SameBuildingLimit
    <3> QED BY <1>15, <3>1, <3>2
  <2>4. ASSUME NEW t \in OfKind["pet"]
        PROVE  Count(placed', {t}) <= Capacity(placed', Houses[t])
    <3> DEFINE house == Houses[t]
    <3>1. house \in OfKind["building"] /\ house \notin Sellable
      BY EstateAssumption
    <3> HIDE DEF house
    <3>2. Of(placed', {house}) = Of(placed, {house})
      BY <1>5, <1>15, <3>1
    <3>3. \A j \in Of(placed, {house}) : placed[j].upgrade <= placed'[j].upgrade
      <4>1. ASSUME NEW j \in Of(placed, {house})
            PROVE  placed[j].upgrade <= placed'[j].upgrade
        <5>1. j # i /\ j \in Ids /\ j \in Standing(placed)
          BY <1>5, <1>14, <3>1 DEF Of, Standing
        <5>2. placed'[j] = placed[j] /\ placed[j].upgrade \in Nat
          BY <1>3, <1>13, <5>1, StandingItem
        <5> QED BY <5>2
      <4> QED BY <4>1
    <3>4. Capacity(placed, house) <= Capacity(placed', house)
      BY <1>3, <1>12, <3>1, <3>2, <3>3, CapacityGrows
    <3>5. Capacity(placed, house) \in Int /\ Capacity(placed', house) \in Int
      BY <1>3, <1>12, <3>1, CapacityType
    <3>6. Count(placed, {t}) <= Capacity(placed, house)
      BY <2>1 DEF WithinLimits, house
    <3>7. Count(placed', {t}) <= Capacity(placed', house)
      BY <1>15, <3>4, <3>5, <3>6
    <3> QED BY <3>7 DEF house
  <2> QED BY <2>2, <2>3, <2>4 DEF LimitsKept, WithinLimits
<1>18. RewardsApart'
  BY <1>2, <1>9, <1>13 DEF EstateInv, RewardsApart
<1>19. AnswersAreHonest'
  BY <1>13 DEF AnswersAreHonest
<1>20. Enriching
  <2>1. SellValue(placed) = SellValue(placed') + price
    BY <1>3, <1>5, <1>12, <1>14, SellValueAdded DEF price
  <2>2. SellValue(placed') \in Int
    BY <1>12, SellValueType
  <2>3. Worth = u.golds + SellValue(placed)
        /\ Worth' = (u.golds + price) + SellValue(placed')
    BY <1>9, <1>13 DEF Worth
  <2> DEFINE v == SellValue(placed')
  <2>4. Worth = u.golds + (v + price) /\ Worth' = (u.golds + price) + v /\ v \in Int
    BY <2>1, <2>2, <2>3
  <2> HIDE DEF v
  <2>5. Worth' <= Worth
    BY <1>5, <1>8, <2>4
  <2>6. Worth \in Int
    BY <1>5, <1>8, <2>4
  <2> QED BY <1>2, <2>5, <2>6 DEF Enriching
<1> QED BY <1>12, <1>16, <1>17, <1>18, <1>19, <1>20 DEF EstateInv

-----------------------------------------------------------------------------
(* Purchases.                                                              *)

\* What may still be bought may be bought of a farm whose buildings are no lower.
LEMMA WithinGrown ==
  ASSUME NEW old \in Maps, NEW new \in Maps, Upgraded(old), Upgraded(new),
         Grown(old, new), NEW type \in PlacedItemTypes, Kind[type] # "fruit",
         WithinLimit(old, type)
  PROVE  WithinLimit(new, type)
<1>1. Count(new, {type}) = Count(old, {type}) /\ Count(old, {type}) \in Nat
  BY GrownOf, CountType
<1>2. CASE Kind[type] \in {"animal", "pet"}
  <2> DEFINE house == Houses[type]
  <2>1. house \in OfKind["building"]
    BY <1>2, KindsApart, PetHouses
  <2>2. Count(old, {type}) < Capacity(old, house)
    BY <1>2 DEF WithinLimit
  <2> HIDE DEF house
  <2>3. Of(new, {house}) = Of(old, {house})
    BY GrownOf
  <2>4. \A i \in Of(old, {house}) : old[i].upgrade <= new[i].upgrade
    BY DEF Grown, Of, Standing
  <2>5. Capacity(old, house) <= Capacity(new, house)
    BY <2>1, <2>3, <2>4, CapacityGrows
  <2>6. Capacity(old, house) \in Int /\ Capacity(new, house) \in Int
    BY <2>1, CapacityType
  <2>7. Count(new, {type}) < Capacity(new, house)
    BY <1>1, <2>2, <2>5, <2>6
  <2> QED BY <1>2, <2>7 DEF WithinLimit, house
<1>3. CASE Kind[type] \notin {"animal", "pet", "fruit"}
  BY <1>1, <1>3 DEF WithinLimit
<1> QED BY <1>2, <1>3

\* The limits an answer is computed with allow no more than those a purchase checks.
LEMMA AnswersAllowNoMore ==
  ASSUME NEW map \in Maps, placed \in Maps, Upgraded(placed), NEW type \in PlacedItemTypes,
         Kind[type] # "fruit", NEW house \in HousesAsked(type), NEW newUser,
         ~ StopBuying(newUser, map, type, house)
  PROVE  /\ ~ (newUser.golds < Price[type])
         /\ IF Kind[type] = "pet" THEN Count(map, {type}) < Capacity(placed, Houses[type])
            ELSE WithinLimit(map, type)
<1>1. ~ (newUser.golds < Price[type])
  BY DEF StopBuying
<1>2. CASE Kind[type] = "tile"
  <2>1. Count(map, OfKind["tile"]) < LandLimit.tileLimit
    BY <1>2 DEF StopBuying, GetTileLimit
  <2>2. {type} \subseteq OfKind["tile"]
    BY <1>2, KindsApart
  <2>3. Count(map, {type}) <= Count(map, OfKind["tile"])
    BY <2>2, CountMore
  <2>4. /\ Count(map, {type}) \in Nat /\ Count(map, OfKind["tile"]) \in Nat
        /\ LandLimit.tileLimit \in Nat
    BY CountType, EstateAssumption
  <2>5. Count(map, {type}) < LandLimit.tileLimit
    BY <2>1, <2>3, <2>4
  <2> QED BY <1>1, <1>2, <2>5 DEF WithinLimit
<1>3. CASE Kind[type] = "building"
  BY <1>1, <1>3 DEF StopBuying, GetBuildingLimit, WithinLimit
<1>4. CASE Kind[type] = "animal"
  BY <1>1, <1>4 DEF StopBuying, GetAnimalLimit, WithinLimit
<1>5. CASE Kind[type] = "pet"
  <2> DEFINE pets == IF type \in Dogs THEN Dogs ELSE Cats
  <2>1. house # NoPet /\ Count(map, pets) < CapacityOf(placed, house)
    BY <1>5 DEF StopBuying, GetPetLimit
  <2>2. house \in Of(placed, {Houses[type]})
    BY <1>5, <2>1 DEF HousesAsked
  <2>3. type \in OfKind["pet"] /\ Houses[type] \in OfKind["building"]
    BY <1>5, KindsApart, PetHouses
  <2>4. {type} \subseteq pets
    BY <2>3, EstateAssumption
  <2> HIDE DEF pets
  <2>5. Count(map, {type}) <= Count(map, pets)
    BY <2>4, CountMore
  <2>6. CapacityOf(placed, house) <= Capacity(placed, Houses[type])
    BY <2>2, <2>3, CapacityOfOne
  <2>7. CapacityOf(placed, house) \in Nat /\ Capacity(placed, Houses[type]) \in Int
    BY <2>2, <2>3, CapacityOfType, CapacityType
  <2>8. Count(map, {type}) \in Nat /\ Count(map, pets) \in Nat
    BY CountType
  <2>9. Count(map, {type}) < Capacity(placed, Houses[type])
    BY <2>1, <2>5, <2>6, <2>7, <2>8
  <2> QED BY <1>1, <1>5, <2>9
<1>6. CASE Kind[type] \notin {"tile", "building", "fruit", "animal", "pet"}
  BY <1>1, <1>6 DEF WithinLimit
<1> QED BY <1>2, <1>3, <1>4, <1>5, <1>6

LEMMA NewItem ==
  ASSUME NEW type \in AvailableInShop, NEW place \in Places
  PROVE  LET item == NewPlacedItem(type, place)
         IN  /\ item \in PlacedItems /\ item.type = type
             /\ type \in OfKind["building"] => item.upgrade \in DOMAIN Upgrades[type]
<1>1. place[1] \in Int /\ place[2] \in Int /\ type \in PlacedItemTypes
  BY EstateAssumption
<1>2. ASSUME type \in OfKind["building"] PROVE 1 \in DOMAIN Upgrades[type]
  <2> DEFINE levels == Upgrades[type]
             Levels == [price : Nat, capacity : Nat]
  <2>1. levels \in Seq(Levels) /\ levels # <<>>
    BY <1>2, EstateAssumption
  <2> HIDE DEF levels, Levels
  <2>2. 1 \in DOMAIN levels
    BY <2>1
  <2> QED BY <2>2 DEF levels
<1>3. type \in OfKind["building"] <=> Kind[type] = "building"
  BY <1>1, KindsApart DEF Kinds
<1> QED BY <1>1, <1>2, <1>3 DEF NewPlacedItem, PlacedItems

\* A purchase leaves one item more on a farm that is otherwise as the handler saw it,
\* but for the places of items and the levels of buildings.
LEMMA BuyStep ==
  ASSUME EstateInv, NEW d \in Devices, NEW type, Buy(d, type), type \in PlacedItemTypes
  PROVE  EstateInv' /\ Enriching /\ Housing
<1> DEFINE map == txn[d].placed
           u == txn[d].user
           charged == [u EXCEPT !.golds = Charge(@, Price[type])]
           With(i, place) == [map EXCEPT ![i] = NewPlacedItem(type, place)]
<1>1. PICK i \in Ids, place \in Places :
        /\ placed[i] = Free /\ map[i] = Free
        /\ \E house \in HousesAsked(type) :
             Commit(d, charged, With(i, place),
                    IF StopBuying(charged, With(i, place), type, house) THEN NoOffer
                    ELSE type)
  <2>1. PICK i \in Ids, place \in Places :
          /\ placed[i] = Free /\ map[i] = Free
          /\ \E newUser \in {charged}, newPlaced \in {With(i, place)} :
               \E house \in HousesAsked(type) :
                 Commit(d, newUser, newPlaced,
                        IF StopBuying(newUser, newPlaced, type, house) THEN NoOffer ELSE type)
    BY DEF Buy
  <2> QED BY <2>1
<1>2. /\ txn[d] # NoTxn /\ claims' = claims /\ type \in AvailableInShop
      /\ CanAfford(u, Price[type]) /\ WithinLimit(map, type)
  BY DEF Buy
<1>3. /\ map \in Maps /\ Upgraded(map) /\ u \in Users
      /\ user \in Users /\ placed \in Maps /\ Upgraded(placed) /\ claims \in Nat
  BY <1>2, SnapshotOf DEF EstateInv, TypeOK
<1> DEFINE item == NewPlacedItem(type, place)
           new == [map EXCEPT ![i] = item]
           newUser == [u EXCEPT !.golds = Charge(@, Price[type])]
<1>4. PICK house \in HousesAsked(type) :
        Commit(d, newUser, new,
               IF StopBuying(newUser, new, type, house) THEN NoOffer ELSE type)
  BY <1>1
<1>5. map[i] = Free /\ placed[i] = Free /\ i \in Ids
  BY <1>1
<1> HIDE DEF map, u, charged, With
<1> DEFINE price == Price[type]
           newOffer == IF StopBuying(newUser, new, type, house) THEN NoOffer ELSE type
<1>6. /\ item \in PlacedItems /\ item.type = type
      /\ type \in OfKind["building"] => item.upgrade \in DOMAIN Upgrades[type]
  BY <1>2, NewItem
<1> HIDE DEF item
<1>7. price \in Nat /\ price > 0 /\ u.golds \in Nat /\ u.golds >= price
  BY <1>2, <1>3, UserFields, EstateAssumption DEF CanAfford
<1>8. new \in Maps /\ new[i] = item /\ \A j \in Ids \ {i} : new[j] = map[j]
  BY <1>3, <1>5, <1>6 DEF Maps
<1> HIDE DEF new
<1>9. /\ newUser \in Users /\ newUser.golds = u.golds - price
      /\ newUser.streak = u.streak /\ newUser.lastClaim = u.lastClaim
  <2> HIDE DEF price
  <2>1. newUser = [u EXCEPT !.golds = @ - price]
    BY DEF Charge, price
  <2> HIDE DEF newUser
  <2> QED BY <1>3, <1>7, <2>1 DEF Users
<1>10. newOffer \in AvailableInShop \cup {NoOffer}
  BY <1>2
<1>11. /\ Commit(d, newUser, new, newOffer)
       /\ newOffer = NoOffer \/ (newOffer = type /\ ~ StopBuying(newUser, new, type, house))
       /\ newUser.golds < price \/ ~ (newUser.golds < Price[type])
  BY <1>4
<1> HIDE DEF newUser, newOffer, price
<1>12. newUser # u
  BY <1>7, <1>9
<1>13. Added(map, new, i) /\ new[i].type = type
  BY <1>5, <1>6, <1>8, IdsAssumption DEF Added, Standing
<1>14. Upgraded(new)
  <2>1. ASSUME NEW j \in Of(new, OfKind["building"])
        PROVE  new[j].upgrade \in DOMAIN Upgrades[new[j].type]
    <3>1. j \in Ids /\ new[j].type \in OfKind["building"]
      BY DEF Of, Standing
    <3>2. CASE j = i
      BY <1>6, <1>8, <3>1, <3>2
    <3>3. CASE j # i
      <4>1. new[j] = map[j] /\ j \in Of(map, OfKind["building"])
        BY <1>8, <3>1, <3>3 DEF Of, Standing
      <4> QED BY <1>3, <4>1 DEF Upgraded
    <3> QED BY <3>2, <3>3
  <2> QED BY <2>1 DEF Upgraded
<1>15. TypeOK' /\ SnapshotsAgree' /\ placed' \in Maps /\ Upgraded(placed')
  BY <1>2, <1>3, <1>8, <1>9, <1>10, <1>11, <1>12, <1>14, CommitTypes DEF u
<1>16. /\ user = u /\ user' = newUser /\ today' = today /\ offer' = newOffer
       /\ Grown(map, placed) /\ placed'[i] = item
       /\ \A j \in Ids \ {i} : placed'[j] = placed[j]
  <2>1. item # Free /\ item # Gone
    BY <1>6, IdsAssumption
  <2> QED BY <1>2, <1>5, <1>8, <1>11, <1>12, <2>1, CommitLands DEF map, u
<1>17. Added(placed, placed', i) /\ placed'[i].type = type
  BY <1>5, <1>6, <1>16, IdsAssumption DEF Added, Standing
<1>18. Grown(new, placed')
  <2> SUFFICES ASSUME NEW j \in Ids
               PROVE  /\ j \in Standing(new) <=> j \in Standing(placed')
                      /\ j \in Standing(new) =>
                           /\ placed'[j].type = new[j].type
                           /\ new[j].upgrade <= placed'[j].upgrade
    BY DEF Grown
  <2>1. CASE j = i
    <3>1. item.upgrade \in Nat
      BY <1>6 DEF PlacedItems
    <3> QED BY <1>8, <1>16, <2>1, <3>1 DEF Standing
  <2>2. CASE j # i
    BY <1>8, <1>16, <2>2 DEF Grown, Standing
  <2> QED BY <2>1, <2>2
\* How many of each type there are now.
<1>19. ASSUME NEW types
       PROVE  /\ Count(placed', types) = Count(placed, types) + (IF type \in types THEN 1 ELSE 0)
              /\ Of(placed', types) = Of(placed, types) \cup (IF type \in types THEN {i} ELSE {})
              /\ Count(placed, types) = Count(map, types)
              /\ Of(placed, types) = Of(map, types)
              /\ Count(placed', types) \in Nat /\ Count(placed, types) \in Nat
  BY <1>16, <1>17, AddedOf, GrownOf, CountType
<1>20. ASSUME NEW home \in OfKind["building"]
       PROVE  /\ Capacity(map, home) <= Capacity(placed, home)
              /\ Capacity(placed, home) <= Capacity(placed', home)
              /\ Capacity(map, home) \in Int /\ Capacity(placed, home) \in Int
              /\ Capacity(placed', home) \in Int
  <2>1. \A j \in Of(map, {home}) : map[j].upgrade <= placed[j].upgrade
    BY <1>16 DEF Grown, Of, Standing
  <2>2. ASSUME NEW j \in Of(placed, {home}) PROVE placed[j].upgrade <= placed'[j].upgrade
    <3>1. j # i /\ j \in Ids /\ j \in Standing(placed)
      BY <1>5, IdsAssumption DEF Of, Standing
    <3>2. placed'[j] = placed[j] /\ placed[j].upgrade \in Nat
      BY <1>3, <1>16, <3>1, StandingItem
    <3> QED BY <3>2
  <2>3. Capacity(map, home) <= Capacity(placed, home)
    BY <1>3, <1>19, <2>1, CapacityGrows
  <2>4. Capacity(placed, home) <= Capacity(placed', home)
    BY <1>3, <1>15, <1>19, <2>2, CapacityGrows
  <2> QED BY <1>3, <1>15, <2>3, <2>4, CapacityType
<1>21. Housing
  <2> SUFFICES ASSUME NEW t \in OfKind["animal"],
                      Count(placed', {t}) > Count(placed, {t})
               PROVE  Count(placed', {t}) <= Capacity(placed', Houses[t])
    BY DEF Housing
  <2>1. t = type /\ Kind[type] = "animal" /\ Count(placed', {t}) = Count(map, {t}) + 1
    BY <1>19, KindsApart DEF Kinds
  <2>2. Count(map, {t}) < Capacity(map, Houses[t])
    BY <1>2, <2>1 DEF WithinLimit
  <2>3. Houses[t] \in OfKind["building"]
    BY PetHouses
  <2> DEFINE home == Houses[t]
  <2>4. /\ Capacity(map, home) <= Capacity(placed, home)
        /\ Capacity(placed, home) <= Capacity(placed', home)
        /\ Capacity(map, home) \in Int /\ Capacity(placed, home) \in Int
        /\ Capacity(placed', home) \in Int /\ Count(map, {t}) \in Nat
    BY <1>20, <2>3, CountType
  <2> QED BY <2>1, <2>2, <2>4
<1>22. LimitsKept'
  <2>1. WithinLimits(placed)
    BY DEF EstateInv, LimitsKept
  <2>2. ASSUME NEW t \in OfKind["tile"] PROVE Count(placed', {t}) <= LandLimit.tileLimit
    <3>1. Count(placed, {t}) <= LandLimit.tileLimit /\ LandLimit.tileLimit \in Nat
      BY <2>1, EstateAssumption DEF WithinLimits
    <3>2. t = type => Count(placed, {t}) < LandLimit.tileLimit
      BY <1>2, <1>19, KindsApart DEF WithinLimit, Kinds
    <3> QED BY <1>19, <3>1, <3>2
  <2>3. ASSUME NEW t \in OfKind["building"]
        PROVE  Count(placed', {t}) <= SameBuildingLimit(t)
    <3>1. Count(placed, {t}) <= SameBuildingLimit(t)
      BY <2>1 DEF WithinLimits
    <3>2. SameBuildingLimit(t) \in Nat
      BY EstateAssumption DEF SameBuildingLimit
    <3>3. t = type => Count(placed, {t}) < SameBuildingLimit(t)
      BY <1>2, <1>19, KindsApart DEF WithinLimit, Kinds
    <3> QED BY <1>19, <3>1, <3>2, <3>3
  <2>4. ASSUME NEW t \in OfKind["pet"]
        PROVE  Count(placed', {t}) <= Capacity(placed', Houses[t])
    <3>1. Houses[t] \in OfKind["building"]
      BY PetHouses
    <3> DEFINE home == Houses[t]
    <3>2. /\ Capacity(map, home) <= Capacity(placed, home)
          /\ Capacity(placed, home) <= Capacity(placed', home)
          /\ Capacity(map, home) \in Int /\ Capacity(placed, home) \in Int
          /\ Capacity(placed', home) \in Int
      BY <1>20, <3>1
    <3>3. Count(placed, {t}) <= Capacity(placed, home)
      BY <2>1 DEF WithinLimits
    <3>4. t = type => Count(placed, {t}) < Capacity(map, home)
      BY <1>2, <1>19, KindsApart DEF WithinLimit, Kinds
    <3> HIDE DEF home
    <3>5. Count(placed', {t}) <= Capacity(placed', home)
      BY <1>19, <3>2, <3>3, <3>4
    <3> QED BY <3>5 DEF home
  <2> QED BY <2>2, <2>3, <2>4 DEF LimitsKept, WithinLimits
<1>23. RewardsApart'
  BY <1>2, <1>9, <1>16 DEF EstateInv, RewardsApart
<1>24. AnswersAreHonest'
  <2> SUFFICES ASSUME newOffer # NoOffer, Kind[newOffer] # "fruit"
               PROVE  newUser.golds >= Price[newOffer] /\ WithinLimit(placed', newOffer)
    BY <1>16 DEF AnswersAreHonest
  <2>1. newOffer = type /\ ~ StopBuying(newUser, new, type, house)
    BY <1>11
  <2>2. /\ ~ (newUser.golds < Price[type])
        /\ IF Kind[type] = "pet" THEN Count(new, {type}) < Capacity(placed, Houses[type])
           ELSE WithinLimit(new, type)
    BY <1>3, <1>8, <2>1, AnswersAllowNoMore
  <2>3. WithinLimit(placed', type)
    <3>1. CASE Kind[type] = "pet"
      <4> DEFINE home == Houses[type]
      <4>1. home \in OfKind["building"]
        BY <3>1, KindsApart, PetHouses
      <4>2. Count(new, {type}) < Capacity(placed, home)
        BY <2>2, <3>1
      <4> HIDE DEF home
      <4>3. Count(placed', {type}) = Count(new, {type}) /\ Count(new, {type}) \in Nat
        BY <1>18, GrownOf, CountType
      <4>4. Count(placed', {type}) < Capacity(placed', home)
        BY <1>20, <4>1, <4>2, <4>3
      <4> QED BY <3>1, <4>4 DEF WithinLimit, home
    <3>2. CASE Kind[type] # "pet"
      BY <1>8, <1>14, <1>15, <1>18, <2>1, <2>2, <3>2, WithinGrown
    <3> QED BY <3>1, <3>2
  <2>4. newUser.golds \in Nat /\ Price[type] \in Nat
    BY <1>9, UserFields, EstateAssumption
  <2> QED BY <2>1, <2>2, <2>3, <2>4
<1>25. Enriching
  <2>1. SellValue(placed') = SellValue(placed) + (IF type \in Sellable THEN SellPrice[type] ELSE 0)
    BY <1>3, <1>15, <1>17, SellValueAdded
  <2> DEFINE v == SellValue(placed)
             back == IF type \in Sellable THEN SellPrice[type] ELSE 0
  <2>2. v \in Int /\ back \in Nat /\ back <= price
    BY <1>2, <1>3, <1>7, SellValueType, EstateAssumption DEF price
  <2>3. Worth = u.golds + v /\ Worth' = (u.golds - price) + (v + back)
    BY <1>9, <1>16, <2>1 DEF Worth
  <2> HIDE DEF v, back
  <2>4. Worth' <= Worth /\ Worth \in Int /\ Worth' \in Int
    BY <1>7, <2>2, <2>3
  <2> QED BY <1>2, <2>4 DEF Enriching
<1> QED BY <1>15, <1>21, <1>22, <1>23, <1>24, <1>25 DEF EstateInv

-----------------------------------------------------------------------------
(* Every step.                                                             *)

LEMMA EstateInit ==
  ASSUME Init
  PROVE  EstateInv
<1>1. /\ StartPlaced \in [Ids -> PlacedItems \cup {Free, Gone}]
      /\ WithinLimits(StartPlaced) /\ Upgraded(StartPlaced)
  BY StartPlacedAssumption
<1>2. StartGolds \in Nat /\ DefaultVolume \in Volumes /\ 1 \in 1 .. MaxDays
  BY EstateAssumption
<1>3. user \in Users
  BY <1>2 DEF Init, Users
<1>4. TypeOK
  BY <1>1, <1>2, <1>3 DEF Init, TypeOK
<1>5. SnapshotsAgree
  BY DEF Init, SnapshotsAgree
<1>6. Upgraded(placed) /\ LimitsKept
  BY <1>1 DEF Init, LimitsKept
<1>7. RewardsApart
  BY DEF Init, RewardsApart
<1>8. AnswersAreHonest
  BY DEF Init, AnswersAreHonest
<1> QED BY <1>4, <1>5, <1>6, <1>7, <1>8 DEF EstateInv

LEMMA EstateNext ==
  ASSUME EstateInv, [Next]_vars
  PROVE  EstateInv' /\ Enriching /\ Housing
<1>1. CASE DayPasses \/ UNCHANGED vars \/ \E d \in Devices : Begin(d)
  BY <1>1, IdleStep
<1>2. ASSUME NEW d \in Devices,
             \/ BuyTile(d) \/ BuyAnimal(d) \/ BuyBuilding(d)
             \/ BuyFruit(d) \/ BuyPet(d) \/ BuyDecoration(d)
      PROVE  EstateInv' /\ Enriching /\ Housing
  <2>1. \E kind \in Kinds : \E type \in OfKind[kind] : Buy(d, type)
    <3>1. /\ "tile" \in Kinds /\ "animal" \in Kinds /\ "building" \in Kinds
          /\ "fruit" \in Kinds /\ "pet" \in Kinds /\ "decoration" \in Kinds
      BY DEF Kinds
    <3>2. CASE BuyTile(d)
      BY <3>1, <3>2 DEF BuyTile
    <3>3. CASE BuyAnimal(d)
      BY <3>1, <3>3 DEF BuyAnimal
    <3>4. CASE BuyBuilding(d)
      BY <3>1, <3>4 DEF BuyBuilding
    <3>5. CASE BuyFruit(d)
      BY <3>1, <3>5 DEF BuyFruit
    <3>6. CASE BuyPet(d)
      BY <3>1, <3>6 DEF BuyPet
    <3>7. CASE BuyDecoration(d)
      BY <3>1, <3>7 DEF BuyDecoration
    <3> QED BY <1>2, <3>2, <3>3, <3>4, <3>5, <3>6, <3>7
  <2>2. PICK type \in PlacedItemTypes : Buy(d, type)
    BY <2>1, KindsApart
  <2> QED BY <2>2, BuyStep
<1>3. ASSUME NEW d \in Devices, Move(d) \/ PlaceNFT(d)
      PROVE  EstateInv' /\ Enriching /\ Housing
  BY <1>3, PlacementSteps
<1>4. ASSUME NEW d \in Devices, Sell(d)
      PROVE  EstateInv' /\ Enriching /\ Housing
  BY <1>4, SellStep
<1>5. ASSUME NEW d \in Devices, UpgradeBuilding(d)
      PROVE  EstateInv' /\ Enriching /\ Housing
  BY <1>5, UpgradeBuildingStep
<1>6. ASSUME NEW d \in Devices,
             SelectDog(d) \/ SelectCat(d) \/ UpdateSettings(d) \/ UpdateTutorial(d)
      PROVE  EstateInv' /\ Enriching /\ Housing
  BY <1>6, SettingSteps
<1>7. ASSUME NEW d \in Devices, ClaimDailyReward(d)
      PROVE  EstateInv' /\ Enriching /\ Housing
  BY <1>7, ClaimStep
<1> QED BY <1>1, <1>2, <1>3, <1>4, <1>5, <1>6, <1>7 DEF Next

\* The inductive invariant holds of every farm: the types, what the snapshots of open
\* transactions know of the documents, and the three invariants stated below.
THEOREM EstateInvariant == Spec => []EstateInv
<1>1. Init => EstateInv
  BY EstateInit
<1>2. EstateInv /\ [Next]_vars => EstateInv'
  BY EstateNext
<1> QED BY <1>1, <1>2, PTL DEF Spec

\* However many devices ask, and on however many days: a day pays one daily reward
\* (claim-daily-reward.service.ts compares the day on a snapshot).
THEOREM OneRewardPerDay == Spec => []RewardOncePerDay
<1>1. EstateInv => RewardOncePerDay
  <2> SUFFICES ASSUME EstateInv PROVE RewardOncePerDay
    OBVIOUS
  <2>1. user \in Users /\ today \in Nat /\ today > 0 /\ claims \in Nat
    BY EstateAssumption DEF EstateInv, TypeOK
  <2>2. user.lastClaim \in Nat /\ user.streak \in Nat
    BY <2>1, UserFields
  <2> QED BY <2>1, <2>2 DEF EstateInv, RewardsApart, RewardOncePerDay
<1> QED BY <1>1, EstateInvariant, PTL

\* For every catalogue and every land: a farm never holds more tiles, buildings of a kind
\* or pets of a kind than its limits allow, though every purchase counts on a snapshot.
THEOREM LimitsAreKept == Spec => []LimitsKept
<1>1. EstateInv => LimitsKept
  BY DEF EstateInv
<1> QED BY <1>1, EstateInvariant, PTL

\* An answer that does not say stop means that the user can pay for one more and that the
\* limit of the handler allows it: LimitService never promises what the shop refuses.
THEOREM AnswersStayHonest == Spec => []AnswersAreHonest
<1>1. EstateInv => AnswersAreHonest
  BY DEF EstateInv
<1> QED BY <1>1, EstateInvariant, PTL

\* No step from any device makes gold and what the items sell for worth more, but a daily
\* reward, by that reward: no item is sold twice and no purse is spent twice.
THEOREM RewardsAloneEnrich == Spec => OnlyRewardsEnrich
<1>1. EstateInv /\ [Next]_vars
        => [Worth' <= Worth + (IF claims' = claims THEN 0 ELSE Reward(user'.streak))]_vars
  BY EstateNext DEF Enriching
<1> QED BY <1>1, EstateInvariant, PTL DEF Spec, OnlyRewardsEnrich

\* An animal that is bought has a place in a house when the purchase commits, also beside
\* a sale of that house from another device.
THEOREM BoughtAnimalsAreHoused == Spec => AnimalsHousedWhenBought
<1>1. EstateInv /\ [Next]_vars
        => [\A type \in OfKind["animal"] :
              Count(placed', {type}) > Count(placed, {type}) =>
                Count(placed', {type}) <= Capacity(placed', Houses[type])]_vars
  BY EstateNext DEF Housing
<1> QED BY <1>1, EstateInvariant, PTL DEF Spec, AnimalsHousedWhenBought
=============================================================================
