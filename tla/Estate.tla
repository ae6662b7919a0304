------------------------------- MODULE Estate -------------------------------
(***************************************************************************)
(* The farm of one user as a map of placed items: the shop handlers that   *)
(* put items on it, the limits and the positions they check, move, sell,   *)
(* upgrade, the placing of an NFT, the selected pets, the daily reward and *)
(* the settings, called from several devices.                              *)
(*                                                                         *)
(* A handler is a MongoDB transaction on a snapshot, as in Storehouse:     *)
(* Begin takes the snapshot, the handler decides on it and commits, and a  *)
(* commit is refused when a document it writes was written since.  Every   *)
(* purchase writes the user; move and the placing of an NFT do not.        *)
(***************************************************************************)
EXTENDS Integers, FiniteSets, Sequences, Functions

CONSTANTS
  Ids, Devices,
  Free, Gone, NoTxn, NoPet, NoOffer,
  PlacedItemTypes,
  Kind,              \* of a placed item type
  Size,              \* of a placed item type, in tiles
  AvailableInShop,   \* the types the shop offers
  Price,
  Sellable,          \* the types that may be sold
  SellPrice,
  Houses,            \* of an animal or a pet, the building it lives in
  Upgrades,          \* of a building, [price, capacity] by level
  Unique,            \* buildings of which a user has one
  Dogs, Cats,        \* the two kinds of pets
  Home,
  LandLimit,         \* tileLimit, fruitLimit, sameBuildingLimit, buildingLimit of the user
  DailyRewards,
  StartGolds, StartPlaced,
  DefaultVolume,
  Wanted,            \* bound: the types clients ask for
  Places,            \* bound: the positions they ask for
  MaxOverlap,        \* bound: commits of others while a transaction is open
  Volumes, Steps,    \* bound: settings and tutorial steps a client sends
  MaxDays            \* bound: days that pass

Kinds == {"tile", "animal", "building", "fruit", "pet", "decoration", "terrain"}

OfKind == [kind \in Kinds |-> {type \in PlacedItemTypes : Kind[type] = kind}]

PlacedItems ==
  [type : PlacedItemTypes, x : Int, y : Int, upgrade : Nat, stored : BOOLEAN, nft : BOOLEAN]

Users ==
  [golds : Nat, dog : Ids \cup {NoPet}, cat : Ids \cup {NoPet}, streak : Nat,
   lastClaim : Nat, sound : Volumes, tutorial : SUBSET Steps]

\* What the seeded data must obey: selling never pays more than buying did, no upgrade
\* makes a building smaller, and what pets live in is not bought back.
ASSUME EstateAssumption ==
  /\ Kind \in [PlacedItemTypes -> Kinds]
  /\ AvailableInShop \subseteq PlacedItemTypes
  /\ Price \in [PlacedItemTypes -> Nat]
  /\ Sellable \subseteq PlacedItemTypes \ (OfKind["decoration"] \cup OfKind["terrain"])
  /\ SellPrice \in [PlacedItemTypes -> Nat]
  /\ \A type \in AvailableInShop : Price[type] > 0 /\ SellPrice[type] <= Price[type]
  /\ Houses \in [OfKind["animal"] \cup OfKind["pet"] -> OfKind["building"]]
  /\ \A type \in OfKind["building"] :
       /\ Upgrades[type] \in Seq([price : Nat, capacity : Nat])
       /\ \A m, n \in DOMAIN Upgrades[type] :
            m <= n => Upgrades[type][m].capacity <= Upgrades[type][n].capacity
  /\ \A type \in OfKind["building"] \cap AvailableInShop : Upgrades[type] # <<>>
  /\ \A type \in OfKind["pet"] : Houses[type] \notin Sellable
  /\ OfKind["pet"] = Dogs \cup Cats
  /\ \A limit \in {"tileLimit", "fruitLimit", "sameBuildingLimit", "buildingLimit"} :
       LandLimit[limit] \in Nat
  /\ StartGolds \in Nat /\ DefaultVolume \in Volumes
  /\ Places \subseteq Int \X Int
  /\ \A n \in 1 .. 5 : DailyRewards[n] \in Nat
  /\ MaxOverlap \in Nat /\ MaxDays \in Nat \ {0}

ASSUME IdsAssumption ==
  /\ IsFiniteSet(Ids) /\ "user" \notin Ids
  /\ Free \notin PlacedItems /\ Gone \notin PlacedItems

VARIABLES
  user, placed,      \* the documents
  today,             \* the day of the servers' clock
  txn,               \* of a device: its snapshot and what was written since
  offer,             \* what the last answer said may be bought once more
  claims             \* history: daily rewards paid

vars == <<user, placed, today, txn, offer, claims>>

Standing(map) == {i \in Ids : map[i] \notin {Free, Gone}}

Of(map, types) == {i \in Standing(map) : map[i].type \in types}

Count(map, types) == Cardinality(Of(map, types))

SameBuildingLimit(type) == IF type \in Unique THEN 1 ELSE LandLimit.sameBuildingLimit

CapacityOf(map, i) == Upgrades[map[i].type][map[i].upgrade].capacity

Capacity(map, house) == SumFunction([i \in Of(map, {house}) |-> CapacityOf(map, i)])

\* A pet house can not be sold, so the pets of a kind always have room.
WithinLimits(map) ==
  /\ \A type \in OfKind["tile"] : Count(map, {type}) <= LandLimit.tileLimit
  /\ \A type \in OfKind["building"] : Count(map, {type}) <= SameBuildingLimit(type)
  /\ \A type \in OfKind["pet"] : Count(map, {type}) <= Capacity(map, Houses[type])

\* Every building stands at a level it has.
Upgraded(map) ==
  \A i \in Of(map, OfKind["building"]) : map[i].upgrade \in DOMAIN Upgrades[map[i].type]

\* The run starts on a farm that was bought and placed before.
ASSUME StartPlacedAssumption ==
  /\ StartPlaced \in [Ids -> PlacedItems \cup {Free, Gone}]
  /\ WithinLimits(StartPlaced) /\ Upgraded(StartPlaced)

Init ==
  /\ user = [golds |-> StartGolds, dog |-> NoPet, cat |-> NoPet, streak |-> 0,
             lastClaim |-> 0, sound |-> DefaultVolume, tutorial |-> {}]
  /\ placed = StartPlaced
  /\ today = 1
  /\ txn = [d \in Devices |-> NoTxn]
  /\ offer = NoOffer
  /\ claims = 0
-----------------------------------------------------------------------------
(***************************************************************************)
(* Transactions                                                            *)
(***************************************************************************)
Begin(d) ==
  /\ txn' = [txn EXCEPT ![d] = [user |-> user, placed |-> placed, today |-> today,
                                stale |-> {}, overlap |-> 0]]
  /\ UNCHANGED <<user, placed, today, offer, claims>>

Written(d, newUser, newPlaced) ==
  {i \in Ids : newPlaced[i] # txn[d].placed[i]}
    \cup (IF newUser # txn[d].user THEN {"user"} ELSE {})

\* Mutant: the last writer wins.
NeverConflict(d, written) == TRUE

NoConflict(d, written) == written \cap txn[d].stale = {}

\* Only what was written changes; the snapshots of the others get stale.
Commit(d, newUser, newPlaced, newOffer) ==
  \E written \in {Written(d, newUser, newPlaced)} :
      /\ \A e \in Devices \ {d} : txn[e] # NoTxn => txn[e].overlap < MaxOverlap
      /\ NoConflict(d, written)
      /\ user' = IF "user" \in written THEN newUser ELSE user
      /\ placed' = [i \in Ids |-> IF i \in written THEN newPlaced[i] ELSE placed[i]]
      /\ txn' = [e \in Devices |->
                   IF e = d \/ txn[e] = NoTxn
                     THEN NoTxn
                     ELSE [txn[e] EXCEPT !.stale = @ \cup written, !.overlap = @ + 1]]
      /\ offer' = newOffer
      /\ UNCHANGED today
-----------------------------------------------------------------------------
(***************************************************************************)
(* Positions                                                               *)
(***************************************************************************)
\* An item stands on the tile it is put at and extends left and down.
Footprint(type, place) ==
  (place[1] - Size[type][1] + 1 .. place[1]) \X (place[2] - Size[type][2] + 1 .. place[2])

\* getOccupiedPositions: the anchors of the items, not the ground they cover.
Occupied(map, items) == {<<map[i].x, map[i].y>> : i \in items}

\* The filter meant to leave out the item itself leaves out its row and its column.
Others(map, i) == {j \in Standing(map) : map[j].x # map[i].x /\ map[j].y # map[i].y}

PositionAvailable(occupied, type, place) == Footprint(type, place) \cap occupied = {}
-----------------------------------------------------------------------------
(***************************************************************************)
(* Limits                                                                  *)
(***************************************************************************)
Planted(map) == {i \in Of(map, OfKind["fruit"]) : ~map[i].stored}

\* What each handler checks before it sells one more.
WithinLimit(map, type) ==
  CASE Kind[type] = "tile" -> Count(map, {type}) < LandLimit.tileLimit
    [] Kind[type] = "building" -> Count(map, {type}) < SameBuildingLimit(type)
    [] Kind[type] = "fruit" -> Cardinality(Planted(map)) < LandLimit.fruitLimit
    [] Kind[type] \in {"animal", "pet"} -> Count(map, {type}) < Capacity(map, Houses[type])
    [] OTHER -> TRUE

GetTileLimit(map) == Count(map, OfKind["tile"]) < LandLimit.tileLimit

GetFruitLimit(map) == Cardinality(Planted(map)) < LandLimit.fruitLimit

\* The limit on buildings counts homes only.
GetBuildingLimit(map, type) ==
  /\ Count(map, {Home}) < LandLimit.buildingLimit
  /\ Count(map, {type}) < SameBuildingLimit(type)

GetAnimalLimit(map, type) == Count(map, {type}) < Capacity(map, Houses[type])

\* Mutant: one more than the house holds.
GetPetLimitOneMore(map, type, house) ==
  /\ house # NoPet
  /\ Count(map, IF type \in Dogs THEN Dogs ELSE Cats) <= CapacityOf(placed, house)

\* All dogs or all cats, against one of the pet houses, which is read outside the
\* transaction.
GetPetLimit(map, type, house) ==
  /\ house # NoPet
  /\ Count(map, IF type \in Dogs THEN Dogs ELSE Cats) < CapacityOf(placed, house)

\* The pet house an answer about pets looks at.
HousesAsked(type) ==
  IF Kind[type] = "pet" /\ Of(placed, {Houses[type]}) # {} THEN Of(placed, {Houses[type]})
  ELSE {NoPet}

\* The answer to a purchase: whether the client should stop buying more of it.
StopBuying(newUser, map, type, house) ==
  \/ newUser.golds < Price[type]
  \/ ~ CASE Kind[type] = "tile" -> GetTileLimit(map)
         [] Kind[type] = "fruit" -> GetFruitLimit(map)
         [] Kind[type] = "building" -> GetBuildingLimit(map, type)
         [] Kind[type] = "animal" -> GetAnimalLimit(map, type)
         [] Kind[type] = "pet" -> GetPetLimit(map, type, house)
         [] OTHER -> TRUE
-----------------------------------------------------------------------------
(***************************************************************************)
(* The shop                                                                *)
(***************************************************************************)
NewPlacedItem(type, place) ==
  [type |-> type, x |-> place[1], y |-> place[2],
   upgrade |-> IF Kind[type] = "building" THEN 1 ELSE 0, stored |-> FALSE, nft |-> FALSE]

CanAfford(u, price) == u.golds >= price

Charge(golds, price) == golds - price

Buy(d, type) ==
  /\ txn[d] # NoTxn
  /\ type \in AvailableInShop
  /\ CanAfford(txn[d].user, Price[type])
  /\ WithinLimit(txn[d].placed, type)
  /\ \E i \in Ids, place \in Places :
       /\ placed[i] = Free
       /\ txn[d].placed[i] = Free
       /\ PositionAvailable(Occupied(txn[d].placed, Standing(txn[d].placed)), type, place)
       /\ \E newUser \in {[txn[d].user EXCEPT !.golds = Charge(@, Price[type])]},
             newPlaced \in {[txn[d].placed EXCEPT ![i] = NewPlacedItem(type, place)]} :
            \E house \in HousesAsked(type) :
              Commit(d, newUser, newPlaced,
                     IF StopBuying(newUser, newPlaced, type, house) THEN NoOffer ELSE type)
  /\ UNCHANGED claims

BuyTile(d) == \E type \in Wanted \cap OfKind["tile"] : Buy(d, type)

BuyAnimal(d) == \E type \in Wanted \cap OfKind["animal"] : Buy(d, type)

BuyBuilding(d) == \E type \in Wanted \cap OfKind["building"] : Buy(d, type)

BuyFruit(d) == \E type \in Wanted \cap OfKind["fruit"] : Buy(d, type)

BuyPet(d) == \E type \in Wanted \cap OfKind["pet"] : Buy(d, type)

BuyDecoration(d) == \E type \in Wanted \cap OfKind["decoration"] : Buy(d, type)
-----------------------------------------------------------------------------
(***************************************************************************)
(* Placement                                                               *)
(***************************************************************************)
At(item, place) == [item EXCEPT !.x = place[1], !.y = place[2]]

\* Move and the placing of an NFT write the item only.
Move(d) ==
  /\ txn[d] # NoTxn
  /\ \E i \in Standing(txn[d].placed), place \in Places :
       /\ place # <<txn[d].placed[i].x, txn[d].placed[i].y>>
       /\ PositionAvailable(Occupied(txn[d].placed, Others(txn[d].placed, i)),
                            txn[d].placed[i].type, place)
       /\ Commit(d, txn[d].user, [txn[d].placed EXCEPT ![i] = At(@, place)], NoOffer)
  /\ UNCHANGED claims

PlaceNFT(d) ==
  /\ txn[d] # NoTxn
  /\ \E i \in Standing(txn[d].placed), place \in Places :
       LET item == txn[d].placed[i]
       IN  /\ item.nft /\ item.stored
           /\ Kind[item.type] = "fruit" => WithinLimit(txn[d].placed, item.type)
           /\ PositionAvailable(Occupied(txn[d].placed, Others(txn[d].placed, i)),
                                item.type, place)
           /\ Commit(d, txn[d].user,
                     [txn[d].placed EXCEPT ![i] = [At(item, place) EXCEPT !.stored = FALSE]],
                     NoOffer)
  /\ UNCHANGED claims

Sell(d) ==
  /\ txn[d] # NoTxn
  /\ \E i \in Standing(txn[d].placed) :
       LET type == txn[d].placed[i].type
       IN  /\ type \in Sellable
           /\ SellPrice[type] > 0
           /\ Commit(d, [txn[d].user EXCEPT !.golds = @ + SellPrice[type]],
                     [txn[d].placed EXCEPT ![i] = Gone], NoOffer)
  /\ UNCHANGED claims

\* The handler never compares the owner; here the owner asks.
UpgradeBuilding(d) ==
  /\ txn[d] # NoTxn
  /\ \E i \in Of(txn[d].placed, OfKind["building"]) :
       LET type == txn[d].placed[i].type
           next == txn[d].placed[i].upgrade + 1
       IN  /\ next <= Len(Upgrades[type])
           /\ CanAfford(txn[d].user, Upgrades[type][next].price)
           /\ Commit(d, [txn[d].user EXCEPT !.golds = Charge(@, Upgrades[type][next].price)],
                     [txn[d].placed EXCEPT ![i].upgrade = next], NoOffer)
  /\ UNCHANGED claims
-----------------------------------------------------------------------------
(***************************************************************************)
(* Pets, the daily reward, settings                                        *)
(***************************************************************************)
SelectDog(d) ==
  /\ txn[d] # NoTxn
  /\ \E i \in Of(txn[d].placed, Dogs) :
       /\ txn[d].user.dog # i
       /\ Commit(d, [txn[d].user EXCEPT !.dog = i], txn[d].placed, NoOffer)
  /\ UNCHANGED claims

SelectCat(d) ==
  /\ txn[d] # NoTxn
  /\ \E i \in Of(txn[d].placed, Cats) :
       /\ txn[d].user.cat # i
       /\ Commit(d, [txn[d].user EXCEPT !.cat = i], txn[d].placed, NoOffer)
  /\ UNCHANGED claims

\* Mutant: whether today's reward was paid is not asked.
MayClaimAgain(u, now) == TRUE

MayClaim(u, now) == u.lastClaim # now

\* The streak has grown when the reward is looked up, and nothing ends a streak.
Reward(streak) == IF streak >= 4 THEN DailyRewards[5] ELSE DailyRewards[streak + 1]

Rewarded(u, day) ==
  [u EXCEPT !.lastClaim = day, !.streak = @ + 1, !.golds = @ + Reward(u.streak + 1)]

\* The clock is read after the user, and the reward is saved when that day may be over.
ClaimDailyReward(d) ==
  /\ txn[d] # NoTxn
  /\ \E now \in txn[d].today .. today :
       /\ MayClaim(txn[d].user, now)
       /\ Commit(d, Rewarded(txn[d].user, now), txn[d].placed, NoOffer)
  /\ claims' = claims + 1

UpdateSettings(d) ==
  /\ txn[d] # NoTxn
  /\ \E sound \in Volumes :
       Commit(d, [txn[d].user EXCEPT !.sound = sound], txn[d].placed, NoOffer)
  /\ UNCHANGED claims

\* A step a client does not send, or sends as false, stays as it is.
UpdateTutorial(d) ==
  /\ txn[d] # NoTxn
  /\ \E steps \in SUBSET Steps :
       Commit(d, [txn[d].user EXCEPT !.tutorial = @ \cup steps], txn[d].placed, NoOffer)
  /\ UNCHANGED claims

DayPasses ==
  /\ today < MaxDays
  /\ today' = today + 1
  /\ UNCHANGED <<user, placed, txn, offer, claims>>

Next ==
  \/ \E d \in Devices :
       \/ Begin(d)
       \/ BuyTile(d) \/ BuyAnimal(d) \/ BuyBuilding(d)
       \/ BuyFruit(d) \/ BuyPet(d) \/ BuyDecoration(d)
       \/ Move(d) \/ PlaceNFT(d) \/ Sell(d) \/ UpgradeBuilding(d)
       \/ SelectDog(d) \/ SelectCat(d)
       \/ ClaimDailyReward(d) \/ UpdateSettings(d) \/ UpdateTutorial(d)
  \/ DayPasses

Spec == Init /\ [][Next]_vars
-----------------------------------------------------------------------------
TypeOK ==
  /\ user \in Users
  /\ placed \in [Ids -> PlacedItems \cup {Free, Gone}]
  /\ today \in 1 .. MaxDays
  /\ DOMAIN txn = Devices
  /\ \A d \in Devices :
       txn[d] # NoTxn =>
         /\ DOMAIN txn[d] = {"user", "placed", "today", "stale", "overlap"}
         /\ txn[d].user \in Users
         /\ txn[d].today \in 1 .. today
         /\ txn[d].placed \in [Ids -> PlacedItems \cup {Free, Gone}]
         /\ txn[d].stale \subseteq Ids \cup {"user"}
         /\ txn[d].overlap \in 0 .. MaxOverlap
  /\ offer \in AvailableInShop \cup {NoOffer}
  /\ claims \in Nat

SellValue(map) == SumFunction([i \in Of(map, Sellable) |-> SellPrice[map[i].type]])

\* What the farm can be turned into: its gold and what its items sell for.
Worth == user.golds + SellValue(placed)

\* Nothing a player does with the shop, from however many devices at once, makes
\* the farm worth more: only a daily reward does, and by no more than that reward.
\* Two sales of one item, or a purchase on a stale purse, would.
OnlyRewardsEnrich ==
  [][Worth' <= Worth + (IF claims' = claims THEN 0 ELSE Reward(user'.streak))]_vars

\* A day pays one reward, whichever device asks: as many were paid as the streak
\* says, never two of one day and never one of a day to come.
RewardOncePerDay ==
  /\ claims = user.streak
  /\ claims <= today
  /\ user.lastClaim <= today
  /\ user.lastClaim = today => claims > 0

\* The limits are checked on a snapshot that may be stale when the purchase
\* commits; they hold all the same, because every purchase writes the user.
LimitsKept == WithinLimits(placed)

\* A purchase of an animal leaves it with a place in a house, even against a sale
\* of that house from another device.  (Selling the house later leaves it without.)
AnimalsHousedWhenBought ==
  [][\A type \in OfKind["animal"] :
       Count(placed', {type}) > Count(placed, {type}) =>
         Count(placed', {type}) <= Capacity(placed', Houses[type])]_vars

\* LimitService and the handlers compute the same limits apart.  After a purchase
\* that does not say stop, the shop sells one more where there is room.  (Not for
\* fruit trees: an NFT tree may be placed without a write of the user.)
AnswersAreHonest ==
  offer # NoOffer /\ Kind[offer] # "fruit" =>
    user.golds >= Price[offer] /\ WithinLimit(placed, offer)

\* No two items stand at the same place.
ItemsApart ==
  \A i, j \in Standing(placed) :
    i # j => <<placed[i].x, placed[i].y>> # <<placed[j].x, placed[j].y>>
=============================================================================
