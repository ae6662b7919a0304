-------------------------- MODULE StorehouseProofs --------------------------
(***************************************************************************)
(* Theorems about Storehouse, for every value of its constants, after what *)
(* each operation of InventoryService and of the inventory handlers        *)
(* preserves, which are lemmas about Stacks: first of slots, tools and     *)
(* boxes, then of the quantities that are in stock.                        *)
(***************************************************************************)
EXTENDS Storehouse, FiniteSetTheorems, WellFoundedInduction, TLAPS

-----------------------------------------------------------------------------
(* Arithmetic and totals.                                                  *)

\* The number of stacks of b that hold a units.
LEMMA CeilDivBounds ==
  ASSUME NEW a \in Nat, NEW b \in Nat \ {0}
  PROVE  /\ CeilDiv(a, b) \in Nat
         /\ b * (CeilDiv(a, b) - 1) < a \/ a = 0
         /\ a <= b * CeilDiv(a, b)
         /\ CeilDiv(a, b) # 0 => a - b * (CeilDiv(a, b) - 1) \in 0 .. b
  <1> DEFINE q == CeilDiv(a, b)
  <1>1. q \in Int /\ b * q <= a + b - 1 /\ a + b - 1 < b * q + b
    BY DEF CeilDiv
  <1> HIDE DEF q
  <1>2. q >= 0
    BY <1>1
  <1>3. b * (q - 1) = b * q - b
    BY <1>1
  <1> QED
    BY <1>1, <1>2, <1>3 DEF q

\* A total over a finite set is a natural number.
LEMMA TotalType ==
  ASSUME NEW f, IsFiniteSet(DOMAIN f)
  PROVE  Total(f) \in Nat
  <1>1. IsFiniteSet(1 .. MaxStack)
    BY FS_Interval, StacksAssumption
  <1>2. IsFiniteSet((DOMAIN f) \X (1 .. MaxStack))
    BY <1>1, FS_Product
  <1>3. {u \in (DOMAIN f) \X (1 .. MaxStack) : u[2] <= f[u[1]]}
           \in SUBSET ((DOMAIN f) \X (1 .. MaxStack))
    OBVIOUS
  <1> QED
    BY <1>2, <1>3, FS_Subset, FS_CardinalityType DEF Total

\* Every set of ids is finite.
LEMMA IdsFinite ==
  ASSUME NEW S \in SUBSET Ids
  PROVE  IsFiniteSet(S)
BY FS_Subset, StacksAssumption

\* The lowest members of a set belong to it.
LEMMA LowestSubset ==
  ASSUME NEW S, NEW n
  PROVE  Lowest(S, n) \subseteq S
BY DEF Lowest

-----------------------------------------------------------------------------
(* What the proofs say of an operation on a collection s: the result is a  *)
(* collection, a slot still holds one document, a document keeps its type, *)
(* and no tool is created.                                                 *)

KeepsTypes(s, new) ==
  \A i \in Ids : new[i] # NoDoc =>
    IF s[i] = NoDoc THEN new[i].type \notin Tools ELSE new[i].type = s[i].type

KeepsSlots(s, new) == SlotsUniqueIn(s) => SlotsUniqueIn(new)

Sound(s, new) == new \in Collections /\ KeepsSlots(s, new) /\ KeepsTypes(s, new)

\* A document of a collection has its fields, and none of them is missing.
LEMMA HeldDoc ==
  ASSUME NEW s \in Collections, NEW i \in Held(s)
  PROVE  /\ i \in Ids
         /\ s[i] \in Docs
         /\ s[i].type \in Types /\ s[i].kind \in Kinds
         /\ s[i].index \in Int /\ s[i].quantity \in 0 .. MaxStack
BY DEF Collections, Held, Docs

\* A document with another place or another quantity is a document.
LEMMA MovedDoc ==
  ASSUME NEW doc \in Docs, NEW index \in Int, NEW kind \in Kinds
  PROVE  /\ MovedTo(doc, index, kind) \in Docs
         /\ MovedTo(doc, index, kind).index = index
         /\ MovedTo(doc, index, kind).kind = kind
         /\ MovedTo(doc, index, kind).type = doc.type
BY DEF Docs, MovedTo

LEMMA RefilledDoc ==
  ASSUME NEW doc \in Docs, NEW quantity \in 0 .. MaxStack
  PROVE  /\ [doc EXCEPT !.quantity = quantity] \in Docs
         /\ [doc EXCEPT !.quantity = quantity].type = doc.type
         /\ [doc EXCEPT !.quantity = quantity].index = doc.index
         /\ [doc EXCEPT !.quantity = quantity].kind = doc.kind
BY DEF Docs

\* Deleting a document is sound.
LEMMA RemovedSound ==
  ASSUME NEW s \in Collections, NEW i \in Ids
  PROVE  Sound(s, [s EXCEPT ![i] = NoDoc])
BY DEF Sound, Collections, KeepsSlots, SlotsUniqueIn, KeepsTypes, Held

\* Using one unit is sound.
LEMMA TakenSound ==
  ASSUME NEW s \in Collections, NEW i \in Held(s)
  PROVE  Sound(s, Taken(s, i, 1))
  <1>1. CASE s[i].quantity - 1 > 0
    <2> DEFINE q == s[i].quantity - 1
               doc == [s[i] EXCEPT !.quantity = q]
    <2>1. Taken(s, i, 1) = [s EXCEPT ![i] = doc]
      BY <1>1 DEF Taken
    <2>2. q \in 0 .. MaxStack
      BY <1>1, HeldDoc, StacksAssumption
    <2>3. doc \in Docs /\ doc.type = s[i].type /\ doc.index = s[i].index
             /\ doc.kind = s[i].kind
      BY <2>2, HeldDoc, RefilledDoc
    <2> HIDE DEF doc
    <2> QED
      BY <2>1, <2>3, HeldDoc, NoDocAssumption
         DEF Sound, Collections, KeepsSlots, SlotsUniqueIn, KeepsTypes, Held
  <1>2. CASE ~ (s[i].quantity - 1 > 0)
    <2>1. Taken(s, i, 1) = [s EXCEPT ![i] = NoDoc]
      BY <1>2 DEF Taken
    <2> QED
      BY <2>1, RemovedSound, HeldDoc
  <1> QED
    BY <1>1, <1>2

-----------------------------------------------------------------------------
(* Move.                                                                   *)

\* Two stacks of one type merged in the slot of the second.
LEMMA MergedSound ==
  ASSUME NEW s \in Collections, NEW i \in Held(s), NEW j \in Held(s), i # j,
         s[i].type = s[j].type
  PROVE  Sound(s, Merged(s, i, j))
  <1> DEFINE sum == s[i].quantity + s[j].quantity
  <1>a. s[i] \in Docs /\ s[j] \in Docs
    BY HeldDoc
  <1>0. sum \in Nat /\ sum <= MaxStack + MaxStack /\ MaxStack \in Nat \ {0}
    BY HeldDoc, StacksAssumption
  <1>1. CASE sum <= MaxStack
    <2> DEFINE doc == [s[j] EXCEPT !.quantity = sum]
    <2>1. Merged(s, i, j) = [s EXCEPT ![i] = NoDoc, ![j] = doc]
      BY <1>1 DEF Merged
    <2>2. doc \in Docs /\ doc.type = s[j].type /\ doc.index = s[j].index
             /\ doc.kind = s[j].kind
      <3>1. sum \in 0 .. MaxStack
        BY <1>0, <1>1
      <3> HIDE DEF sum
      <3> QED
        BY <1>a, <3>1, RefilledDoc
    <2> HIDE DEF doc
    <2> QED
      BY <2>1, <2>2, HeldDoc, NoDocAssumption
         DEF Sound, Collections, KeepsSlots, SlotsUniqueIn, KeepsTypes, Held
  <1>2. CASE ~ (sum <= MaxStack)
    <2> DEFINE left == [s[i] EXCEPT !.quantity = sum - MaxStack]
               full == [s[j] EXCEPT !.quantity = MaxStack]
    <2>1. Merged(s, i, j) = [s EXCEPT ![i] = left, ![j] = full]
      BY <1>2 DEF Merged
    <2>2. left \in Docs /\ left.type = s[i].type /\ left.index = s[i].index
             /\ left.kind = s[i].kind
      <3>1. sum - MaxStack \in 0 .. MaxStack
        BY <1>0, <1>2
      <3> HIDE DEF sum
      <3> QED
        BY <1>a, <3>1, RefilledDoc
    <2>3. full \in Docs /\ full.type = s[j].type /\ full.index = s[j].index
             /\ full.kind = s[j].kind
      <3>1. MaxStack \in 0 .. MaxStack
        BY <1>0
      <3> QED
        BY <1>a, <3>1, RefilledDoc
    <2> HIDE DEF left, full
    <2> QED
      BY <2>1, <2>2, <2>3, HeldDoc, NoDocAssumption
         DEF Sound, Collections, KeepsSlots, SlotsUniqueIn, KeepsTypes, Held
  <1> QED
    BY <1>1, <1>2

\* Two documents exchange their slots.
LEMMA SwappedSound ==
  ASSUME NEW s \in Collections, NEW i \in Held(s), NEW j \in Held(s), i # j
  PROVE  Sound(s, Swapped(s, i, j))
  <1> DEFINE xi == s[i].index
             ki == s[i].kind
             xj == s[j].index
             kj == s[j].kind
             di == MovedTo(s[i], xj, kj)
             dj == MovedTo(s[j], xi, ki)
  <1>1. Swapped(s, i, j) = [s EXCEPT ![i] = di, ![j] = dj]
    BY DEF Swapped
  <1>a. /\ s[i] \in Docs /\ s[i].index \in Int /\ s[i].kind \in Kinds
        /\ s[j] \in Docs /\ s[j].index \in Int /\ s[j].kind \in Kinds
    BY HeldDoc
  <1>2. di \in Docs /\ di.type = s[i].type /\ di.index = xj /\ di.kind = kj
    <2>1. s[i] \in Docs /\ xj \in Int /\ kj \in Kinds
      BY <1>a
    <2> HIDE DEF xj, kj
    <2> QED
      BY <2>1, MovedDoc
  <1>3. dj \in Docs /\ dj.type = s[j].type /\ dj.index = xi /\ dj.kind = ki
    <2>1. s[j] \in Docs /\ xi \in Int /\ ki \in Kinds
      BY <1>a
    <2> HIDE DEF xi, ki
    <2> QED
      BY <2>1, MovedDoc
  <1> HIDE DEF di, dj
  <1> DEFINE new == [s EXCEPT ![i] = di, ![j] = dj]
  <1>4. new \in Collections
    BY <1>2, <1>3 DEF Collections
  <1>5. KeepsTypes(s, new)
    BY <1>2, <1>3, HeldDoc, NoDocAssumption DEF KeepsTypes, Held, Collections
  <1>6. KeepsSlots(s, new)
    BY <1>2, <1>3, HeldDoc, NoDocAssumption
       DEF KeepsSlots, SlotsUniqueIn, Held, Collections
  <1> QED
    BY <1>1, <1>4, <1>5, <1>6 DEF Sound

\* A move is sound, whatever it finds in the slot.
LEMMA MoveSound ==
  ASSUME NEW s \in Collections, NEW i \in Ids, NEW index \in Int, NEW isTool \in BOOLEAN,
         NEW new \in MoveResults(s, i, index, isTool)
  PROVE  Sound(s, new)
  <1> DEFINE kind == IF isTool THEN "tool" ELSE "storage"
             found == {j \in InKind(s, kind) : s[j].index = index}
  <1>1. i \in Held(s) /\ kind \in Kinds
    BY DEF MoveResults, Kinds
  <1>2. CASE found = {}
    <2> DEFINE doc == MovedTo(s[i], index, kind)
    <2>1. new = [s EXCEPT ![i] = doc]
      BY <1>1, <1>2 DEF MoveResults
    <2>2. doc \in Docs /\ doc.type = s[i].type /\ doc.index = index /\ doc.kind = kind
      BY <1>1, HeldDoc, MovedDoc
    <2>3. \A j \in Held(s) : ~ (s[j].kind = kind /\ s[j].index = index)
      BY <1>2 DEF InKind
    <2> HIDE DEF doc, kind, found
    <2> QED
      BY <1>1, <2>1, <2>2, <2>3, HeldDoc, NoDocAssumption
         DEF Sound, Collections, KeepsSlots, SlotsUniqueIn, KeepsTypes, Held
  <1>3. CASE found # {}
    <2>1. PICK j \in found :
             \/ j = i /\ new = s
             \/ j # i /\ new = Swapped(s, i, j)
             \/ j # i /\ s[i].type = s[j].type /\ new = Merged(s, i, j)
      BY <1>1, <1>3 DEF MoveResults
    <2>2. j \in Held(s)
      BY DEF InKind
    <2>3. Sound(s, s)
      BY HeldDoc DEF Sound, KeepsSlots, KeepsTypes, Held
    <2> QED
      BY <1>1, <2>1, <2>2, <2>3, SwappedSound, MergedSound
  <1> QED
    BY <1>2, <1>3

-----------------------------------------------------------------------------
(* InventoryService.add.                                                   *)

\* Units that fit on stacks there are, and documents that fit in slots that are free.
Toppable(s, given) ==
  /\ DOMAIN given \subseteq Held(s)
  /\ \A i \in DOMAIN given : s[i].quantity + given[i] \in 0 .. MaxStack

Placed(s, created, kind, capacity) ==
  /\ DOMAIN created \subseteq Ids \ Held(s)
  /\ \A i \in DOMAIN created :
       /\ created[i] \in Docs
       /\ created[i].kind = kind
       /\ created[i].index \in Free(s, kind, capacity)
  /\ \A i, j \in DOMAIN created : created[i].index = created[j].index => i = j

\* Stacks are filled to their maximum at most, with no more units than there are.
LEMMA FillingsFit ==
  ASSUME NEW s \in Collections, NEW type, NEW n \in Nat, NEW kind,
         NEW given \in Fillings(s, type, n, kind)
  PROVE  Toppable(s, given) /\ n - Total(given) \in Nat
  <1> DEFINE stacks == OfType(s, kind, type)
             room == [i \in stacks |-> Room(s, i)]
  <1>1. given \in [stacks -> 0 .. MaxStack] /\ \A i \in stacks : given[i] <= Room(s, i)
    BY DEF Fillings
  <1>2. stacks \subseteq Held(s)
    BY DEF OfType, InKind
  <1>3. \A i \in stacks : s[i].quantity + given[i] \in 0 .. MaxStack
    BY <1>1, <1>2, HeldDoc, StacksAssumption DEF Room
  <1>4. Total(room) \in Nat
    BY <1>2, IdsFinite, TotalType DEF Held
  <1>5. Total(given) = Lesser(n, Total(room))
    BY DEF Fillings
  <1>6. n - Total(given) \in Nat
    BY <1>4, <1>5 DEF Lesser
  <1>7. DOMAIN given = stacks
    BY <1>1
  <1> QED
    BY <1>2, <1>3, <1>6, <1>7 DEF Toppable

\* New stacks take new ids and free slots, each a slot of its own.
LEMMA NewStacksFit ==
  ASSUME NEW s \in Collections, NEW type \in Types, NEW rest \in Nat, NEW kind \in Kinds,
         NEW capacity \in Nat, NEW created \in NewStacks(s, type, rest, kind, capacity)
  PROVE  /\ Placed(s, created, kind, capacity)
         /\ \A i \in DOMAIN created : created[i].type = type
  <1> DEFINE count == CeilDiv(rest, MaxStack)
             slots == Lowest(Free(s, kind, capacity), count)
             last  == rest - MaxStack * (count - 1)
             Stack(slot) ==
               [type |-> type, kind |-> kind, index |-> slot,
                quantity |-> IF \E u \in slots : u > slot THEN MaxStack ELSE last]
  <1>0. PICK fresh \in SUBSET (Ids \ Held(s)) :
          /\ Cardinality(fresh) = count
          /\ \E at \in Bijection(fresh, slots) : created = [i \in fresh |-> Stack(at[i])]
    BY DEF NewStacks
  <1>1. PICK at \in Bijection(fresh, slots) : created = [i \in fresh |-> Stack(at[i])]
    BY <1>0
  <1>2. at \in [fresh -> slots] /\ \A i, j \in fresh : at[i] = at[j] => i = j
    BY DEF Bijection, Injection, IsInjective
  <1>3. slots \subseteq Free(s, kind, capacity) /\ slots \subseteq Nat
    BY LowestSubset DEF Free
  <1>4. MaxStack \in 0 .. MaxStack
    BY StacksAssumption
  <1>5. ASSUME NEW i \in fresh
        PROVE  last \in 0 .. MaxStack
    <2>1. IsFiniteSet(fresh) /\ fresh # {}
      BY IdsFinite
    <2>2. count # 0
      BY <1>0, <2>1, FS_EmptySet
    <2> QED
      BY <2>2, CeilDivBounds, StacksAssumption
  <1> HIDE DEF count, slots, last
  <1>6. \A i \in fresh : created[i] = Stack(at[i])
    BY <1>1
  <1>7. ASSUME NEW i \in fresh
        PROVE  /\ created[i] \in Docs /\ created[i].type = type /\ created[i].kind = kind
               /\ created[i].index = at[i]
    <2> DEFINE x == at[i]
               q == IF \E u \in slots : u > x THEN MaxStack ELSE last
    <2>1. x \in Nat
      BY <1>2, <1>3
    <2>2. q \in 0 .. MaxStack
      BY <1>4, <1>5
    <2>3. created[i] = [type |-> type, kind |-> kind, index |-> x, quantity |-> q]
      BY <1>6
    <2> HIDE DEF x, q
    <2>4. /\ created[i] \in Docs /\ created[i].type = type /\ created[i].kind = kind
          /\ created[i].index = x
      BY <2>1, <2>2, <2>3 DEF Docs
    <2> QED
      BY <2>4 DEF x
  <1>8. DOMAIN created = fresh
    BY <1>1
  <1> HIDE DEF Stack
  <1> QED
    BY <1>2, <1>3, <1>7, <1>8 DEF Placed

\* Topping up stacks and creating others in free slots is sound, but for the tools
\* that may be among the new documents.
LEMMA StoreFits ==
  ASSUME NEW s \in Collections, NEW saved, NEW created, NEW kind, NEW capacity,
         Toppable(s, saved), Placed(s, created, kind, capacity)
  PROVE  /\ Store(s, saved, created) \in Collections
         /\ KeepsSlots(s, Store(s, saved, created))
         /\ \A i \in Ids \ DOMAIN created :
              /\ Store(s, saved, created)[i] = NoDoc <=> s[i] = NoDoc
              /\ s[i] # NoDoc => Store(s, saved, created)[i].type = s[i].type
         /\ \A i \in DOMAIN created : Store(s, saved, created)[i] = created[i]
  <1> DEFINE new == Store(s, saved, created)
             Topped(i) == [s[i] EXCEPT !.quantity = s[i].quantity + saved[i]]
  <1>1. \A i \in DOMAIN created : new[i] = created[i] /\ s[i] = NoDoc
    BY DEF Store, Held, Placed
  <1>2. ASSUME NEW i \in DOMAIN saved
        PROVE  /\ new[i] = Topped(i) /\ s[i] \in Docs
    BY HeldDoc DEF Store, Toppable, Placed, Held
  <1>3. \A i \in Ids : i \notin DOMAIN saved /\ i \notin DOMAIN created => new[i] = s[i]
    BY DEF Store
  <1>4. ASSUME NEW i \in DOMAIN saved
        PROVE  /\ Topped(i) \in Docs /\ Topped(i).type = s[i].type
               /\ Topped(i).index = s[i].index /\ Topped(i).kind = s[i].kind
    <2> DEFINE q == s[i].quantity + saved[i]
    <2>1. q \in 0 .. MaxStack
      BY DEF Toppable
    <2> HIDE DEF q
    <2>2. [s[i] EXCEPT !.quantity = q] \in Docs /\ [s[i] EXCEPT !.quantity = q].type = s[i].type
            /\ [s[i] EXCEPT !.quantity = q].index = s[i].index
            /\ [s[i] EXCEPT !.quantity = q].kind = s[i].kind
      BY <2>1, <1>2, RefilledDoc
    <2> QED
      BY <2>2 DEF q
  <1> HIDE DEF Topped
  <1>5. \A i \in Ids : new[i] \in Docs \cup {NoDoc}
    BY <1>1, <1>2, <1>3, <1>4 DEF Collections, Placed
  <1>6. new = [i \in Ids |-> new[i]]
    BY DEF Store
  <1>7. \A i \in Ids \ DOMAIN created :
          /\ new[i] = NoDoc <=> s[i] = NoDoc
          /\ s[i] # NoDoc => /\ new[i].type = s[i].type /\ new[i].kind = s[i].kind
                             /\ new[i].index = s[i].index
    BY <1>2, <1>3, <1>4, NoDocAssumption DEF Held, Toppable
  <1> HIDE DEF new
  <1>8. new \in Collections
    BY <1>5, <1>6 DEF Collections
  <1>9. ASSUME SlotsUniqueIn(s), NEW i \in Held(new), NEW j \in Held(new),
               new[i].kind = new[j].kind, new[i].index = new[j].index
        PROVE  i = j
    <2>1. CASE i \in DOMAIN created /\ j \in DOMAIN created
      BY <1>1, <1>9, <2>1 DEF Placed
    <2>2. CASE i \notin DOMAIN created /\ j \notin DOMAIN created
      BY <1>7, <1>9, <2>2 DEF Held, SlotsUniqueIn
    <2>3. \A k, l \in Held(new) :
            k \in DOMAIN created /\ l \notin DOMAIN created
              => ~ (new[k].kind = new[l].kind /\ new[k].index = new[l].index)
      BY <1>1, <1>7 DEF Held, Free, InKind, Placed
    <2> QED
      BY <1>9, <2>1, <2>2, <2>3
  <1>10. KeepsSlots(s, new)
    BY <1>9 DEF KeepsSlots, SlotsUniqueIn
  <1> QED
    BY <1>1, <1>7, <1>8, <1>10 DEF new

\* Adding goods is sound, whatever stacks are full or free.
LEMMA AddSound ==
  ASSUME NEW s \in Collections, NEW type \in Types \ Tools, NEW n \in Nat,
         NEW kind \in Kinds, NEW capacity \in Nat,
         NEW new \in AddResults(s, type, n, kind, capacity)
  PROVE  Sound(s, new)
  <1>0. PICK given \in Fillings(s, type, n, kind) :
          \E created \in NewStacks(s, type, n - Total(given), kind, capacity) :
            new = Store(s, given, created)
    BY DEF AddResults
  <1>1. PICK created \in NewStacks(s, type, n - Total(given), kind, capacity) :
          new = Store(s, given, created)
    BY <1>0
  <1>2. Toppable(s, given) /\ n - Total(given) \in Nat
    BY FillingsFit
  <1> DEFINE rest == n - Total(given)
  <1>3. Placed(s, created, kind, capacity) /\ \A i \in DOMAIN created : created[i].type = type
    <2>1. rest \in Nat /\ created \in NewStacks(s, type, rest, kind, capacity)
      BY <1>2
    <2> HIDE DEF rest
    <2> QED
      BY <2>1, NewStacksFit
  <1>4. /\ new \in Collections
        /\ KeepsSlots(s, new)
        /\ \A i \in Ids \ DOMAIN created :
             /\ new[i] = NoDoc <=> s[i] = NoDoc
             /\ s[i] # NoDoc => new[i].type = s[i].type
        /\ \A i \in DOMAIN created : new[i] = created[i]
    BY <1>1, <1>2, <1>3, StoreFits
  <1> QED
    BY <1>3, <1>4 DEF Sound, KeepsTypes, Held, Placed

\* A purchase of a tool creates one document, in a free slot.
LEMMA AddToolFits ==
  ASSUME NEW s \in Collections, NEW tool \in Tools, NEW capacity \in Nat,
         NEW new \in AddToolResults(s, tool, capacity)
  PROVE  /\ new \in Collections /\ KeepsSlots(s, new)
         /\ \E id \in Ids \ Held(s) :
              /\ new[id] # NoDoc /\ new[id].type = tool
              /\ \A i \in Ids \ {id} :
                   /\ new[i] = NoDoc <=> s[i] = NoDoc
                   /\ s[i] # NoDoc => new[i].type = s[i].type
  <1> DEFINE free == Free(s, "storage", capacity)
             Doc(slot) == [type |-> tool, kind |-> "storage", index |-> slot, quantity |-> 1]
  <1>0. PICK id \in Ids \ Held(s) : \E slot \in Lowest(free, 1) :
          new = Store(s, << >>, [i \in {id} |-> Doc(slot)])
    BY DEF AddToolResults
  <1>1. PICK slot \in Lowest(free, 1) :
          new = Store(s, << >>, [i \in {id} |-> Doc(slot)])
    BY <1>0
  <1>2. slot \in free /\ slot \in Nat
    BY LowestSubset DEF Free
  <1>3. Doc(slot) \in Docs /\ Doc(slot).kind = "storage" /\ Doc(slot).index = slot
          /\ Doc(slot).type = tool
    BY <1>2, StacksAssumption DEF Docs, Types, Kinds
  <1> HIDE DEF Doc, free
  <1> DEFINE created == [i \in {id} |-> Doc(slot)]
             saved == << >>
  <1>4. DOMAIN created = {id} /\ created[id] = Doc(slot)
    OBVIOUS
  <1>5. DOMAIN saved = {}
    OBVIOUS
  <1> HIDE DEF created, saved
  <1>6. Placed(s, created, "storage", capacity)
    BY <1>2, <1>3, <1>4 DEF free, Placed
  <1>7. Toppable(s, saved)
    BY <1>5 DEF Toppable
  <1>10. new = Store(s, saved, created)
    BY <1>1 DEF saved, created
  <1>11. /\ new \in Collections /\ KeepsSlots(s, new)
         /\ \A i \in Ids \ DOMAIN created :
              /\ new[i] = NoDoc <=> s[i] = NoDoc
              /\ s[i] # NoDoc => new[i].type = s[i].type
         /\ \A i \in DOMAIN created : new[i] = created[i]
    BY <1>6, <1>7, <1>10, StoreFits
  <1>12. new[id] # NoDoc /\ new[id].type = tool
    BY <1>3, <1>4, <1>11, NoDocAssumption
  <1> QED
    BY <1>4, <1>11, <1>12

-----------------------------------------------------------------------------
(* Deliver and retrieve.                                                   *)

\* Every document that is new has the type, the others keep theirs.
AddedTo(s, new, type) ==
  \A i \in Ids : new[i] # NoDoc =>
    IF s[i] = NoDoc THEN new[i].type = type ELSE new[i].type = s[i].type

\* Adding with only the first stack saved.
LEMMA AddFirstFits ==
  ASSUME NEW s \in Collections, NEW type \in Types, NEW n \in Nat, NEW kind \in Kinds,
         NEW new \in AddFirstResults(s, type, n, kind)
  PROVE  new \in Collections /\ KeepsSlots(s, new) /\ AddedTo(s, new, type)
  <1>1. PICK given \in Fillings(s, type, n, kind) :
          \E saved \in FirstOnly(s, given),
             created \in NewStacks(s, type, n - Total(given), kind, Capacity) :
               new = Store(s, saved, created)
    BY DEF AddFirstResults
  <1>2. PICK saved \in FirstOnly(s, given) :
          \E created \in NewStacks(s, type, n - Total(given), kind, Capacity) :
             new = Store(s, saved, created)
    BY <1>1
  <1> DEFINE rest == n - Total(given)
  <1>3. PICK created \in NewStacks(s, type, rest, kind, Capacity) :
          new = Store(s, saved, created)
    BY <1>2
  <1>4. Toppable(s, given) /\ rest \in Nat
    BY FillingsFit
  <1> HIDE DEF rest
  <1>5. /\ Placed(s, created, kind, Capacity)
        /\ \A i \in DOMAIN created : created[i].type = type
    BY <1>4, NewStacksFit, StacksAssumption
  <1>6. /\ DOMAIN saved \subseteq DOMAIN given
        /\ \A i \in DOMAIN saved : saved[i] = given[i]
    <2>1. CASE saved = << >>
      BY <2>1
    <2>2. CASE \E i \in DOMAIN given : saved = [j \in {i} |-> given[j]]
      BY <2>2
    <2> QED
      BY <2>1, <2>2 DEF FirstOnly
  <1>7. Toppable(s, saved)
    BY <1>4, <1>6 DEF Toppable
  <1>8. /\ new \in Collections
        /\ KeepsSlots(s, new)
        /\ \A i \in Ids \ DOMAIN created :
             /\ new[i] = NoDoc <=> s[i] = NoDoc
             /\ s[i] # NoDoc => new[i].type = s[i].type
        /\ \A i \in DOMAIN created : new[i] = created[i]
    BY <1>3, <1>5, <1>7, StoreFits
  <1> QED
    BY <1>5, <1>8 DEF AddedTo, Placed, Held

\* A stack that is delivered or retrieved frees its slot and finds another.
LEMMA ShiftSound ==
  ASSUME NEW s \in Collections, NEW i \in Ids, NEW from \in Kinds, NEW to \in Kinds,
         NEW new \in ShiftResults(s, i, from, to)
  PROVE  Sound(s, new)
  <1> DEFINE left == [s EXCEPT ![i] = NoDoc]
             type == s[i].type
             n    == s[i].quantity
  <1>1. i \in Held(s) /\ type \in Products
    BY DEF ShiftResults, InKind
  <1>2. n \in Nat /\ type \in Types /\ type \notin Tools
    BY <1>1, HeldDoc, StacksAssumption DEF Types
  <1>3. left \in Collections
    BY DEF Collections
  <1>4. new \in AddFirstResults(left, type, n, to)
    BY <1>1 DEF ShiftResults
  <1>5. /\ left[i] = NoDoc /\ s[i] # NoDoc
        /\ \A j \in Ids \ {i} : left[j] = s[j]
    BY <1>1 DEF Collections, Held
  <1>6. KeepsSlots(s, left)
    BY RemovedSound DEF Sound
  <1> HIDE DEF left, n, type
  <1>7. AddedTo(left, new, type) /\ KeepsSlots(left, new) /\ new \in Collections
    BY <1>2, <1>3, <1>4, AddFirstFits
  <1>8. KeepsTypes(s, new)
    BY <1>2, <1>5, <1>7 DEF KeepsTypes, AddedTo, type
  <1> QED
    BY <1>6, <1>7, <1>8 DEF Sound, KeepsSlots

-----------------------------------------------------------------------------
(* Sort.                                                                   *)

\* A set of natural numbers that is not empty has a least member.
LEMMA LeastNatural ==
  ASSUME NEW S \in SUBSET Nat, S # {}
  PROVE  \E x \in S : \A y \in S : x <= y
  <1> DEFINE R == OpToRel(<, Nat)
  <1>1. IsWellFoundedOn(R, Nat)
    BY NatLessThanWellFounded
  <1>2. \A x, y \in Nat : x < y => <<x, y>> \in R
    BY DEF OpToRel
  <1> HIDE DEF R
  <1>3. PICK x \in S : \A y \in S : ~ (<<y, x>> \in R)
    BY <1>1, WFMin
  <1>4. \A y \in S : y \in Nat
    OBVIOUS
  <1>5. \A y \in S : ~ (y < x)
    BY <1>2, <1>3, <1>4
  <1> QED
    BY <1>4, <1>5

Orders(s, kind) == Bijection(InKind(s, kind), 1 .. Cardinality(InKind(s, kind)))

\* Documents are found one after the other.
LEMMA OrderFits ==
  ASSUME NEW s \in Collections, NEW kind \in Kinds, NEW order \in Orders(s, kind)
  PROVE  \A i, j \in InKind(s, kind) : order[i] \in Nat /\ (order[i] = order[j] => i = j)
BY DEF Orders, Bijection, Injection, IsInjective

\* When the first document of a type is found.
Earliest(s, kind, order, type) ==
  CHOOSE n \in {order[i] : i \in OfType(s, kind, type)} :
    \A m \in {order[i] : i \in OfType(s, kind, type)} : n <= m

LEMMA EarliestFits ==
  ASSUME NEW s \in Collections, NEW kind \in Kinds, NEW order \in Orders(s, kind),
         NEW type, OfType(s, kind, type) # {}
  PROVE  /\ Earliest(s, kind, order, type) \in Nat
         /\ \E p \in OfType(s, kind, type) : order[p] = Earliest(s, kind, order, type)
         /\ \A q \in OfType(s, kind, type) : Earliest(s, kind, order, type) <= order[q]
  <1> DEFINE found == {order[i] : i \in OfType(s, kind, type)}
  <1>1. found \in SUBSET Nat /\ found # {}
    BY OrderFits DEF OfType
  <1>2. \E n \in found : \A m \in found : n <= m
    <2> HIDE DEF found
    <2> QED
      BY <1>1, LeastNatural
  <1>3. /\ Earliest(s, kind, order, type) \in found
        /\ \A m \in found : Earliest(s, kind, order, type) <= m
    BY <1>2 DEF Earliest
  <1> QED
    BY <1>1, <1>3

\* Types come in the order of their earliest documents, no two at the same place.
LEMMA MetEarlierFits ==
  ASSUME NEW s \in Collections, NEW kind \in Kinds, NEW order \in Orders(s, kind),
         NEW i \in InKind(s, kind), NEW j \in InKind(s, kind)
  PROVE  LET e == Earliest(s, kind, order, s[i].type)
             f == Earliest(s, kind, order, s[j].type)
         IN  /\ e \in Nat /\ f \in Nat
             /\ MetEarlier(s, kind, order, i, j) <=> e < f
             /\ e = f => s[i].type = s[j].type
  <1> DEFINE e == Earliest(s, kind, order, s[i].type)
             f == Earliest(s, kind, order, s[j].type)
  <1>1. /\ e \in Nat
        /\ \E p \in OfType(s, kind, s[i].type) : order[p] = e
        /\ \A q \in OfType(s, kind, s[i].type) : e <= order[q]
    <2>1. OfType(s, kind, s[i].type) # {}
      BY DEF OfType
    <2> QED
      BY <2>1, EarliestFits
  <1>2. /\ f \in Nat
        /\ \E p \in OfType(s, kind, s[j].type) : order[p] = f
        /\ \A q \in OfType(s, kind, s[j].type) : f <= order[q]
    <2>1. OfType(s, kind, s[j].type) # {}
      BY DEF OfType
    <2> QED
      BY <2>1, EarliestFits
  <1> HIDE DEF e, f
  <1>3. \A k \in InKind(s, kind) : order[k] \in Nat
    BY OrderFits
  <1>4. MetEarlier(s, kind, order, i, j) => e < f
    BY <1>1, <1>2, <1>3 DEF MetEarlier, OfType
  <1>5. e < f => MetEarlier(s, kind, order, i, j)
    BY <1>1, <1>2, <1>3 DEF MetEarlier, OfType
  <1>6. e = f => s[i].type = s[j].type
    BY <1>1, <1>2, OrderFits DEF OfType
  <1> QED
    BY <1>1, <1>2, <1>4, <1>5, <1>6 DEF e, f

\* The entries of the sorted list are in a strict total order.
LEMMA BeforeIsOrder ==
  ASSUME NEW s \in Collections, NEW kind \in Kinds, NEW order \in Orders(s, kind)
  PROVE  \A d, e \in InKind(s, kind) \X Nat :
           /\ ~ Before(s, kind, order, d, d)
           /\ d # e => Before(s, kind, order, d, e) \/ Before(s, kind, order, e, d)
           /\ \A f \in InKind(s, kind) \X Nat :
                Before(s, kind, order, d, e) /\ Before(s, kind, order, e, f)
                  => Before(s, kind, order, d, f)
  <1> DEFINE T == InKind(s, kind)
             Met(i) == Earliest(s, kind, order, s[i].type)
  <1>1. \A i, j \in T :
          /\ Met(i) \in Nat /\ order[i] \in Nat
          /\ MetEarlier(s, kind, order, i, j) <=> Met(i) < Met(j)
          /\ Met(i) = Met(j) <=> s[i].type = s[j].type
          /\ order[i] = order[j] => i = j
    BY MetEarlierFits, OrderFits
  <1> HIDE DEF Met
  <1>2. \A d, e \in T \X Nat :
          Before(s, kind, order, d, e) <=>
            \/ Met(d[1]) < Met(e[1])
            \/ /\ Met(d[1]) = Met(e[1])
               /\ order[d[1]] < order[e[1]] \/ (d[1] = e[1] /\ d[2] < e[2])
    BY <1>1 DEF Before
  <1>3. ASSUME NEW d \in T \X Nat
        PROVE  ~ Before(s, kind, order, d, d)
    BY <1>1, <1>2
  <1>4. ASSUME NEW d \in T \X Nat, NEW e \in T \X Nat, d # e
        PROVE  Before(s, kind, order, d, e) \/ Before(s, kind, order, e, d)
    BY <1>1, <1>2, <1>4
  <1>5. ASSUME NEW d \in T \X Nat, NEW e \in T \X Nat, NEW f \in T \X Nat,
               Before(s, kind, order, d, e), Before(s, kind, order, e, f)
        PROVE  Before(s, kind, order, d, f)
    BY <1>1, <1>2, <1>5
  <1> QED
    BY <1>3, <1>4, <1>5

\* How many entries come before two entries differs.
LEMMA PlacesDiffer ==
  ASSUME NEW s \in Collections, NEW kind \in Kinds, NEW order \in Orders(s, kind),
         NEW kept, kept \subseteq InKind(s, kind) \X Nat, IsFiniteSet(kept),
         NEW d \in kept, NEW e \in kept, d # e
  PROVE  LET Place(x) == Cardinality({y \in kept : Before(s, kind, order, y, x)})
         IN  Place(d) \in Nat /\ Place(d) # Place(e)
  <1> DEFINE Earlier(x) == {y \in kept : Before(s, kind, order, y, x)}
  <1>1. \A x \in kept : Earlier(x) \in SUBSET kept /\ IsFiniteSet(Earlier(x))
    BY FS_Subset
  <1>2. ASSUME NEW x \in kept, NEW y \in kept, Before(s, kind, order, x, y)
        PROVE  Cardinality(Earlier(x)) # Cardinality(Earlier(y))
    <2>1. x \in Earlier(y) /\ x \notin Earlier(x)
      BY <1>2, BeforeIsOrder
    <2>2. Earlier(x) \in SUBSET Earlier(y)
      BY <1>2, BeforeIsOrder
    <2> HIDE DEF Earlier
    <2> QED
      BY <1>1, <2>1, <2>2, FS_Subset
  <1>3. Before(s, kind, order, d, e) \/ Before(s, kind, order, e, d)
    BY BeforeIsOrder
  <1>4. Cardinality(Earlier(d)) \in Nat
    <2> HIDE DEF Earlier
    <2> QED
      BY <1>1, FS_CardinalityType
  <1> QED
    BY <1>2, <1>3, <1>4

\* The quantities a sort writes are those of a stack.
LEMMA SortedQuantityFits ==
  ASSUME NEW s \in Collections, NEW kind \in Kinds, NEW type, NEW rank
  PROVE  SortedQuantity(s, kind, type, rank) \in 0 .. MaxStack
  <1>1. Times(type) \in Nat
    <2>1. IsFiniteSet(DOMAIN Priorities)
      BY StacksAssumption, FS_Interval
    <2>2. {p \in DOMAIN Priorities : Priorities[p] = type} \in SUBSET DOMAIN Priorities
      OBVIOUS
    <2> QED
      BY <2>1, <2>2, FS_Subset, FS_CardinalityType DEF Times
  <1>2. Quantity(s, OfType(s, kind, type)) \in Nat
    <2> DEFINE f == [i \in OfType(s, kind, type) |-> s[i].quantity]
    <2>1. DOMAIN f \in SUBSET Ids
      BY DEF OfType, InKind, Held
    <2> HIDE DEF f
    <2>2. Total(f) \in Nat
      BY <2>1, IdsFinite, TotalType
    <2> QED
      BY <2>2 DEF Quantity, f
  <1>3. Merge(s, kind, type) \in Nat
    BY <1>1, <1>2 DEF Merge
  <1>4. Merge(s, kind, type) % MaxStack \in 0 .. MaxStack /\ MaxStack \in 0 .. MaxStack
    BY <1>3, StacksAssumption
  <1> QED
    BY <1>4 DEF SortedQuantity

\* A sort of one kind gives every document that stays an index of its own.
LEMMA SortKindSound ==
  ASSUME NEW s \in Collections, NEW kind \in Kinds, NEW new \in SortKindResults(s, kind)
  PROVE  Sound(s, new)
  <1>1. PICK order \in Orders(s, kind) : new = Sorted(s, kind, order)
    BY DEF SortKindResults, Orders
  <1> DEFINE T == InKind(s, kind)
             kept == Kept(s, kind, order)
             Last(i) == <<i, Times(s[i].type)>>
             Index(i) == Cardinality({e \in kept : Before(s, kind, order, e, Last(i))})
             Amount(i) == IF s[i].type \in Tools THEN s[i].quantity
                          ELSE SortedQuantity(s, kind, s[i].type, Rank(s, kind, order, i))
             Doc(i) == [s[i] EXCEPT !.index = Index(i), !.quantity = Amount(i)]
             stay == {i \in T : Last(i) \in kept}
  <1>2. \A i \in Ids : new[i] = IF i \notin T THEN s[i]
                                ELSE IF i \in stay THEN Doc(i) ELSE NoDoc
    BY <1>1 DEF Sorted, SortedDoc
  <1>3. new = [i \in Ids |-> new[i]]
    BY <1>1 DEF Sorted
  <1>4. kept \subseteq T \X Nat /\ IsFiniteSet(kept)
    <2>1. IsFiniteSet(T)
      BY IdsFinite DEF InKind, Held
    <2>2. Len(Priorities) \in Nat
      BY StacksAssumption
    <2>3. IsFiniteSet(T \X (1 .. Len(Priorities)))
      <3>1. IsFiniteSet(1 .. Len(Priorities))
        BY <2>2, FS_Interval
      <3> HIDE DEF T
      <3> QED
        BY <2>1, <3>1, FS_Product
    <2>4. kept \in SUBSET (T \X (1 .. Len(Priorities)))
      BY DEF Kept
    <2> HIDE DEF T, kept
    <2> QED
      BY <2>2, <2>3, <2>4, FS_Subset
  <1>5. ASSUME NEW i \in stay, NEW j \in stay, i # j
        PROVE  Index(i) \in Nat /\ Index(i) # Index(j)
    <2>1. Last(i) \in kept /\ Last(j) \in kept /\ Last(i) # Last(j)
      BY <1>5
    <2> DEFINE d == Last(i)
               e == Last(j)
    <2>2. d \in kept /\ e \in kept /\ d # e
      BY <2>1
    <2> HIDE DEF kept, d, e
    <2>3. LET Place(x) == Cardinality({y \in kept : Before(s, kind, order, y, x)})
          IN  Place(d) \in Nat /\ Place(d) # Place(e)
      BY <1>4, <2>2, PlacesDiffer
    <2> QED
      BY <2>3 DEF d, e
  <1>6. ASSUME NEW i \in stay
        PROVE  Index(i) \in Nat
    <2> DEFINE earlier == {e \in kept : Before(s, kind, order, e, Last(i))}
    <2>1. earlier \in SUBSET kept
      OBVIOUS
    <2> HIDE DEF earlier, kept
    <2>2. Cardinality(earlier) \in Nat
      BY <1>4, <2>1, FS_Subset, FS_CardinalityType
    <2> QED
      BY <2>2 DEF earlier
  <1>7. ASSUME NEW i \in stay
        PROVE  Amount(i) \in 0 .. MaxStack
    <2>1. s[i].quantity \in 0 .. MaxStack
      BY HeldDoc DEF InKind
    <2> QED
      BY <2>1, SortedQuantityFits
  <1>8. ASSUME NEW i \in T
        PROVE  i \in Ids /\ s[i] # NoDoc /\ s[i] \in Docs /\ s[i].kind = kind
    BY HeldDoc DEF InKind, Held
  <1> HIDE DEF T, kept, Last, Index, Amount, stay
  <1>9. ASSUME NEW i \in stay
        PROVE  /\ Doc(i) \in Docs /\ Doc(i).type = s[i].type /\ Doc(i).kind = kind
               /\ Doc(i).index = Index(i)
    <2>1. s[i] \in Docs /\ s[i].kind = kind
      BY <1>8 DEF stay
    <2> DEFINE x == Index(i)
               q == Amount(i)
    <2>2. x \in Nat /\ q \in 0 .. MaxStack
      BY <1>6, <1>7
    <2> HIDE DEF x, q
    <2>3. LET doc == [s[i] EXCEPT !.index = x, !.quantity = q]
          IN  doc \in Docs /\ doc.type = s[i].type /\ doc.kind = kind /\ doc.index = x
      <3>1. x \in Int
        BY <2>2
      <3> QED BY <2>1, <2>2, <3>1 DEF Docs
    <2> QED
      BY <2>3 DEF x, q
  <1> HIDE DEF Doc
  <1>10. new \in Collections
    <2>1. \A i \in Ids : new[i] \in Docs \cup {NoDoc}
      BY <1>2, <1>9 DEF Collections
    <2> QED
      BY <1>3, <2>1 DEF Collections
  <1>11. KeepsTypes(s, new)
    BY <1>2, <1>8, <1>9 DEF KeepsTypes
  <1>12. ASSUME SlotsUniqueIn(s), NEW i \in Held(new), NEW j \in Held(new),
                new[i].kind = new[j].kind, new[i].index = new[j].index
         PROVE  i = j
    <2>1. \A k \in Held(new) : k \in Ids /\ (k \in stay \/ (k \notin T /\ k \in Held(s)))
      BY <1>2, <1>8 DEF Held
    <2>2. \A k \in Held(new) : k \notin T /\ k \in Held(s) => new[k] = s[k] /\ s[k].kind # kind
      BY <1>2 DEF T, InKind, Held
    <2>3. \A k \in stay : new[k] = Doc(k)
      BY <1>2, <1>8 DEF stay
    <2>4. CASE i \in stay /\ j \in stay
      BY <1>5, <1>9, <1>12, <2>3, <2>4
    <2>5. CASE i \notin stay /\ j \notin stay
      BY <1>12, <2>1, <2>2, <2>5 DEF SlotsUniqueIn
    <2>6. \A k, l \in Held(new) : k \in stay /\ l \notin stay => new[k].kind # new[l].kind
      BY <1>9, <2>1, <2>2, <2>3
    <2> QED
      BY <1>12, <2>4, <2>5, <2>6
  <1> QED
    BY <1>10, <1>11, <1>12 DEF Sound, KeepsSlots, SlotsUniqueIn

\* A sort creates no document.
LEMMA SortedAway ==
  ASSUME NEW s, NEW kind, NEW new \in SortKindResults(s, kind), NEW i \in Ids,
         s[i] = NoDoc
  PROVE  new[i] = NoDoc
  <1>1. PICK order : new = Sorted(s, kind, order)
    BY DEF SortKindResults
  <1> QED
    BY <1>1 DEF Sorted, InKind, Held

\* A sort of the storage and then of the tools is sound.
LEMMA SortSound ==
  ASSUME NEW s \in Collections, NEW new \in SortResults(s)
  PROVE  Sound(s, new)
  <1>1. PICK sorted \in SortKindResults(s, "storage") : new \in SortKindResults(sorted, "tool")
    BY DEF SortResults
  <1>2. Sound(s, sorted)
    BY SortKindSound DEF Kinds
  <1>3. Sound(sorted, new)
    BY <1>1, <1>2, SortKindSound DEF Kinds, Sound
  <1>4. \A i \in Ids : sorted[i] = NoDoc => new[i] = NoDoc
    BY <1>1, SortedAway
  <1> QED
    BY <1>2, <1>3, <1>4 DEF Sound, KeepsSlots, KeepsTypes

-----------------------------------------------------------------------------
(* What a handler leaves behind, whichever it is.                          *)

\* The collection with one tool more than s, of which s has none.
BuysTool(s, new) ==
  \E tool \in Tools, id \in Ids \ Held(s) :
    /\ ~ Owns(s, tool)
    /\ new[id] # NoDoc /\ new[id].type = tool
    /\ \A i \in Ids \ {id} :
         /\ new[i] = NoDoc <=> s[i] = NoDoc
         /\ s[i] # NoDoc => new[i].type = s[i].type

Outcome(d, new) ==
  /\ txn[d] # NoTxn
  /\ new \in Collections
  /\ KeepsSlots(txn[d].docs, new)
  /\ Commit(d, new)
  /\ \/ /\ KeepsTypes(txn[d].docs, new)
        /\ \E userWritten \in BOOLEAN : txn' = OpenAfter(d, userWritten)
     \/ /\ BuysTool(txn[d].docs, new)
        /\ UserUntouched(d)
        /\ txn' = OpenAfter(d, TRUE)

CountersType ==
  golds' \in Nat /\ gained' \in [Types -> Nat] /\ spent' \in [Types -> Nat]

\* The snapshot of an open transaction is a collection.
LEMMA SnapshotType ==
  ASSUME TypeOK, NEW d \in Devices, txn[d] # NoTxn
  PROVE  txn[d].docs \in Collections /\ txn[d].userWritten \in BOOLEAN
BY DEF TypeOK

\* A sound collection that is committed is the outcome of a handler.
LEMMA SoundOutcome ==
  ASSUME TypeOK, NEW d \in Devices, NEW new, Sound(txn[d].docs, new),
         CommitInventories(d, new) \/ CommitWithUser(d, new)
  PROVE  Outcome(d, new) /\ UNCHANGED <<jobs, copy>>
BY DEF Sound, Outcome, CommitInventories, CommitWithUser, Commit

\* Every handler commits such a collection.
LEMMA HandleOutcome ==
  ASSUME TypeOK, NEW d \in Devices, Handle(d)
  PROVE  /\ \E new : Outcome(d, new)
         /\ UNCHANGED <<jobs, copy>>
         /\ CountersType
  <1> DEFINE s == txn[d].docs
  <1>0. txn[d] # NoTxn /\ s \in Collections
    BY SnapshotType DEF Handle, Gain, Buy, BuyTool, EarnGold, Use, Delete, Move, Sort,
                        Deliver, Retrieve, CommitWithUser, Commit
  <1>k. "storage" \in Kinds /\ "delivery" \in Kinds /\ Capacity \in Nat
    BY StacksAssumption DEF Kinds
  <1>u. golds \in Nat /\ gained \in [Types -> Nat] /\ spent \in [Types -> Nat]
    BY DEF TypeOK
  <1> HIDE DEF s
  <1>1. ASSUME NEW type \in Products \cup Buyable, NEW n \in 1 .. MaxGained,
               NEW new \in AddResults(s, type, n, "storage", Capacity)
        PROVE  Sound(s, new) /\ type \in Types /\ n \in Nat
    <2>1. type \in Types \ Tools /\ n \in Nat
      BY StacksAssumption, StorehouseAssumption DEF Types, Buyable
    <2> QED
      BY <1>0, <1>1, <1>k, <2>1, AddSound
  <1>2. ASSUME NEW type \in Products, NEW n \in 1 .. MaxGained, Gain(d, type, n)
        PROVE  /\ \E new : Outcome(d, new)
               /\ UNCHANGED <<jobs, copy>>
               /\ CountersType
    <2>1. PICK new \in AddResults(s, type, n, "storage", Capacity) : CommitWithUser(d, new)
      BY <1>2 DEF Gain, s
    <2>2. Sound(s, new) /\ type \in Types /\ n \in Nat
      BY <1>1
    <2>3. CountersType
      BY <1>2, <1>u, <2>2 DEF Gain, CountersType
    <2> QED
      BY <2>1, <2>2, <2>3, SoundOutcome DEF s
  <1>3. ASSUME NEW type \in Buyable, NEW n \in 1 .. MaxGained, Buy(d, type, n)
        PROVE  /\ \E new : Outcome(d, new)
               /\ UNCHANGED <<jobs, copy>>
               /\ CountersType
    <2>1. PICK new \in AddResults(s, type, n, "storage", Capacity) : CommitWithUser(d, new)
      BY <1>3 DEF Buy, s
    <2>2. Sound(s, new) /\ type \in Types /\ n \in Nat
      BY <1>1
    <2>3. Price[type] * n \in Nat
      BY <2>2, StorehouseAssumption
    <2>4. CountersType
      BY <1>3, <1>u, <2>2, <2>3 DEF Buy, CountersType
    <2> QED
      BY <2>1, <2>2, <2>4, SoundOutcome DEF s
  <1>4. ASSUME NEW tool \in Tools, BuyTool(d, tool)
        PROVE  /\ \E new : Outcome(d, new)
               /\ UNCHANGED <<jobs, copy>>
               /\ CountersType
    <2>1. PICK new \in AddToolResults(s, tool, Capacity) : CommitWithUser(d, new)
      BY <1>4 DEF BuyTool, s
    <2>2. new \in Collections /\ KeepsSlots(s, new)
      BY <1>0, <1>k, AddToolFits
    <2>3. BuysTool(s, new)
      <3>1. ~ Owns(s, tool)
        BY <1>4 DEF BuyTool, s
      <3> QED
        BY <1>0, <1>k, <3>1, AddToolFits DEF BuysTool
    <2>4. Outcome(d, new) /\ UNCHANGED <<jobs, copy>>
      BY <1>0, <2>1, <2>2, <2>3 DEF Outcome, CommitWithUser, s
    <2>5. CountersType
      <3>1. Price[tool] \in Nat /\ tool \in Types
        BY StorehouseAssumption DEF Types
      <3> QED
        BY <1>4, <1>u, <3>1 DEF BuyTool, CountersType
    <2> QED
      BY <2>4, <2>5
  <1>5. ASSUME NEW amount \in Earnings, EarnGold(d, amount)
        PROVE  /\ \E new : Outcome(d, new)
               /\ UNCHANGED <<jobs, copy>>
               /\ CountersType
    <2>1. CommitWithUser(d, s)
      BY <1>5 DEF EarnGold, s
    <2>2. Sound(s, s)
      BY <1>0 DEF Sound, KeepsSlots, KeepsTypes
    <2>3. CountersType
      BY <1>5, <1>u, StorehouseAssumption DEF EarnGold, CountersType
    <2> QED
      BY <2>1, <2>2, <2>3, SoundOutcome DEF s
  <1>6. ASSUME NEW i \in Ids, Use(d, i)
        PROVE  /\ \E new : Outcome(d, new)
               /\ UNCHANGED <<jobs, copy>>
               /\ CountersType
    <2>1. CommitWithUser(d, Taken(s, i, 1)) /\ i \in Held(s)
      BY <1>6 DEF Use, s
    <2>2. Sound(s, Taken(s, i, 1))
      BY <1>0, <2>1, TakenSound
    <2>3. CountersType
      <3> DEFINE type == s[i].type
      <3>1. type \in Types
        BY <1>0, <2>1, HeldDoc
      <3>2. spent' = [spent EXCEPT ![type] = @ + 1] /\ UNCHANGED <<golds, gained>>
        BY <1>6 DEF Use, s
      <3> HIDE DEF type
      <3> QED
        BY <1>u, <3>1, <3>2 DEF CountersType
    <2> QED
      BY <2>1, <2>2, <2>3, SoundOutcome DEF s
  <1>7. ASSUME CountersType, NEW new, CommitInventories(d, new), Sound(s, new)
        PROVE  /\ Outcome(d, new)
               /\ UNCHANGED <<jobs, copy>>
    BY <1>7, SoundOutcome DEF s
  <1>8. ASSUME NEW new, CommitInventories(d, new)
        PROVE  CountersType
    BY <1>u, <1>8 DEF CommitInventories, CountersType
  <1>9. ASSUME NEW i \in Ids, Delete(d, i)
        PROVE  \E new : Sound(s, new) /\ CommitInventories(d, new)
    BY <1>0, <1>9, RemovedSound DEF Delete, s
  <1>10. ASSUME NEW i \in Ids, NEW index \in Targets, NEW isTool \in BOOLEAN,
                Move(d, i, index, isTool)
         PROVE  \E new : Sound(s, new) /\ CommitInventories(d, new)
    <2>1. index \in Int
      BY <1>10, StorehouseAssumption
    <2> QED BY <1>0, <1>k, <1>10, <2>1, MoveSound DEF Move, s
  <1>11. ASSUME Sort(d)
         PROVE  \E new : Sound(s, new) /\ CommitInventories(d, new)
    BY <1>0, <1>11, SortSound DEF Sort, s
  <1>12. ASSUME NEW i \in Ids, Deliver(d, i)
         PROVE  \E new : Sound(s, new) /\ CommitInventories(d, new)
    BY <1>0, <1>k, <1>12, ShiftSound DEF Deliver, s
  <1>13. ASSUME NEW i \in Ids, Retrieve(d, i)
         PROVE  \E new : Sound(s, new) /\ CommitInventories(d, new)
    BY <1>0, <1>k, <1>13, ShiftSound DEF Retrieve, s
  <1> QED
    BY <1>2, <1>3, <1>4, <1>5, <1>6, <1>7, <1>8, <1>9, <1>10, <1>11, <1>12, <1>13 DEF Handle

-----------------------------------------------------------------------------
(* Types.                                                                  *)

\* The gold of a box is a number, as what is in it is finite.
LEMMA WorthType ==
  ASSUME docs \in Collections, Sellable
  PROVE  Worth \in Nat
  <1>1. IsFiniteSet(Box)
    BY IdsFinite DEF Box, InKind, Held
  <1>2. ASSUME NEW i \in Box
        PROVE  IsFiniteSet(Pieces(i))
    <2> DEFINE units == 1 .. docs[i].quantity
               worth == 1 .. GoldAmount[docs[i].type]
    <2>1. docs[i].quantity \in Nat /\ GoldAmount[docs[i].type] \in Nat
      BY HeldDoc, StorehouseAssumption DEF Sellable, Box, InKind
    <2>2. IsFiniteSet(units) /\ IsFiniteSet(worth)
      <3>1. \A n \in Nat : IsFiniteSet(1 .. n)
        BY FS_Interval
      <3> QED
        BY <2>1, <3>1
    <2>2a. IsFiniteSet({i})
      BY FS_Singleton
    <2>3. Pieces(i) = ({i} \X units) \X worth
      BY DEF Pieces
    <2> HIDE DEF units, worth
    <2>4. IsFiniteSet({i} \X units)
      BY <2>2, <2>2a, FS_Product
    <2> QED
      BY <2>2, <2>3, <2>4, FS_Product
  <1> DEFINE all == {Pieces(i) : i \in Box}
  <1>3. IsFiniteSet(all)
    <2> DEFINE f == [i \in Box |-> Pieces(i)]
    <2>1. f \in Surjection(Box, all)
      BY DEF Surjection
    <2> HIDE DEF f, all
    <2> QED
      BY <1>1, <2>1, FS_Surjection
  <1>4. \A P \in all : IsFiniteSet(P)
    BY <1>2
  <1> HIDE DEF all
  <1>5. Cardinality(UNION all) \in Nat
    BY <1>3, <1>4, FS_UNION, FS_CardinalityType
  <1> QED
    BY <1>5 DEF Worth, all

\* What a sale adds up is a number.
LEMMA SaleType ==
  ASSUME TypeOK
  PROVE  (Sellable => Worth \in Nat) /\ \A type \in Types : Sold(type) \in Nat
  <1>1. IsFiniteSet(Box) /\ Box \subseteq Ids
    BY IdsFinite DEF Box, InKind, Held
  <1>2. ASSUME NEW type \in Types
        PROVE  Sold(type) \in Nat
    <2> DEFINE f == [i \in {j \in Box : docs[j].type = type} |-> docs[i].quantity]
    <2>1. DOMAIN f \in SUBSET Ids
      BY <1>1
    <2> HIDE DEF f
    <2>2. Total(f) \in Nat
      BY <2>1, IdsFinite, TotalType
    <2> QED
      BY <2>2 DEF Sold, Quantity, f
  <1> QED
    BY <1>2, WorthType DEF TypeOK

\* The type invariant holds, whatever number of devices and workers there are.
THEOREM TypeCorrect == Spec => []TypeOK
  <1>1. Init => TypeOK
    BY StorehouseAssumption DEF Init, TypeOK, Collections
  <1>2. TypeOK /\ [Next]_vars => TypeOK'
    <2> SUFFICES ASSUME TypeOK, [Next]_vars
                 PROVE  TypeOK'
      OBVIOUS
    <2>1. ASSUME NEW d \in Devices, Begin(d)
          PROVE  TypeOK'
      BY <2>1 DEF TypeOK, Begin
    <2>2. ASSUME NEW d \in Devices, Handle(d)
          PROVE  TypeOK'
      <3>1. PICK new : Outcome(d, new)
        BY <2>2, HandleOutcome
      <3>2. docs' \in Collections
        BY <3>1 DEF Outcome, Commit, Collections, TypeOK
      <3>3. txn' \in [Devices -> [docs : Collections, userWritten : BOOLEAN] \cup {NoTxn}]
        <4>1. PICK userWritten \in BOOLEAN : txn' = OpenAfter(d, userWritten)
          BY <3>1 DEF Outcome
        <4>2. ASSUME NEW e \in Devices, txn[e] # NoTxn
              PROVE  [txn[e] EXCEPT !.userWritten = @ \/ userWritten]
                       \in [docs : Collections, userWritten : BOOLEAN]
          BY <4>2 DEF TypeOK
        <4> QED
          BY <4>1, <4>2 DEF OpenAfter, TypeOK
      <3>4. CountersType /\ UNCHANGED <<jobs, copy>>
        BY <2>2, HandleOutcome
      <3> QED
        BY <3>2, <3>3, <3>4 DEF TypeOK, CountersType
    <2>3. CASE Schedule
      BY <2>3 DEF TypeOK, Schedule
    <2>4. CASE DropJob
      BY <2>4 DEF TypeOK, DropJob
    <2>5. ASSUME NEW w \in Workers, ReadsUser(w)
          PROVE  TypeOK'
      BY <2>5 DEF TypeOK, ReadsUser
    <2>6. ASSUME NEW w \in Workers, SellsBox(w)
          PROVE  TypeOK'
      <3>1. docs' \in Collections
        BY <2>6 DEF TypeOK, SellsBox, Collections
      <3>2. copy[w].golds \in Nat /\ copy[w].read \in Nat
        BY <2>6 DEF TypeOK, SellsBox
      <3>3. golds' \in Nat
        BY <2>6, <3>2, SaleType DEF TypeOK, SellsBox
      <3>4. spent' \in [Types -> Nat]
        BY <2>6, SaleType DEF TypeOK, SellsBox
      <3>5. txn' \in [Devices -> [docs : Collections, userWritten : BOOLEAN] \cup {NoTxn}]
        BY <2>6 DEF TypeOK, SellsBox
      <3>6. copy' \in [Workers -> [golds : Nat, read : Nat, retries : Nat] \cup {NoCopy}]
        BY <2>6 DEF TypeOK, SellsBox
      <3>7. jobs' \in Nat /\ gained' \in [Types -> Nat]
        BY <2>6 DEF TypeOK, SellsBox
      <3> QED
        BY <3>1, <3>3, <3>4, <3>5, <3>6, <3>7 DEF TypeOK
    <2>7. ASSUME NEW w \in Workers, RetriesSale(w)
          PROVE  TypeOK'
      <3> DEFINE more == [copy[w] EXCEPT !.golds = @ + Worth, !.retries = @ + 1]
      <3>1. more \in [golds : Nat, read : Nat, retries : Nat]
        <4>1. copy[w] \in [golds : Nat, read : Nat, retries : Nat]
          BY <2>7 DEF TypeOK, RetriesSale
        <4>2. Worth \in Nat
          BY <2>7, SaleType DEF RetriesSale
        <4> DEFINE sum == copy[w].golds + Worth
                   count == copy[w].retries + 1
        <4>3. sum \in Nat /\ count \in Nat
          BY <4>1, <4>2
        <4> HIDE DEF sum, count
        <4>4. [copy[w] EXCEPT !.golds = sum, !.retries = count]
                \in [golds : Nat, read : Nat, retries : Nat]
          BY <4>1, <4>3
        <4> QED
          BY <4>4 DEF sum, count
      <3>2. copy' = [copy EXCEPT ![w] = more]
        BY <2>7 DEF RetriesSale
      <3> HIDE DEF more
      <3> QED
        BY <2>7, <3>1, <3>2 DEF TypeOK, RetriesSale
    <2>8. ASSUME NEW w \in Workers, GivesUp(w)
          PROVE  TypeOK'
      BY <2>8 DEF TypeOK, GivesUp
    <2>9. CASE UNCHANGED vars
      BY <2>9 DEF TypeOK, vars
    <2> QED
      BY <2>1, <2>2, <2>3, <2>4, <2>5, <2>6, <2>7, <2>8, <2>9 DEF Next, Work
  <1> QED
    BY <1>1, <1>2, PTL DEF Spec

-----------------------------------------------------------------------------
(* One tool of a kind, with any number of devices.  A snapshot may be old, *)
(* but an id never changes its type; and while the user document has not   *)
(* been written since, no tool was bought since.                           *)

SameTypes(s, t) ==
  \A i \in Ids : s[i] # NoDoc /\ t[i] # NoDoc => s[i].type = t[i].type

ToolsInBoth(s, t) ==
  \A i \in Ids : s[i] # NoDoc /\ s[i].type \in Tools => t[i] # NoDoc

SnapshotsFollow ==
  \A d \in Devices : txn[d] # NoTxn =>
    /\ SameTypes(docs, txn[d].docs)
    /\ ~ txn[d].userWritten => ToolsInBoth(docs, txn[d].docs)

ToolsInv == TypeOK /\ ToolsOnce /\ SnapshotsFollow

\* What a commit leaves of a document.
LEMMA Committed ==
  ASSUME TypeOK, NEW d \in Devices, NEW new, Commit(d, new), NEW i \in Ids
  PROVE  \/ docs'[i] = docs[i]
         \/ /\ docs'[i] = new[i] /\ docs[i] = txn[d].docs[i]
            /\ docs[i] = NoDoc =>
                 \A e \in Devices : txn[e] # NoTxn => txn[e].docs[i] = NoDoc
BY DEF Commit, NoConflict, Written

\* A committed collection agrees with every open snapshot on the types.
LEMMA SameTypesKept ==
  ASSUME ToolsInv, NEW d \in Devices, NEW new, Outcome(d, new),
         NEW e \in Devices, txn[e] # NoTxn
  PROVE  SameTypes(docs', txn[e].docs)
  <1> DEFINE s == txn[d].docs
             t == txn[e].docs
  <1>1. SameTypes(docs, t)
    BY DEF ToolsInv, SnapshotsFollow
  <1>2. SameTypes(s, new)
    BY DEF Outcome, KeepsTypes, BuysTool, SameTypes, Held
  <1>3. ASSUME NEW i \in Ids, docs'[i] # NoDoc, t[i] # NoDoc
        PROVE  docs'[i].type = t[i].type
    <2>1. CASE docs'[i] = docs[i]
      BY <1>1, <1>3, <2>1 DEF SameTypes
    <2>2. CASE docs'[i] # docs[i]
      <3>1. docs'[i] = new[i] /\ docs[i] = s[i] /\ docs[i] # NoDoc
        BY <1>3, <2>2, Committed DEF ToolsInv, Outcome
      <3> QED
        BY <1>1, <1>2, <1>3, <3>1 DEF SameTypes
    <2> QED
      BY <2>1, <2>2
  <1> QED
    BY <1>3 DEF SameTypes

\* Where no tool is new, every tool there is was there.
LEMMA NoNewTool ==
  ASSUME TypeOK, NEW d \in Devices, NEW new, Commit(d, new),
         KeepsTypes(txn[d].docs, new),
         NEW i \in Ids, docs'[i] # NoDoc, docs'[i].type \in Tools
  PROVE  docs[i] # NoDoc /\ docs[i].type = docs'[i].type
  <1>1. CASE docs'[i] = docs[i]
    BY <1>1
  <1>2. CASE docs'[i] # docs[i]
    <2>1. docs'[i] = new[i] /\ docs[i] = txn[d].docs[i]
      BY <1>2, Committed
    <2> QED
      BY <2>1 DEF KeepsTypes
  <1> QED
    BY <1>1, <1>2

\* A handler's commit leaves no two of one tool.
LEMMA OutcomeToolsOnce ==
  ASSUME ToolsInv, NEW d \in Devices, NEW new, Outcome(d, new)
  PROVE  ToolsOnce'
  <1> DEFINE s == txn[d].docs
  <1>1. Commit(d, new) /\ TypeOK
    BY DEF Outcome, ToolsInv
  <1>2. CASE KeepsTypes(s, new)
    BY <1>1, <1>2, NoNewTool DEF ToolsInv, ToolsOnce, Held
  <1>3. CASE BuysTool(s, new) /\ UserUntouched(d)
    <2>1. PICK tool \in Tools, id \in Ids \ Held(s) :
            /\ ~ Owns(s, tool)
            /\ new[id].type = tool
            /\ \A i \in Ids \ {id} :
                 /\ new[i] = NoDoc <=> s[i] = NoDoc
                 /\ s[i] # NoDoc => new[i].type = s[i].type
      BY <1>3 DEF BuysTool
    <2>2. SameTypes(docs, s) /\ ToolsInBoth(docs, s)
      BY <1>3 DEF ToolsInv, SnapshotsFollow, UserUntouched, Outcome
    <2>3. ASSUME NEW i \in Ids, docs'[i] # NoDoc, docs'[i].type \in Tools, i # id
          PROVE  /\ docs[i] # NoDoc /\ docs[i].type = docs'[i].type
                 /\ docs[i].type # tool
      <3>1. docs[i] # NoDoc /\ docs[i].type = docs'[i].type
        BY <1>1, <2>1, <2>3, Committed
      <3>2. s[i] # NoDoc /\ s[i].type = docs[i].type
        BY <2>2, <2>3, <3>1 DEF SameTypes, ToolsInBoth
      <3> QED
        BY <2>1, <3>1, <3>2 DEF Owns, Held
    <2>4. docs'[id] # NoDoc /\ docs'[id].type \in Tools => docs'[id].type = tool
      <3>1. CASE docs'[id] = docs[id]
        BY <2>1, <2>2, <3>1 DEF ToolsInBoth, Held
      <3>2. CASE docs'[id] = new[id]
        BY <2>1, <3>2
      <3> QED
        BY <1>1, <3>1, <3>2, Committed
    <2>5. ToolsOnce
      BY DEF ToolsInv
    <2> QED
      BY <2>3, <2>4, <2>5 DEF ToolsOnce, Held
  <1> QED
    BY <1>2, <1>3 DEF Outcome

\* A handler's commit keeps the snapshots of the others valid.
LEMMA OutcomeSnapshots ==
  ASSUME ToolsInv, NEW d \in Devices, NEW new, Outcome(d, new)
  PROVE  SnapshotsFollow'
  <1> SUFFICES ASSUME NEW e \in Devices, txn'[e] # NoTxn
               PROVE  /\ SameTypes(docs', txn'[e].docs)
                      /\ ~ txn'[e].userWritten => ToolsInBoth(docs', txn'[e].docs)
    BY DEF SnapshotsFollow
  <1>1. PICK userWritten \in BOOLEAN :
          /\ txn' = OpenAfter(d, userWritten)
          /\ userWritten \/ KeepsTypes(txn[d].docs, new)
    BY DEF Outcome
  <1>2. txn[e] # NoTxn
    BY <1>1 DEF OpenAfter
  <1>3. /\ txn'[e].docs = txn[e].docs
        /\ ~ txn'[e].userWritten => ~ txn[e].userWritten /\ ~ userWritten
    <2>1. txn[e] \in [docs : Collections, userWritten : BOOLEAN]
      BY <1>2 DEF ToolsInv, TypeOK
    <2>2. txn'[e] = [txn[e] EXCEPT !.userWritten = @ \/ userWritten]
      BY <1>1, <1>2 DEF OpenAfter
    <2> QED
      BY <2>1, <2>2
  <1>4. SameTypes(docs', txn[e].docs)
    BY <1>2, SameTypesKept
  <1>5. ASSUME ~ txn'[e].userWritten
        PROVE  ToolsInBoth(docs', txn[e].docs)
    <2>1. ToolsInBoth(docs, txn[e].docs) /\ KeepsTypes(txn[d].docs, new)
      BY <1>1, <1>2, <1>3, <1>5 DEF ToolsInv, SnapshotsFollow
    <2> QED
      BY <2>1, NoNewTool DEF ToolsInBoth, ToolsInv, Outcome
  <1> QED
    BY <1>3, <1>4, <1>5

\* A sale leaves the snapshots as they are, but for the user document.
LEMMA SaleKeepsSnapshots ==
  ASSUME TypeOK, NEW w \in Workers, SellsBox(w), NEW d \in Devices, txn'[d] # NoTxn
  PROVE  /\ txn[d] # NoTxn /\ txn'[d].docs = txn[d].docs
         /\ ~ txn'[d].userWritten => ~ txn[d].userWritten
  <1>1. PICK changed \in BOOLEAN :
          txn' = [e \in Devices |-> IF txn[e] = NoTxn THEN NoTxn
                                    ELSE [txn[e] EXCEPT !.userWritten = @ \/ changed]]
    BY DEF SellsBox
  <1>2. txn[d] # NoTxn /\ txn'[d] = [txn[d] EXCEPT !.userWritten = @ \/ changed]
    BY <1>1
  <1>3. txn[d] \in [docs : Collections, userWritten : BOOLEAN]
    BY <1>2 DEF TypeOK
  <1> QED
    BY <1>2, <1>3

\* A sale only deletes documents.
LEMMA SaleKeepsTools ==
  ASSUME ToolsInv, NEW w \in Workers, SellsBox(w)
  PROVE  ToolsOnce' /\ SnapshotsFollow'
  <1>1. \A i \in Ids : docs'[i] = docs[i] \/ docs'[i] = NoDoc
    BY DEF SellsBox
  <1>2. ToolsOnce'
    BY <1>1 DEF ToolsInv, ToolsOnce, Held
  <1>3. ASSUME NEW d \in Devices, txn'[d] # NoTxn
        PROVE  /\ txn[d] # NoTxn /\ txn'[d].docs = txn[d].docs
               /\ ~ txn'[d].userWritten => ~ txn[d].userWritten
    BY <1>3, SaleKeepsSnapshots DEF ToolsInv
  <1> QED
    BY <1>1, <1>2, <1>3 DEF ToolsInv, SnapshotsFollow, SameTypes, ToolsInBoth

\* No player owns two of one tool, whatever number of devices buy at the same time.
THEOREM ToolsNeverTwice == Spec => []ToolsOnce
  <1>1. Init => ToolsOnce /\ SnapshotsFollow
    BY DEF Init, ToolsOnce, SnapshotsFollow, Held
  <1>2. TypeOK /\ ToolsOnce /\ SnapshotsFollow /\ [Next]_vars
          => (ToolsOnce /\ SnapshotsFollow)'
    <2> SUFFICES ASSUME ToolsInv, [Next]_vars
                 PROVE  (ToolsOnce /\ SnapshotsFollow)'
      BY DEF ToolsInv
    <2>1. ASSUME NEW d \in Devices, Begin(d)
          PROVE  (ToolsOnce /\ SnapshotsFollow)'
      <3>1. ToolsOnce'
        BY <2>1 DEF Begin, ToolsInv, ToolsOnce, Held
      <3>2. ASSUME NEW e \in Devices, txn'[e] # NoTxn
            PROVE  /\ SameTypes(docs, txn'[e].docs)
                   /\ ~ txn'[e].userWritten => ToolsInBoth(docs, txn'[e].docs)
        <4>1. CASE e = d
          BY <2>1, <4>1 DEF Begin, ToolsInv, TypeOK, SameTypes, ToolsInBoth
        <4>2. CASE e # d
          BY <2>1, <3>2, <4>2 DEF Begin, ToolsInv, TypeOK, SnapshotsFollow
        <4> QED
          BY <4>1, <4>2
      <3> QED
        BY <2>1, <3>1, <3>2 DEF SnapshotsFollow, Begin
    <2>2. ASSUME NEW d \in Devices, Handle(d)
          PROVE  (ToolsOnce /\ SnapshotsFollow)'
      <3>1. PICK new : Outcome(d, new)
        BY <2>2, HandleOutcome DEF ToolsInv
      <3> QED
        BY <3>1, OutcomeToolsOnce, OutcomeSnapshots
    <2>3. ASSUME NEW w \in Workers, SellsBox(w)
          PROVE  (ToolsOnce /\ SnapshotsFollow)'
      BY <2>3, SaleKeepsTools
    <2>4. ASSUME UNCHANGED <<docs, txn>>
          PROVE  (ToolsOnce /\ SnapshotsFollow)'
      BY <2>4 DEF ToolsInv, ToolsOnce, SnapshotsFollow, Held
    <2> QED
      BY <2>1, <2>2, <2>3, <2>4
         DEF Next, Work, Schedule, DropJob, ReadsUser, RetriesSale, GivesUp, vars
  <1> QED
    BY <1>1, <1>2, TypeCorrect, PTL DEF Spec

-----------------------------------------------------------------------------
(* One document in a slot, as long as one device plays: the workers only   *)
(* delete what its snapshot knows.                                         *)

SnapshotsCover ==
  \A d \in Devices : txn[d] # NoTxn =>
    /\ SlotsUniqueIn(txn[d].docs)
    /\ \A i \in Ids : docs[i] = txn[d].docs[i] \/ docs[i] = NoDoc

\* Fewer documents need no more slots.
LEMMA FewerSlots ==
  ASSUME NEW s, NEW t, SlotsUniqueIn(s), \A i \in Ids : t[i] = s[i] \/ t[i] = NoDoc
  PROVE  SlotsUniqueIn(t)
BY DEF SlotsUniqueIn, Held

\* With a single device no slot ever holds two documents, whatever is added, moved,
\* merged, swapped, sorted, delivered, retrieved and sold.
THEOREM SlotsStayUnique ==
  ASSUME \A d, e \in Devices : d = e
  PROVE  Spec => []SlotsUnique
  <1>1. Init => SlotsUnique /\ SnapshotsCover
    BY DEF Init, SlotsUnique, SlotsUniqueIn, SnapshotsCover, Held
  <1>2. TypeOK /\ SlotsUnique /\ SnapshotsCover /\ [Next]_vars
          => (SlotsUnique /\ SnapshotsCover)'
    <2> SUFFICES ASSUME TypeOK, SlotsUnique, SnapshotsCover, [Next]_vars
                 PROVE  (SlotsUnique /\ SnapshotsCover)'
      OBVIOUS
    <2>1. ASSUME NEW d \in Devices, Begin(d)
          PROVE  (SlotsUnique /\ SnapshotsCover)'
      <3>1. docs' = docs /\ txn'[d].docs = docs
        BY <2>1 DEF Begin, TypeOK
      <3> QED
        BY <3>1 DEF SlotsUnique, SnapshotsCover
    <2>2. ASSUME NEW d \in Devices, Handle(d)
          PROVE  (SlotsUnique /\ SnapshotsCover)'
      <3>1. PICK new : Outcome(d, new)
        BY <2>2, HandleOutcome
      <3>2. SlotsUniqueIn(new)
        BY <3>1 DEF Outcome, KeepsSlots, SnapshotsCover
      <3>3. \A i \in Ids : docs'[i] = new[i] \/ docs'[i] = NoDoc
        BY <3>1 DEF Outcome, Commit, Written, SnapshotsCover
      <3>4. SlotsUnique'
        BY <3>2, <3>3, FewerSlots DEF SlotsUnique
      <3>5. \A e \in Devices : txn'[e] = NoTxn
        BY <3>1 DEF Outcome, OpenAfter
      <3> QED
        BY <3>4, <3>5 DEF SnapshotsCover
    <2>3. ASSUME NEW w \in Workers, SellsBox(w)
          PROVE  (SlotsUnique /\ SnapshotsCover)'
      <3>1. \A i \in Ids : docs'[i] = docs[i] \/ docs'[i] = NoDoc
        BY <2>3 DEF SellsBox
      <3>2. ASSUME NEW d \in Devices, txn'[d] # NoTxn
            PROVE  txn[d] # NoTxn /\ txn'[d].docs = txn[d].docs
        BY <2>3, <3>2, SaleKeepsSnapshots
      <3>3. SlotsUnique'
        BY <3>1, FewerSlots DEF SlotsUnique
      <3>4. SnapshotsCover'
        BY <3>1, <3>2 DEF SnapshotsCover
      <3> QED
        BY <3>3, <3>4
    <2>4. ASSUME UNCHANGED <<docs, txn>>
          PROVE  (SlotsUnique /\ SnapshotsCover)'
      BY <2>4 DEF SlotsUnique, SnapshotsCover
    <2> QED
      BY <2>1, <2>2, <2>3, <2>4
         DEF Next, Work, Schedule, DropJob, ReadsUser, RetriesSale, GivesUp, vars
  <1> QED
    BY <1>1, <1>2, TypeCorrect, PTL DEF Spec

-----------------------------------------------------------------------------
(* Totals, as sums.  Quantities over a set D: numbers up to MaxStack.      *)

UnitsOf(f) == {u \in (DOMAIN f) \X (1 .. MaxStack) : u[2] <= f[u[1]]}

\* The units of a total are counted, and there are finitely many.
LEMMA UnitsFinite ==
  ASSUME NEW f, IsFiniteSet(DOMAIN f)
  PROVE  IsFiniteSet(UnitsOf(f)) /\ Total(f) = Cardinality(UnitsOf(f)) /\ Total(f) \in Nat
  <1>1. IsFiniteSet(1 .. MaxStack)
    BY FS_Interval, StacksAssumption
  <1>2. IsFiniteSet((DOMAIN f) \X (1 .. MaxStack))
    BY <1>1, FS_Product
  <1>3. UnitsOf(f) \in SUBSET ((DOMAIN f) \X (1 .. MaxStack))
    BY DEF UnitsOf
  <1> QED
    BY <1>2, <1>3, FS_Subset, TotalType DEF Total, UnitsOf

\* A rectangle of n columns and m units.
LEMMA Rectangle ==
  ASSUME NEW S, IsFiniteSet(S), NEW m \in Nat
  PROVE  IsFiniteSet(S \X (1 .. m)) /\ Cardinality(S \X (1 .. m)) = Cardinality(S) * m
  <1>1. IsFiniteSet(1 .. m) /\ Cardinality(1 .. m) = m
    <2>1. 1 \in Int /\ m \in Int /\ (1 > m => m = 0) /\ (m - 1 + 1 = m)
      OBVIOUS
    <2> QED
      BY <2>1, FS_Interval
  <1> QED
    BY <1>1, FS_Product

\* A total, one place at a time.
LEMMA TotalStep ==
  ASSUME NEW D, IsFiniteSet(D), NEW f \in [D -> 0 .. MaxStack], NEW x \in D
  PROVE  Total(f) = f[x] + Total(Restrict(f, D \ {x}))
  <1> DEFINE rest == Restrict(f, D \ {x})
             column == {x} \X (1 .. f[x])
  <1>1. f[x] \in Nat /\ f[x] <= MaxStack /\ MaxStack \in Nat
    BY StacksAssumption
  <1>2. DOMAIN rest = D \ {x} /\ \A y \in D \ {x} : rest[y] = f[y]
    BY DEF Restrict
  <1>3. IsFiniteSet(D \ {x})
    BY FS_Subset
  <1> HIDE DEF rest
  <1>4. UnitsOf(f) = column \cup UnitsOf(rest)
    <2>1. DOMAIN f = D
      OBVIOUS
    <2>2. ASSUME NEW u \in UnitsOf(f)
          PROVE  u \in column \cup UnitsOf(rest)
      <3>1. u = <<u[1], u[2]>> /\ u[1] \in D /\ u[2] \in 1 .. MaxStack /\ u[2] <= f[u[1]]
        BY <2>1 DEF UnitsOf
      <3>2. CASE u[1] = x
        <4>1. u[2] \in 1 .. f[x]
          BY <1>1, <3>1, <3>2
        <4> QED
          BY <3>1, <3>2, <4>1
      <3>3. CASE u[1] # x
        BY <1>2, <3>1, <3>3 DEF UnitsOf
      <3> QED
        BY <3>2, <3>3
    <2>3. ASSUME NEW u \in column
          PROVE  u \in UnitsOf(f)
      <3>1. u = <<x, u[2]>> /\ u[1] = x /\ u[2] \in 1 .. f[x]
        OBVIOUS
      <3>2. u[2] \in 1 .. MaxStack /\ u[2] <= f[x]
        BY <1>1, <3>1
      <3> QED
        BY <2>1, <3>1, <3>2 DEF UnitsOf
    <2>4. ASSUME NEW u \in UnitsOf(rest)
          PROVE  u \in UnitsOf(f)
      BY <1>2, <2>1 DEF UnitsOf
    <2> QED
      BY <2>2, <2>3, <2>4
  <1>5. column \cap UnitsOf(rest) = {}
    BY <1>2 DEF UnitsOf
  <1>6. IsFiniteSet(column) /\ Cardinality(column) = f[x]
    <2> DEFINE one == {x}
               m == f[x]
    <2>1. IsFiniteSet(one) /\ Cardinality(one) = 1 /\ m \in Nat
      BY <1>1, FS_Singleton
    <2> HIDE DEF one, m
    <2>2. IsFiniteSet(one \X (1 .. m)) /\ Cardinality(one \X (1 .. m)) = 1 * m
      BY <2>1, Rectangle
    <2>3. 1 * m = m
      BY <2>1
    <2> QED
      BY <2>2, <2>3 DEF one, m
  <1>7. /\ IsFiniteSet(UnitsOf(rest)) /\ Total(rest) = Cardinality(UnitsOf(rest))
        /\ Total(rest) \in Nat /\ Total(f) = Cardinality(UnitsOf(f))
    BY <1>2, <1>3, UnitsFinite
  <1>8. Cardinality(column \cup UnitsOf(rest)) = f[x] + Total(rest) - Cardinality({})
    <2> HIDE DEF column
    <2> QED
      BY <1>5, <1>6, <1>7, FS_Union
  <1> QED
    BY <1>1, <1>4, <1>7, <1>8, FS_EmptySet DEF rest

\* Nothing adds up to nothing.
LEMMA TotalNothing ==
  ASSUME NEW f, \A x \in DOMAIN f : f[x] = 0
  PROVE  Total(f) = 0
  <1>1. UnitsOf(f) = {}
    BY DEF UnitsOf
  <1> QED
    BY <1>1, FS_EmptySet DEF Total, UnitsOf

\* Zeros elsewhere add nothing.
LEMMA TotalExtended ==
  ASSUME NEW D, NEW E, D \subseteq E, NEW f, NEW h, DOMAIN f = D, DOMAIN h = E,
         \A x \in D : h[x] = f[x], \A x \in E \ D : h[x] = 0
  PROVE  Total(h) = Total(f)
  <1>1. UnitsOf(h) = UnitsOf(f)
    BY DEF UnitsOf
  <1> QED
    BY <1>1 DEF Total, UnitsOf

\* What is more at every place, of two functions at once, is more in total.
LEMMA TotalBalance ==
  ASSUME NEW D, IsFiniteSet(D),
         NEW f \in [D -> 0 .. MaxStack], NEW g \in [D -> 0 .. MaxStack],
         NEW h \in [D -> 0 .. MaxStack], NEW k \in [D -> 0 .. MaxStack],
         \A x \in D : f[x] + g[x] <= h[x] + k[x]
  PROVE  Total(f) + Total(g) <= Total(h) + Total(k)
  <1> DEFINE Part(e, s) == Total(Restrict(e, s))
             less == {s \in SUBSET D : Part(f, s) + Part(g, s) <= Part(h, s) + Part(k, s)}
             sizes == {Cardinality(s) : s \in (SUBSET D) \ less}
  <1>1. ASSUME NEW s \in SUBSET D
        PROVE  IsFiniteSet(s) /\ Cardinality(s) \in Nat
    BY FS_Subset, FS_CardinalityType
  <1>2. ASSUME NEW e \in [D -> 0 .. MaxStack], NEW s \in SUBSET D
        PROVE  /\ Part(e, s) \in Nat
               /\ s = {} => Part(e, s) = 0
               /\ \A x \in s : Part(e, s) = e[x] + Part(e, s \ {x})
    <2> DEFINE r == Restrict(e, s)
    <2>1. r \in [s -> 0 .. MaxStack] /\ \A x \in s : r[x] = e[x]
      BY DEF Restrict
    <2>2. Part(e, s) \in Nat
      BY <1>1, <2>1, TotalType
    <2>3. s = {} => Part(e, s) = 0
      BY <2>1, TotalNothing
    <2>4. ASSUME NEW x \in s
          PROVE  Part(e, s) = e[x] + Part(e, s \ {x})
      <3>1. Restrict(r, s \ {x}) = Restrict(e, s \ {x})
        BY <2>1 DEF Restrict
      <3>2. IsFiniteSet(s)
        BY <1>1
      <3> HIDE DEF r
      <3>3. Total(r) = r[x] + Total(Restrict(r, s \ {x}))
        BY <2>1, <3>2, TotalStep
      <3> QED
        BY <2>1, <3>1, <3>3 DEF r
    <2> QED
      BY <2>2, <2>3, <2>4
  <1> HIDE DEF Part
  <1>3. sizes = {}
    <2> SUFFICES ASSUME sizes # {} PROVE FALSE
      OBVIOUS
    <2>1. sizes \in SUBSET Nat
      BY <1>1
    <2>2. PICK n \in sizes : \A m \in sizes : n <= m
      <3> HIDE DEF sizes
      <3> QED
        BY <2>1, LeastNatural
    <2>3. PICK s \in (SUBSET D) \ less : Cardinality(s) = n
      OBVIOUS
    <2>4. s # {}
      BY <1>2, <2>3
    <2>5. PICK x \in s : TRUE
      BY <2>4
    <2>6. s \ {x} \in SUBSET D /\ Cardinality(s \ {x}) = Cardinality(s) - 1
      BY <1>1, <2>3, FS_RemoveElement
    <2>7. s \ {x} \in less
      <3> SUFFICES ASSUME s \ {x} \notin less PROVE FALSE
        OBVIOUS
      <3>1. Cardinality(s \ {x}) \in sizes
        BY <2>6
      <3>2. n <= Cardinality(s) - 1
        BY <2>2, <2>6, <3>1
      <3>3. n \in Nat
        BY <2>1
      <3> HIDE DEF less, sizes
      <3> QED
        BY <2>3, <3>2, <3>3
    <2> DEFINE t == s \ {x}
    <2>8. /\ Part(f, t) \in Nat /\ Part(g, t) \in Nat /\ Part(h, t) \in Nat
          /\ Part(k, t) \in Nat
          /\ Part(f, t) + Part(g, t) <= Part(h, t) + Part(k, t)
      BY <1>2, <2>6, <2>7
    <2>9. /\ Part(f, s) = f[x] + Part(f, t) /\ Part(g, s) = g[x] + Part(g, t)
          /\ Part(h, s) = h[x] + Part(h, t) /\ Part(k, s) = k[x] + Part(k, t)
      BY <1>2, <2>3, <2>5
    <2>10. /\ f[x] \in Nat /\ g[x] \in Nat /\ h[x] \in Nat /\ k[x] \in Nat
           /\ f[x] + g[x] <= h[x] + k[x]
      BY <2>3, <2>5
    <2> HIDE DEF t
    <2>11. Part(f, s) + Part(g, s) <= Part(h, s) + Part(k, s)
      BY <2>8, <2>9, <2>10
    <2> QED
      BY <2>3, <2>11
  <1>4. D \in less
    BY <1>3
  <1>5. \A e \in [D -> 0 .. MaxStack] : Restrict(e, D) = e
    BY DEF Restrict
  <1> QED
    BY <1>4, <1>5 DEF Part

\* More at every place is more in total, and the same at every place is the same.
LEMMA TotalGrows ==
  ASSUME NEW D, IsFiniteSet(D),
         NEW f \in [D -> 0 .. MaxStack], NEW h \in [D -> 0 .. MaxStack],
         \A x \in D : f[x] <= h[x]
  PROVE  Total(f) <= Total(h)
  <1> DEFINE none == [x \in D |-> 0]
  <1>1. none \in [D -> 0 .. MaxStack] /\ \A x \in D : none[x] = 0
    BY StacksAssumption
  <1>2. DOMAIN none = D
    OBVIOUS
  <1> HIDE DEF none
  <1>3. Total(none) = 0
    BY <1>1, <1>2, TotalNothing
  <1>4. Total(f) + Total(none) <= Total(h) + Total(none)
    BY <1>1, TotalBalance
  <1>5. Total(f) \in Nat /\ Total(h) \in Nat
    BY TotalType
  <1> QED
    BY <1>3, <1>4, <1>5

\* A change in one place changes the total by as much.
LEMMA TotalUpdate ==
  ASSUME NEW D, IsFiniteSet(D), NEW x \in D,
         NEW f \in [D -> 0 .. MaxStack], NEW h \in [D -> 0 .. MaxStack],
         \A y \in D \ {x} : f[y] = h[y]
  PROVE  Total(h) = Total(f) - f[x] + h[x]
  <1>1. Restrict(f, D \ {x}) = Restrict(h, D \ {x})
    BY DEF Restrict
  <1>2. Total(f) = f[x] + Total(Restrict(f, D \ {x}))
    BY TotalStep
  <1>3. Total(h) = h[x] + Total(Restrict(h, D \ {x}))
    BY TotalStep
  <1>4. Total(Restrict(f, D \ {x})) \in Nat
    <2>1. IsFiniteSet(D \ {x}) /\ DOMAIN Restrict(f, D \ {x}) = D \ {x}
      BY FS_Subset DEF Restrict
    <2> QED
      BY <2>1, TotalType
  <1>5. f[x] \in Nat /\ h[x] \in Nat
    OBVIOUS
  <1> QED
    BY <1>1, <1>2, <1>3, <1>4, <1>5

\* The same for two places.
LEMMA TotalExchange ==
  ASSUME NEW D, IsFiniteSet(D), NEW x \in D, NEW y \in D, x # y,
         NEW f \in [D -> 0 .. MaxStack], NEW h \in [D -> 0 .. MaxStack],
         \A z \in D \ {x, y} : f[z] = h[z]
  PROVE  Total(h) = Total(f) - f[x] - f[y] + h[x] + h[y]
  <1> DEFINE m == [f EXCEPT ![x] = h[x]]
  <1>1. /\ m \in [D -> 0 .. MaxStack] /\ m[x] = h[x] /\ m[y] = f[y]
        /\ \A z \in D \ {x} : f[z] = m[z]
        /\ \A z \in D \ {y} : m[z] = h[z]
    OBVIOUS
  <1> HIDE DEF m
  <1>2. Total(m) = Total(f) - f[x] + m[x]
    BY <1>1, TotalUpdate
  <1>3. Total(h) = Total(m) - m[y] + h[y]
    BY <1>1, TotalUpdate
  <1>4. Total(f) \in Nat /\ f[x] \in Nat /\ f[y] \in Nat /\ h[x] \in Nat /\ h[y] \in Nat
    BY TotalType
  <1> QED
    BY <1>1, <1>2, <1>3, <1>4

-----------------------------------------------------------------------------
(* What is in stock.  A sort may leave a stack of none, of which one unit  *)
(* can still be used: where the floor is 1 such a stack weighs one unit.   *)

Floors == {0, 1}

Weight(doc, type, floor) ==
  IF doc # NoDoc /\ doc.type = type
    THEN IF doc.quantity = 0 THEN floor ELSE doc.quantity
    ELSE 0

Weights(s, type, floor) == [i \in Ids |-> Weight(s[i], type, floor)]

Stock(s, type, floor) == Total(Weights(s, type, floor))

\* A document weighs no more than a full stack, and no less than its quantity.
LEMMA WeightType ==
  ASSUME NEW doc \in Docs \cup {NoDoc}, NEW type, NEW floor \in Floors
  PROVE  /\ Weight(doc, type, floor) \in 0 .. MaxStack
         /\ doc # NoDoc /\ doc.type = type =>
              /\ doc.quantity \in 0 .. MaxStack
              /\ doc.quantity <= Weight(doc, type, floor)
              /\ floor <= Weight(doc, type, floor)
              /\ floor = 0 \/ doc.quantity # 0 => Weight(doc, type, floor) = doc.quantity
         /\ doc = NoDoc \/ doc.type # type => Weight(doc, type, floor) = 0
BY StacksAssumption DEF Weight, Docs, Floors

LEMMA StockType ==
  ASSUME NEW s \in Collections, NEW type, NEW floor \in Floors
  PROVE  /\ Weights(s, type, floor) \in [Ids -> 0 .. MaxStack]
         /\ \A i \in Ids : Weights(s, type, floor)[i] = Weight(s[i], type, floor)
         /\ Stock(s, type, floor) \in Nat
  <1>1. \A i \in Ids : Weight(s[i], type, floor) \in 0 .. MaxStack
    BY WeightType DEF Collections
  <1>2. Weights(s, type, floor) \in [Ids -> 0 .. MaxStack]
    BY <1>1 DEF Weights
  <1> QED
    BY <1>2, StacksAssumption, TotalType DEF Weights, Stock

\* The quantity of some documents is a total over all ids.
LEMMA QuantityIs ==
  ASSUME NEW s, NEW S \in SUBSET Ids
  PROVE  Quantity(s, S) = Total([i \in Ids |-> IF i \in S THEN s[i].quantity ELSE 0])
  <1> DEFINE f == [i \in S |-> s[i].quantity]
             h == [i \in Ids |-> IF i \in S THEN s[i].quantity ELSE 0]
  <1>1. /\ DOMAIN f = S /\ DOMAIN h = Ids
        /\ \A i \in S : h[i] = f[i]
        /\ \A i \in Ids \ S : h[i] = 0
    OBVIOUS
  <1> HIDE DEF f, h
  <1>2. Total(h) = Total(f)
    BY <1>1, TotalExtended
  <1> QED
    BY <1>2 DEF f, h, Quantity

\* What is in stock is the stock without a floor.
LEMMA InStockIs ==
  ASSUME NEW s, NEW type
  PROVE  Quantity(s, {i \in Held(s) : s[i].type = type}) = Stock(s, type, 0)
  <1> DEFINE S == {i \in Held(s) : s[i].type = type}
  <1>1. S \in SUBSET Ids
    BY DEF Held
  <1>2. \A i \in Ids : Weight(s[i], type, 0) = IF i \in S THEN s[i].quantity ELSE 0
    BY DEF Weight, Held
  <1>3. Weights(s, type, 0) = [i \in Ids |-> IF i \in S THEN s[i].quantity ELSE 0]
    BY <1>2 DEF Weights
  <1> HIDE DEF S
  <1>4. Quantity(s, S) = Stock(s, type, 0)
    BY <1>1, <1>3, QuantityIs DEF Stock
  <1> QED
    BY <1>4 DEF S

\* A floor only adds to the stock.
LEMMA FloorAdds ==
  ASSUME NEW s \in Collections, NEW type
  PROVE  Stock(s, type, 0) <= Stock(s, type, 1)
  <1>1. 0 \in Floors /\ 1 \in Floors
    BY DEF Floors
  <1>2. \A i \in Ids : Weights(s, type, 0)[i] <= Weights(s, type, 1)[i]
    <2>1. \A i \in Ids : Weight(s[i], type, 0) <= Weight(s[i], type, 1)
      BY <1>1, WeightType DEF Collections, Weight
    <2> QED
      BY <2>1 DEF Weights
  <1>3. /\ Weights(s, type, 0) \in [Ids -> 0 .. MaxStack]
        /\ Weights(s, type, 1) \in [Ids -> 0 .. MaxStack]
    BY <1>1, StockType
  <1> QED
    BY <1>2, <1>3, StacksAssumption, TotalGrows DEF Stock

\* Lighter documents are less in stock, and unchanged weights the same.
LEMMA StockShrinks ==
  ASSUME NEW s \in Collections, NEW new \in Collections, NEW type, NEW floor \in Floors,
         \A i \in Ids : Weight(new[i], type, floor) <= Weight(s[i], type, floor)
  PROVE  Stock(new, type, floor) <= Stock(s, type, floor)
  <1>1. \A i \in Ids : Weights(new, type, floor)[i] <= Weights(s, type, floor)[i]
    BY DEF Weights
  <1>2. /\ Weights(new, type, floor) \in [Ids -> 0 .. MaxStack]
        /\ Weights(s, type, floor) \in [Ids -> 0 .. MaxStack]
    BY StockType
  <1> QED
    BY <1>1, <1>2, StacksAssumption, TotalGrows DEF Stock

LEMMA StockSame ==
  ASSUME NEW s, NEW new, NEW type, NEW floor,
         \A i \in Ids : Weight(new[i], type, floor) = Weight(s[i], type, floor)
  PROVE  Stock(new, type, floor) = Stock(s, type, floor)
BY DEF Stock, Weights

\* A commit changes what is stored by as much as the handler changed its snapshot.
LEMMA CommitStock ==
  ASSUME TypeOK, NEW d \in Devices, NEW new \in Collections, Commit(d, new),
         docs' \in Collections, NEW type, NEW floor \in Floors
  PROVE  Stock(docs', type, floor) + Stock(txn[d].docs, type, floor)
           = Stock(new, type, floor) + Stock(docs, type, floor)
  <1> DEFINE s == txn[d].docs
             W(t) == Weights(t, type, floor)
  <1>1. s \in Collections /\ docs \in Collections
    BY SnapshotType DEF Commit, TypeOK
  <1>2. \A i \in Ids : \/ docs'[i] = new[i] /\ docs[i] = s[i]
                       \/ docs'[i] = docs[i] /\ new[i] = s[i]
    BY DEF Commit, NoConflict, Written
  <1> HIDE DEF s
  <1>3. /\ W(docs') \in [Ids -> 0 .. MaxStack] /\ W(s) \in [Ids -> 0 .. MaxStack]
        /\ W(new) \in [Ids -> 0 .. MaxStack] /\ W(docs) \in [Ids -> 0 .. MaxStack]
    BY <1>1, StockType
  <1>4. /\ Total(W(docs')) \in Nat /\ Total(W(s)) \in Nat
        /\ Total(W(new)) \in Nat /\ Total(W(docs)) \in Nat
    BY <1>1, StockType DEF Stock
  <1>5. \A i \in Ids : W(docs')[i] + W(s)[i] = W(new)[i] + W(docs)[i]
    <2>1. \A i \in Ids : \/ W(docs')[i] = W(new)[i] /\ W(docs)[i] = W(s)[i]
                         \/ W(docs')[i] = W(docs)[i] /\ W(new)[i] = W(s)[i]
      BY <1>2 DEF Weights
    <2>2. \A i \in Ids : /\ W(docs')[i] \in Int /\ W(s)[i] \in Int /\ W(new)[i] \in Int
                         /\ W(docs)[i] \in Int
      BY <1>3
    <2> HIDE DEF W
    <2> QED
      BY <2>1, <2>2
  <1> DEFINE a == W(docs')
             b == W(s)
             c == W(new)
             e == W(docs)
  <1>6. /\ \A i \in Ids : a[i] + b[i] <= c[i] + e[i]
        /\ \A i \in Ids : c[i] + e[i] <= a[i] + b[i]
    <2>1. \A i \in Ids : a[i] + b[i] \in Int /\ a[i] + b[i] = c[i] + e[i]
      BY <1>3, <1>5
    <2> HIDE DEF a, b, c, e
    <2> QED
      BY <2>1
  <1>7. /\ a \in [Ids -> 0 .. MaxStack] /\ b \in [Ids -> 0 .. MaxStack]
        /\ c \in [Ids -> 0 .. MaxStack] /\ e \in [Ids -> 0 .. MaxStack]
        /\ Total(a) \in Nat /\ Total(b) \in Nat /\ Total(c) \in Nat /\ Total(e) \in Nat
    BY <1>3, <1>4
  <1>8. Stock(docs', type, floor) = Total(a) /\ Stock(s, type, floor) = Total(b)
          /\ Stock(new, type, floor) = Total(c) /\ Stock(docs, type, floor) = Total(e)
    BY DEF Stock
  <1> HIDE DEF a, b, c, e, W
  <1>9. Total(a) + Total(b) <= Total(c) + Total(e) /\ Total(c) + Total(e) <= Total(a) + Total(b)
    BY <1>6, <1>7, StacksAssumption, TotalBalance
  <1> QED
    BY <1>7, <1>8, <1>9 DEF s

-----------------------------------------------------------------------------
(* What each operation does to the stock.                                  *)

\* A document changed or removed changes the stock by its weight.
LEMMA StockUpdate ==
  ASSUME NEW s \in Collections, NEW new \in Collections, NEW type, NEW floor \in Floors,
         NEW i \in Ids, \A j \in Ids \ {i} : new[j] = s[j]
  PROVE  Stock(new, type, floor)
           = Stock(s, type, floor) - Weight(s[i], type, floor) + Weight(new[i], type, floor)
  <1>1. \A j \in Ids \ {i} : Weights(s, type, floor)[j] = Weights(new, type, floor)[j]
    BY DEF Weights
  <1>2. /\ Weights(new, type, floor) \in [Ids -> 0 .. MaxStack]
        /\ Weights(s, type, floor) \in [Ids -> 0 .. MaxStack]
        /\ Weights(new, type, floor)[i] = Weight(new[i], type, floor)
        /\ Weights(s, type, floor)[i] = Weight(s[i], type, floor)
    BY StockType
  <1>3. Total(Weights(new, type, floor))
          = Total(Weights(s, type, floor)) - Weights(s, type, floor)[i]
              + Weights(new, type, floor)[i]
    BY <1>1, <1>2, StacksAssumption, TotalUpdate
  <1> QED
    BY <1>2, <1>3 DEF Stock

\* A use takes one unit of what there is.
LEMMA TakenStock ==
  ASSUME NEW s \in Collections, NEW i \in Held(s), NEW type
  PROVE  Stock(Taken(s, i, 1), type, 1) + (IF s[i].type = type THEN 1 ELSE 0)
           <= Stock(s, type, 1)
  <1> DEFINE new == Taken(s, i, 1)
  <1>1. 1 \in Floors
    BY DEF Floors
  <1>2. new \in Collections /\ i \in Ids /\ s[i] \in Docs /\ s[i] # NoDoc
    BY TakenSound, HeldDoc, NoDocAssumption DEF Sound
  <1>3. \A j \in Ids \ {i} : new[j] = s[j]
    BY DEF Taken, Collections
  <1>4. Stock(new, type, 1) = Stock(s, type, 1) - Weight(s[i], type, 1) + Weight(new[i], type, 1)
    BY <1>1, <1>2, <1>3, StockUpdate
  <1>5. Weight(new[i], type, 1) + (IF s[i].type = type THEN 1 ELSE 0) <= Weight(s[i], type, 1)
    <2> DEFINE q == s[i].quantity
    <2>1. q \in 0 .. MaxStack /\ MaxStack \in Nat
      BY HeldDoc, StacksAssumption
    <2>2. Weight(s[i], type, 1) = IF s[i].type = type THEN IF q = 0 THEN 1 ELSE q ELSE 0
      BY <1>2 DEF Weight
    <2>3. CASE q - 1 > 0
      <3> DEFINE r == q - 1
                 doc == [s[i] EXCEPT !.quantity = r]
      <3>1. new[i] = doc
        BY <2>3, <1>2 DEF Taken, Collections
      <3>2. r \in 0 .. MaxStack /\ r # 0 /\ r + 1 <= q /\ q # 0
        BY <2>1, <2>3
      <3> HIDE DEF r
      <3>3. doc \in Docs /\ doc.type = s[i].type /\ doc.quantity = r
        BY <1>2, <3>2, RefilledDoc DEF Docs
      <3> HIDE DEF doc, q
      <3>4. Weight(doc, type, 1) = IF s[i].type = type THEN r ELSE 0
        BY <3>2, <3>3, NoDocAssumption DEF Weight
      <3> QED
        BY <2>1, <2>2, <3>1, <3>2, <3>4
    <2>4. CASE ~ (q - 1 > 0)
      <3>1. new[i] = NoDoc
        BY <2>4, <1>2 DEF Taken, Collections
      <3>2. Weight(new[i], type, 1) = 0
        BY <3>1 DEF Weight
      <3> HIDE DEF q
      <3> QED
        BY <2>1, <2>2, <3>2
    <2> QED
      BY <2>3, <2>4
  <1>6. Stock(s, type, 1) \in Nat /\ Stock(new, type, 1) \in Nat /\ Weight(s[i], type, 1) \in Nat
          /\ Weight(new[i], type, 1) \in Nat
    <2>1. new[i] \in Docs \cup {NoDoc}
      BY <1>2 DEF Collections
    <2>2. s[i] \in Docs \cup {NoDoc}
      BY <1>2
    <2> HIDE DEF new
    <2>3. Stock(s, type, 1) \in Nat /\ Stock(new, type, 1) \in Nat
      BY <1>1, <1>2, StockType
    <2>4. \A doc \in Docs \cup {NoDoc} : Weight(doc, type, 1) \in Nat
      BY <1>1, WeightType, StacksAssumption
    <2> QED
      BY <2>1, <2>2, <2>3, <2>4
  <1> DEFINE a == Stock(s, type, 1)
             b == Stock(new, type, 1)
             v == Weight(s[i], type, 1)
             w == Weight(new[i], type, 1)
             taken == IF s[i].type = type THEN 1 ELSE 0
  <1>7. /\ a \in Nat /\ b \in Nat /\ v \in Nat /\ w \in Nat /\ taken \in Nat
        /\ b = a - v + w /\ w + taken <= v
    BY <1>4, <1>5, <1>6
  <1> HIDE DEF a, b, v, w, taken, new
  <1>8. b + taken <= a
    BY <1>7
  <1> QED
    BY <1>8 DEF a, b, taken, new

\* Two stacks of one type merged hold what both held.
LEMMA MergedStock ==
  ASSUME NEW s \in Collections, NEW i \in Held(s), NEW j \in Held(s), i # j,
         s[i].type = s[j].type, NEW type
  PROVE  /\ Stock(Merged(s, i, j), type, 0) = Stock(s, type, 0)
         /\ Stock(Merged(s, i, j), type, 1) <= Stock(s, type, 1)
  <1> DEFINE new == Merged(s, i, j)
             p == s[i].quantity
             q == s[j].quantity
             W(doc, floor) == Weight(doc, type, floor)
  <1>1. /\ new \in Collections /\ i \in Ids /\ j \in Ids
        /\ s[i] \in Docs /\ s[j] \in Docs /\ s[i] # NoDoc /\ s[j] # NoDoc
        /\ p \in Nat /\ q \in Nat /\ p <= MaxStack /\ q <= MaxStack
    BY MergedSound, HeldDoc, NoDocAssumption DEF Sound
  <1>2. \A k \in Ids \ {i, j} : new[k] = s[k]
    BY DEF Merged, Collections
  <1>3. ASSUME NEW floor \in Floors
        PROVE  /\ Stock(new, type, floor) = Stock(s, type, floor) - W(s[i], floor) - W(s[j], floor)
                                             + W(new[i], floor) + W(new[j], floor)
               /\ Stock(s, type, floor) \in Nat
    <2> DEFINE f == Weights(s, type, floor)
               h == Weights(new, type, floor)
    <2>1. \A k \in Ids \ {i, j} : f[k] = h[k]
      BY <1>2 DEF Weights
    <2>2. /\ f \in [Ids -> 0 .. MaxStack] /\ h \in [Ids -> 0 .. MaxStack]
          /\ f[i] = W(s[i], floor) /\ f[j] = W(s[j], floor)
          /\ h[i] = W(new[i], floor) /\ h[j] = W(new[j], floor)
          /\ Stock(s, type, floor) \in Nat
      BY <1>1, StockType
    <2>3. Stock(new, type, floor) = Total(h) /\ Stock(s, type, floor) = Total(f)
      BY DEF Stock
    <2> HIDE DEF f, h, W
    <2>4. Total(h) = Total(f) - f[i] - f[j] + h[i] + h[j]
      <3>1. i \in Ids /\ j \in Ids /\ i # j /\ IsFiniteSet(Ids)
        BY <1>1, StacksAssumption
      <3>2. f \in [Ids -> 0 .. MaxStack] /\ h \in [Ids -> 0 .. MaxStack]
        BY <2>2
      <3> QED
        BY <2>1, <3>1, <3>2, TotalExchange
    <2> QED
      BY <2>2, <2>3, <2>4
  <1>4. ASSUME NEW floor \in Floors
        PROVE  /\ s[i].type # type =>
                    W(s[i], floor) = 0 /\ W(s[j], floor) = 0
                    /\ W(new[i], floor) = 0 /\ W(new[j], floor) = 0
               /\ s[i].type = type =>
                    /\ W(s[i], floor) = IF p = 0 THEN floor ELSE p
                    /\ W(s[j], floor) = IF q = 0 THEN floor ELSE q
                    /\ p + q <= MaxStack =>
                         /\ W(new[i], floor) = 0
                         /\ W(new[j], floor) = IF p + q = 0 THEN floor ELSE p + q
                    /\ p + q > MaxStack =>
                         /\ W(new[i], floor) = p + q - MaxStack
                         /\ W(new[j], floor) = MaxStack
    <2> DEFINE sum == p + q
    <2>1. CASE sum <= MaxStack
      <3> DEFINE doc == [s[j] EXCEPT !.quantity = sum]
      <3>1. new[i] = NoDoc /\ new[j] = doc
        BY <1>1, <2>1 DEF Merged, Collections
      <3>2. sum \in 0 .. MaxStack
        BY <1>1, <2>1
      <3> HIDE DEF sum
      <3>3. doc \in Docs /\ doc.type = s[j].type /\ doc.quantity = sum
        BY <1>1, <3>2, RefilledDoc DEF Docs
      <3>4. doc # NoDoc
        BY <3>3, NoDocAssumption
      <3> HIDE DEF doc, new
      <3>5. /\ W(new[i], floor) = 0
            /\ W(new[j], floor) = IF doc.type = type
                                    THEN IF sum = 0 THEN floor ELSE sum
                                    ELSE 0
        BY <3>1, <3>3, <3>4 DEF Weight
      <3>6. /\ W(s[i], floor) = IF s[i].type = type THEN IF p = 0 THEN floor ELSE p ELSE 0
            /\ W(s[j], floor) = IF s[j].type = type THEN IF q = 0 THEN floor ELSE q ELSE 0
        BY <1>1 DEF Weight
      <3>7. ~ (sum > MaxStack)
        BY <2>1, <3>2, StacksAssumption
      <3> HIDE DEF W, p, q
      <3> QED
        BY <3>3, <3>5, <3>6, <3>7 DEF sum
    <2>2. CASE ~ (sum <= MaxStack)
      <3> DEFINE left == [s[i] EXCEPT !.quantity = sum - MaxStack]
                 full == [s[j] EXCEPT !.quantity = MaxStack]
      <3>1. new[i] = left /\ new[j] = full
        BY <1>1, <2>2 DEF Merged, Collections
      <3>2. sum - MaxStack \in 0 .. MaxStack /\ sum - MaxStack # 0 /\ MaxStack \in 0 .. MaxStack
              /\ MaxStack # 0
        BY <1>1, <2>2, StacksAssumption
      <3> HIDE DEF sum
      <3>3. /\ left \in Docs /\ left.type = s[i].type /\ left.quantity = sum - MaxStack
            /\ full \in Docs /\ full.type = s[j].type /\ full.quantity = MaxStack
        BY <1>1, <3>2, RefilledDoc DEF Docs
      <3>4. left # NoDoc /\ full # NoDoc
        BY <3>3, NoDocAssumption
      <3> HIDE DEF left, full, new
      <3>5. /\ W(new[i], floor) = IF left.type = type THEN sum - MaxStack ELSE 0
            /\ W(new[j], floor) = IF full.type = type THEN MaxStack ELSE 0
        BY <3>1, <3>2, <3>3, <3>4 DEF Weight
      <3>6. /\ W(s[i], floor) = IF s[i].type = type THEN IF p = 0 THEN floor ELSE p ELSE 0
            /\ W(s[j], floor) = IF s[j].type = type THEN IF q = 0 THEN floor ELSE q ELSE 0
        BY <1>1 DEF Weight
      <3>7. left.type = s[i].type /\ full.type = s[i].type
        BY <3>3
      <3>8. sum = p + q /\ ~ (sum <= MaxStack)
        BY <2>2 DEF sum
      <3>9. p # 0 /\ q # 0
        <4>1. p \in Nat /\ q \in Nat /\ p <= MaxStack /\ q <= MaxStack /\ MaxStack \in Nat
          BY <1>1, StacksAssumption
        <4> HIDE DEF p, q
        <4> QED
          BY <3>8, <4>1
      <3>10. sum \in Int /\ sum > MaxStack /\ MaxStack \in Nat
        <4>1. p \in Nat /\ q \in Nat /\ MaxStack \in Nat
          BY <1>1, StacksAssumption
        <4> HIDE DEF p, q
        <4> QED
          BY <3>8, <4>1
      <3>11. s[j].type = s[i].type /\ p \in Nat /\ q \in Nat
        BY <1>1
      <3> HIDE DEF W, p, q
      <3>12. CASE s[i].type = type
        BY <3>5, <3>6, <3>7, <3>8, <3>9, <3>10, <3>11, <3>12
      <3>13. CASE s[i].type # type
        BY <3>5, <3>6, <3>7, <3>11, <3>13
      <3> QED
        BY <3>12, <3>13
    <2> QED
      BY <2>1, <2>2
  <1>5. 0 \in Floors /\ 1 \in Floors /\ MaxStack \in Nat
    BY StacksAssumption DEF Floors
  <1> HIDE DEF new, p, q, W
  <1>6. CASE s[i].type # type
    BY <1>3, <1>4, <1>5, <1>6 DEF new
  <1>7. CASE s[i].type = type
    <2>1. Stock(new, type, 0) = Stock(s, type, 0)
      BY <1>1, <1>3, <1>4, <1>5, <1>7
    <2>2. Stock(new, type, 1) <= Stock(s, type, 1)
      BY <1>1, <1>3, <1>4, <1>5, <1>7
    <2> QED
      BY <2>1, <2>2 DEF new
  <1> QED
    BY <1>6, <1>7

\* A document that only changes its place keeps its weight.
LEMMA MovedWeight ==
  ASSUME NEW doc \in Docs, NEW index, NEW kind, NEW type, NEW floor,
         MovedTo(doc, index, kind) # NoDoc
  PROVE  Weight(MovedTo(doc, index, kind), type, floor) = Weight(doc, type, floor)
  <1>1. doc # NoDoc
    BY NoDocAssumption
  <1>2. /\ MovedTo(doc, index, kind).type = doc.type
        /\ MovedTo(doc, index, kind).quantity = doc.quantity
    BY DEF MovedTo, Docs
  <1> QED
    BY <1>1, <1>2 DEF Weight

\* A move keeps what there is of every type, whatever it finds in the slot.
LEMMA MoveStock ==
  ASSUME NEW s \in Collections, NEW i \in Ids, NEW index \in Int, NEW isTool \in BOOLEAN,
         NEW new \in MoveResults(s, i, index, isTool), NEW type
  PROVE  /\ Stock(new, type, 0) = Stock(s, type, 0)
         /\ Stock(new, type, 1) <= Stock(s, type, 1)
  <1> DEFINE kind == IF isTool THEN "tool" ELSE "storage"
             found == {j \in InKind(s, kind) : s[j].index = index}
  <1>0. 0 \in Floors /\ 1 \in Floors
    BY DEF Floors
  <1>1. i \in Held(s) /\ new \in Collections
    BY MoveSound DEF MoveResults, Sound
  <1>3. CASE \A j \in Ids : \/ new[j] = s[j]
                            \/ /\ s[j] \in Docs
                               /\ \E x \in Int, k \in Kinds : new[j] = MovedTo(s[j], x, k)
    <2>1. ASSUME NEW j \in Ids, NEW floor
          PROVE  Weight(new[j], type, floor) = Weight(s[j], type, floor)
      <3>1. CASE new[j] = s[j]
        BY <3>1
      <3>2. ASSUME s[j] \in Docs, NEW x \in Int, NEW k \in Kinds, new[j] = MovedTo(s[j], x, k)
            PROVE  Weight(new[j], type, floor) = Weight(s[j], type, floor)
        BY <3>2, MovedDoc, MovedWeight, NoDocAssumption
      <3> QED
        BY <1>3, <3>1, <3>2
    <2>2. Stock(new, type, 0) = Stock(s, type, 0) /\ Stock(new, type, 1) = Stock(s, type, 1)
      BY <2>1, StockSame
    <2>3. Stock(s, type, 1) \in Nat
      BY <1>0, StockType
    <2> QED
      BY <2>2, <2>3
  <1>4. CASE found = {}
    <2>1. new = [s EXCEPT ![i] = MovedTo(s[i], index, kind)]
      BY <1>1, <1>4 DEF MoveResults
    <2>2. kind \in Kinds /\ s[i] \in Docs
      BY <1>1, HeldDoc DEF Kinds
    <2> HIDE DEF kind, found
    <2>3. \A j \in Ids : new[j] = s[j] \/ (j = i /\ new[j] = MovedTo(s[j], index, kind))
      BY <2>1 DEF Collections
    <2> QED
      BY <1>3, <2>2, <2>3
  <1>5. CASE found # {}
    <2>1. PICK j \in found :
             \/ j = i /\ new = s
             \/ j # i /\ new = Swapped(s, i, j)
             \/ j # i /\ s[i].type = s[j].type /\ new = Merged(s, i, j)
      BY <1>1, <1>5 DEF MoveResults
    <2>2. j \in Held(s)
      BY DEF InKind
    <2> HIDE DEF found, kind
    <2>3. CASE new = s
      BY <1>3, <2>3
    <2>4. CASE j # i /\ new = Swapped(s, i, j)
      <3>1. /\ s[i] \in Docs /\ s[j] \in Docs
            /\ s[i].index \in Int /\ s[j].index \in Int
            /\ s[i].kind \in Kinds /\ s[j].kind \in Kinds
        BY <1>1, <2>2, HeldDoc
      <3>2. \A l \in Ids : \/ new[l] = s[l]
                           \/ l = i /\ new[l] = MovedTo(s[l], s[j].index, s[j].kind)
                           \/ l = j /\ new[l] = MovedTo(s[l], s[i].index, s[i].kind)
        BY <2>4 DEF Swapped, Collections
      <3> QED
        BY <1>3, <3>1, <3>2
    <2>5. CASE j # i /\ s[i].type = s[j].type /\ new = Merged(s, i, j)
      BY <1>1, <2>2, <2>5, MergedStock
    <2> QED
      BY <2>1, <2>3, <2>4, <2>5
  <1> QED
    BY <1>4, <1>5

Amount(created) == Total([i \in DOMAIN created |-> created[i].quantity])

\* Units that top up stacks, and new stacks, are added to the stock.
LEMMA StoreStock ==
  ASSUME NEW s \in Collections, NEW saved, NEW created, NEW kind, NEW capacity, NEW type,
         Toppable(s, saved), Placed(s, created, kind, capacity),
         \A i \in DOMAIN saved : s[i].type = type /\ saved[i] \in 0 .. MaxStack,
         \A i \in DOMAIN created : created[i].type = type /\ created[i].quantity # 0
  PROVE  LET new == Store(s, saved, created)
         IN  /\ Stock(new, type, 0) = Stock(s, type, 0) + Total(saved) + Amount(created)
             /\ Stock(new, type, 1) <= Stock(s, type, 1) + Total(saved) + Amount(created)
             /\ \A other : other # type => \A floor \in Floors :
                  Stock(new, other, floor) = Stock(s, other, floor)
             /\ Total(saved) \in Nat /\ Amount(created) \in Nat
  <1> DEFINE new == Store(s, saved, created)
             C == DOMAIN created
             D == DOMAIN saved
             g == [i \in Ids |-> IF i \in D THEN saved[i] ELSE 0]
             c == [i \in Ids |-> IF i \in C THEN created[i].quantity ELSE 0]
             h == [i \in Ids |-> IF i \in D THEN saved[i]
                                 ELSE IF i \in C THEN created[i].quantity ELSE 0]
             none == [i \in Ids |-> 0]
  <1>0. IsFiniteSet(Ids) /\ MaxStack \in Nat /\ 0 \in 0 .. MaxStack /\ 0 \in Floors /\ 1 \in Floors
    BY StacksAssumption DEF Floors
  <1>1. /\ D \subseteq Ids /\ C \subseteq Ids /\ D \cap C = {} /\ new \in Collections
        /\ \A i \in D : s[i] \in Docs /\ s[i] # NoDoc
        /\ \A i \in C : s[i] = NoDoc /\ created[i] \in Docs /\ created[i].quantity \in 0 .. MaxStack
    BY HeldDoc, StoreFits, NoDocAssumption DEF Toppable, Placed, Held, Docs
  <1>2. /\ \A i \in C : new[i] = created[i]
        /\ \A i \in D : new[i] = [s[i] EXCEPT !.quantity = s[i].quantity + saved[i]]
        /\ \A i \in Ids : i \notin C /\ i \notin D => new[i] = s[i]
    BY <1>1 DEF Store
  <1>3. /\ g \in [Ids -> 0 .. MaxStack] /\ c \in [Ids -> 0 .. MaxStack]
        /\ h \in [Ids -> 0 .. MaxStack] /\ none \in [Ids -> 0 .. MaxStack]
        /\ \A i \in Ids : g[i] = IF i \in D THEN saved[i] ELSE 0
        /\ \A i \in Ids : c[i] = IF i \in C THEN created[i].quantity ELSE 0
        /\ \A i \in Ids : h[i] = g[i] + c[i] /\ none[i] = 0
    <2>1. \A i \in Ids : i \in D => saved[i] \in 0 .. MaxStack /\ saved[i] + 0 = saved[i]
      OBVIOUS
    <2>2. \A i \in Ids : i \in C => /\ created[i].quantity \in 0 .. MaxStack /\ i \notin D
                                    /\ 0 + created[i].quantity = created[i].quantity
      BY <1>1
    <2> HIDE DEF D, C
    <2> QED
      BY <1>0, <2>1, <2>2
  <1>4. Total(g) = Total(saved) /\ Total(c) = Amount(created)
    <2> DEFINE amounts == [i \in DOMAIN created |-> created[i].quantity]
    <2>1. Total(g) = Total(saved)
      <3>1. DOMAIN g = Ids /\ DOMAIN saved = D /\ D \subseteq Ids
        BY <1>1
      <3>2. (\A i \in D : g[i] = saved[i]) /\ \A i \in Ids \ D : g[i] = 0
        BY <1>1
      <3> HIDE DEF g
      <3> QED
        BY <3>1, <3>2, TotalExtended
    <2>2. Total(c) = Total(amounts)
      <3>1. DOMAIN c = Ids /\ DOMAIN amounts = C /\ C \subseteq Ids
        BY <1>1
      <3>2. (\A i \in C : c[i] = amounts[i]) /\ \A i \in Ids \ C : c[i] = 0
        BY <1>1
      <3> HIDE DEF c, amounts, C
      <3> QED
        BY <3>1, <3>2, TotalExtended
    <2> QED
      BY <2>1, <2>2 DEF Amount
  <1>5. Total(none) = 0
    BY TotalNothing
  <1> HIDE DEF new, g, c, h, none
  <1>6. Total(g) \in Nat /\ Total(c) \in Nat /\ Total(h) \in Nat
    BY <1>0, <1>3, TotalType
  <1>7. Total(h) = Total(g) + Total(c)
    <2>1. \A i \in Ids : h[i] \in Nat /\ g[i] \in Nat /\ c[i] \in Nat /\ none[i] = 0
      BY <1>0, <1>3
    <2>2. \A i \in Ids : h[i] + none[i] <= g[i] + c[i] /\ g[i] + c[i] <= h[i] + none[i]
      BY <1>3, <2>1
    <2>3. Total(h) + Total(none) <= Total(g) + Total(c)
      BY <1>0, <1>3, <2>2, TotalBalance
    <2>4. Total(g) + Total(c) <= Total(h) + Total(none)
      BY <1>0, <1>3, <2>2, TotalBalance
    <2> QED
      BY <1>5, <1>6, <2>3, <2>4
  <1>8. ASSUME NEW floor \in Floors
        PROVE  /\ Stock(new, type, floor) <= Stock(s, type, floor) + Total(h)
               /\ floor = 0 => Stock(s, type, floor) + Total(h) <= Stock(new, type, floor)
               /\ Stock(s, type, floor) \in Nat /\ Stock(new, type, floor) \in Nat
    <2> DEFINE a == Weights(new, type, floor)
               b == Weights(s, type, floor)
    <2>1. /\ a \in [Ids -> 0 .. MaxStack] /\ b \in [Ids -> 0 .. MaxStack]
          /\ Stock(new, type, floor) = Total(a) /\ Stock(s, type, floor) = Total(b)
          /\ \A i \in Ids : a[i] = Weight(new[i], type, floor) /\ b[i] = Weight(s[i], type, floor)
          /\ Total(a) \in Nat /\ Total(b) \in Nat
      BY <1>1, StockType DEF Stock
    <2>2. ASSUME NEW i \in Ids
          PROVE  a[i] <= b[i] + h[i] /\ (floor = 0 => a[i] = b[i] + h[i])
      <3>1. CASE i \in D
        <4> DEFINE q == s[i].quantity
                   m == saved[i]
                   sum == q + m
                   doc == [s[i] EXCEPT !.quantity = sum]
        <4>1. q \in Nat /\ m \in Nat /\ sum \in 0 .. MaxStack /\ sum \in Nat /\ floor \in Nat
                /\ sum = q + m
          <5>1. q \in Nat /\ sum \in 0 .. MaxStack
            BY <1>0, <1>1, <3>1 DEF Docs, Toppable
          <5>2. m \in 0 .. MaxStack
            BY <3>1
          <5>3. floor \in Nat
            BY DEF Floors
          <5>4. sum = q + m
            OBVIOUS
          <5> HIDE DEF q, m, sum
          <5> QED
            BY <1>0, <5>1, <5>2, <5>3, <5>4
        <4>2. new[i] = doc /\ s[i] \in Docs /\ s[i] # NoDoc /\ s[i].type = type /\ h[i] = m
          <5>1. new[i] = doc /\ s[i] \in Docs /\ s[i] # NoDoc
            BY <1>1, <1>2, <3>1
          <5>2. s[i].type = type
            BY <3>1
          <5>3. g[i] = m /\ c[i] = 0 /\ h[i] = g[i] + c[i]
            BY <1>1, <1>3, <3>1
          <5> HIDE DEF m, doc
          <5> QED
            BY <4>1, <5>1, <5>2, <5>3
        <4>3. b[i] = IF q = 0 THEN floor ELSE q
          BY <2>1, <4>2 DEF Weight
        <4> HIDE DEF sum, q, m
        <4>4. doc \in Docs /\ doc.type = type /\ doc.quantity = sum
          BY <4>1, <4>2, RefilledDoc DEF Docs
        <4> HIDE DEF doc
        <4>5. a[i] = IF sum = 0 THEN floor ELSE sum
          BY <2>1, <4>2, <4>4, NoDocAssumption DEF Weight
        <4> QED
          BY <4>1, <4>2, <4>3, <4>5
      <3>2. CASE i \in C
        <4> DEFINE q == created[i].quantity
        <4>1. new[i] = created[i] /\ s[i] = NoDoc /\ h[i] = 0 + q /\ i \notin D
              /\ created[i] \in Docs /\ created[i].type = type /\ q # 0 /\ q \in Nat
          BY <1>1, <1>2, <1>3, <3>2
        <4>2. a[i] = q
          BY <2>1, <4>1, NoDocAssumption DEF Weight
        <4>3. b[i] = 0
          BY <2>1, <4>1 DEF Weight
        <4> HIDE DEF q
        <4> QED
          BY <4>1, <4>2, <4>3
      <3>3. CASE i \notin D /\ i \notin C
        <4>1. a[i] = b[i] /\ h[i] = 0 /\ b[i] \in Nat
          BY <1>2, <1>3, <2>1, <3>3
        <4> QED
          BY <4>1
      <3> QED
        BY <3>1, <3>2, <3>3
    <2>3. \A i \in Ids : h[i] \in Nat /\ a[i] \in Nat /\ b[i] \in Nat /\ none[i] = 0
      BY <1>0, <1>3, <2>1
    <2> HIDE DEF a, b
    <2>4. \A i \in Ids : a[i] + none[i] <= b[i] + h[i]
      BY <2>2, <2>3
    <2>5. Total(a) + Total(none) <= Total(b) + Total(h)
      BY <1>0, <1>3, <2>1, <2>4, TotalBalance
    <2>6. ASSUME floor = 0
          PROVE  Total(b) + Total(h) <= Total(a) + Total(none)
      <3>1. \A i \in Ids : b[i] + h[i] <= a[i] + none[i]
        BY <2>2, <2>3, <2>6
      <3> QED
        BY <1>0, <1>3, <2>1, <3>1, TotalBalance
    <2> QED
      BY <1>5, <1>6, <2>1, <2>5, <2>6
  <1>9. ASSUME NEW other, other # type, NEW floor \in Floors
        PROVE  Stock(new, other, floor) = Stock(s, other, floor)
    <2>1. ASSUME NEW i \in Ids
          PROVE  Weight(new[i], other, floor) = Weight(s[i], other, floor)
      <3>1. CASE i \in D
        <4>1. s[i].type = type /\ new[i].type = type
          BY <1>1, <1>2, <3>1 DEF Docs
        <4> QED
          BY <1>9, <4>1 DEF Weight
      <3>2. CASE i \in C
        BY <1>1, <1>2, <1>9, <3>2 DEF Weight
      <3>3. CASE i \notin D /\ i \notin C
        BY <1>2, <3>3
      <3> QED
        BY <3>1, <3>2, <3>3
    <2> QED
      BY <2>1, StockSame
  <1>10. Stock(new, type, 0) = Stock(s, type, 0) + Total(saved) + Amount(created)
    <2>1. /\ Stock(new, type, 0) <= Stock(s, type, 0) + Total(h)
          /\ Stock(s, type, 0) + Total(h) <= Stock(new, type, 0)
          /\ Stock(s, type, 0) \in Nat /\ Stock(new, type, 0) \in Nat
      BY <1>0, <1>8
    <2> QED
      BY <1>4, <1>6, <1>7, <2>1
  <1>11. Stock(new, type, 1) <= Stock(s, type, 1) + Total(saved) + Amount(created)
    <2>1. /\ Stock(new, type, 1) <= Stock(s, type, 1) + Total(h)
          /\ Stock(s, type, 1) \in Nat /\ Stock(new, type, 1) \in Nat
      BY <1>0, <1>8
    <2> QED
      BY <1>4, <1>6, <1>7, <2>1
  <1> QED
    BY <1>4, <1>6, <1>9, <1>10, <1>11 DEF new

\* New stacks hold what did not fit elsewhere, and none of them is empty.
LEMMA NewStacksTotal ==
  ASSUME NEW s \in Collections, NEW type \in Types, NEW rest \in Nat, NEW kind \in Kinds,
         NEW capacity \in Nat, NEW created \in NewStacks(s, type, rest, kind, capacity)
  PROVE  /\ Amount(created) = rest
         /\ \A i \in DOMAIN created : created[i].quantity # 0
  <1> DEFINE count == CeilDiv(rest, MaxStack)
             slots == Lowest(Free(s, kind, capacity), count)
             last  == rest - MaxStack * (count - 1)
             Stack(slot) ==
               [type |-> type, kind |-> kind, index |-> slot,
                quantity |-> IF \E u \in slots : u > slot THEN MaxStack ELSE last]
  <1>0. PICK fresh \in SUBSET (Ids \ Held(s)) :
          /\ Cardinality(fresh) = count
          /\ \E at \in Bijection(fresh, slots) : created = [i \in fresh |-> Stack(at[i])]
    BY DEF NewStacks
  <1>1. PICK at \in Bijection(fresh, slots) : created = [i \in fresh |-> Stack(at[i])]
    BY <1>0
  <1>2. /\ at \in [fresh -> slots] /\ \A i, j \in fresh : at[i] = at[j] => i = j
        /\ \A u \in slots : \E i \in fresh : at[i] = u
    BY DEF Bijection, Injection, Surjection, IsInjective
  <1>3. slots \subseteq 0 .. capacity - 1
    BY LowestSubset DEF Free
  <1>4. /\ count \in Nat /\ MaxStack \in Nat \ {0} /\ rest <= MaxStack * count
        /\ MaxStack * (count - 1) < rest \/ rest = 0
        /\ rest = 0 => count = 0
    <2>1. MaxStack \in Nat \ {0}
      BY StacksAssumption
    <2>2. rest = 0 => count = 0
      BY <2>1 DEF CeilDiv
    <2> QED
      BY <2>1, <2>2, CeilDivBounds
  <1>5. IsFiniteSet(fresh)
    BY IdsFinite
  <1>6. \A i \in fresh : created[i].quantity = IF \E u \in slots : u > at[i] THEN MaxStack ELSE last
    BY <1>1
  <1>7. DOMAIN created = fresh
    BY <1>1
  <1> HIDE DEF slots, Stack, count
  <1>8. CASE count = 0
    <2>1. fresh = {}
      BY <1>0, <1>5, <1>8, FS_EmptySet
    <2>2. rest = 0
      BY <1>4, <1>8
    <2>3. Amount(created) = 0
      BY <1>7, <2>1, TotalNothing DEF Amount
    <2> QED
      BY <1>7, <2>1, <2>2, <2>3
  <1>9. CASE count # 0
    <2>1. last \in 1 .. MaxStack
      <3> DEFINE p == MaxStack * (count - 1)
      <3>1. MaxStack * count = p + MaxStack /\ p \in Int
        BY <1>4
      <3>2. p < rest /\ rest <= p + MaxStack
        BY <1>4, <1>9, <3>1
      <3>3. last = rest - p
        OBVIOUS
      <3> HIDE DEF p, last
      <3> QED
        BY <1>4, <3>1, <3>2, <3>3
    <2>2. fresh # {}
      BY <1>0, <1>9, FS_EmptySet
    <2>3. slots # {} /\ slots \subseteq Nat
      BY <1>2, <1>3, <2>2
    <2>4. PICK top \in slots : \A u \in slots : u <= top
      <3> DEFINE below == {capacity - u : u \in slots}
      <3>1. below \in SUBSET Nat /\ below # {}
        <4>1. \A u \in slots : u \in Nat /\ u <= capacity - 1
          BY <1>3
        <4>2. \A u \in slots : capacity - u \in Nat
          BY <4>1
        <4> QED
          BY <2>3, <4>2
      <3>2. PICK m \in below : \A n \in below : m <= n
        <4> HIDE DEF below
        <4> QED
          BY <3>1, LeastNatural
      <3>3. PICK top \in slots : m = capacity - top
        OBVIOUS
      <3>4. ASSUME NEW u \in slots PROVE u <= top
        <4>1. capacity - top <= capacity - u
          BY <3>2, <3>3
        <4> QED
          BY <2>3, <4>1
      <3> QED
        BY <3>4
    <2>5. PICK x \in fresh : at[x] = top
      BY <1>2
    <2> DEFINE f == [i \in fresh |-> created[i].quantity]
               full == [i \in fresh |-> MaxStack]
    <2> HIDE DEF last
    <2>6. f[x] = last
      <3>1. ~ \E u \in slots : u > at[x]
        BY <2>3, <2>4, <2>5
      <3> QED
        BY <1>6, <3>1
    <2>7. ASSUME NEW i \in fresh, i # x
          PROVE  f[i] = MaxStack
      <3>1. at[i] \in slots /\ at[i] # top
        BY <1>2, <2>5, <2>7
      <3>2. top > at[i]
        <4>1. top \in Nat /\ at[i] \in Nat
          BY <2>3, <3>1
        <4>2. at[i] <= top
          BY <2>4, <3>1
        <4> QED
          BY <3>1, <4>1, <4>2
      <3> QED
        BY <1>6, <3>2
    <2>8. /\ f \in [fresh -> 0 .. MaxStack] /\ full \in [fresh -> 0 .. MaxStack]
          /\ \A i \in fresh \ {x} : full[i] = f[i]
          /\ full[x] = MaxStack
      <3>1. \A i \in fresh : f[i] \in 0 .. MaxStack
        BY <1>4, <2>1, <2>6, <2>7
      <3>2. DOMAIN f = fresh /\ f = [i \in fresh |-> f[i]]
        OBVIOUS
      <3>3. full \in [fresh -> 0 .. MaxStack] /\ \A i \in fresh : full[i] = MaxStack
        BY <1>4
      <3> HIDE DEF f, full
      <3> QED
        BY <2>7, <3>1, <3>2, <3>3
    <2>9. Total(full) = count * MaxStack
      <3>1. UnitsOf(full) = fresh \X (1 .. MaxStack)
        BY DEF UnitsOf
      <3>2. Cardinality(fresh \X (1 .. MaxStack)) = count * MaxStack
        BY <1>0, <1>4, <1>5, Rectangle
      <3>3. Total(full) = Cardinality(UnitsOf(full))
        BY DEF Total, UnitsOf
      <3> QED
        BY <3>1, <3>2, <3>3
    <2>10. Amount(created) = Total(f)
      BY <1>7 DEF Amount
    <2>11. \A i \in fresh : created[i].quantity = f[i]
      OBVIOUS
    <2> HIDE DEF f, full
    <2>12. Total(f) = Total(full) - full[x] + f[x]
      BY <1>5, <2>8, TotalUpdate
    <2>13. Amount(created) = rest
      <3>1. Total(f) = count * MaxStack - MaxStack + last
        BY <2>6, <2>8, <2>9, <2>12
      <3>2. count * MaxStack - MaxStack = MaxStack * (count - 1)
        BY <1>4
      <3> QED
        BY <1>4, <2>10, <3>1, <3>2 DEF last
    <2>14. \A i \in fresh : created[i].quantity # 0
      BY <1>4, <2>1, <2>6, <2>7, <2>11
    <2> QED
      BY <1>7, <2>13, <2>14
  <1> QED
    BY <1>8, <1>9

\* The stacks that are filled are stacks of the type, of the kind.
LEMMA FillingsOf ==
  ASSUME NEW s, NEW type, NEW n, NEW kind, NEW given \in Fillings(s, type, n, kind)
  PROVE  \A i \in DOMAIN given :
           s[i].type = type /\ s[i].kind = kind /\ given[i] \in 0 .. MaxStack
BY DEF Fillings, OfType, InKind

\* What is added is in stock afterwards, to the unit.
LEMMA AddStock ==
  ASSUME NEW s \in Collections, NEW type \in Types, NEW n \in Nat,
         NEW kind \in Kinds, NEW capacity \in Nat,
         NEW new \in AddResults(s, type, n, kind, capacity)
  PROVE  /\ new \in Collections
         /\ Stock(new, type, 0) = Stock(s, type, 0) + n
         /\ Stock(new, type, 1) <= Stock(s, type, 1) + n
         /\ \A other : other # type => \A floor \in Floors :
              Stock(new, other, floor) = Stock(s, other, floor)
  <1>0. PICK given \in Fillings(s, type, n, kind) :
          \E created \in NewStacks(s, type, n - Total(given), kind, capacity) :
            new = Store(s, given, created)
    BY DEF AddResults
  <1>1. PICK created \in NewStacks(s, type, n - Total(given), kind, capacity) :
          new = Store(s, given, created)
    BY <1>0
  <1> DEFINE rest == n - Total(given)
  <1>2. Toppable(s, given) /\ rest \in Nat /\ rest = n - Total(given)
    BY FillingsFit
  <1>3. \A i \in DOMAIN given : s[i].type = type /\ given[i] \in 0 .. MaxStack
    BY FillingsOf
  <1>4. created \in NewStacks(s, type, rest, kind, capacity)
    OBVIOUS
  <1> HIDE DEF rest
  <1>5. /\ Placed(s, created, kind, capacity)
        /\ \A i \in DOMAIN created : created[i].type = type /\ created[i].quantity # 0
        /\ Amount(created) = rest
    BY <1>2, <1>4, NewStacksFit, NewStacksTotal
  <1>6. LET result == Store(s, given, created)
        IN  /\ Stock(result, type, 0) = Stock(s, type, 0) + Total(given) + Amount(created)
            /\ Stock(result, type, 1) <= Stock(s, type, 1) + Total(given) + Amount(created)
            /\ \A other : other # type => \A floor \in Floors :
                 Stock(result, other, floor) = Stock(s, other, floor)
            /\ Total(given) \in Nat /\ Amount(created) \in Nat
    BY <1>2, <1>3, <1>5, StoreStock
  <1>7. Stock(s, type, 0) \in Nat /\ Stock(s, type, 1) \in Nat
    BY StockType DEF Floors
  <1>8. new \in Collections
    BY <1>1, <1>2, <1>5, StoreFits
  <1> QED
    BY <1>1, <1>2, <1>5, <1>6, <1>7, <1>8

\* A tool that is bought is one more.
LEMMA AddToolStock ==
  ASSUME NEW s \in Collections, NEW tool \in Tools, NEW capacity \in Nat,
         NEW new \in AddToolResults(s, tool, capacity), NEW type
  PROVE  Stock(new, type, 1) = Stock(s, type, 1) + (IF type = tool THEN 1 ELSE 0)
  <1> DEFINE free == Free(s, "storage", capacity)
             Doc(slot) == [type |-> tool, kind |-> "storage", index |-> slot, quantity |-> 1]
  <1>0. PICK id \in Ids \ Held(s) : \E slot \in Lowest(free, 1) :
          new = Store(s, << >>, [i \in {id} |-> Doc(slot)])
    BY DEF AddToolResults
  <1>1. PICK slot \in Lowest(free, 1) :
          new = Store(s, << >>, [i \in {id} |-> Doc(slot)])
    BY <1>0
  <1>2. new \in Collections /\ 1 \in Floors
    BY AddToolFits DEF Floors
  <1>3. new[id] = Doc(slot) /\ s[id] = NoDoc /\ \A j \in Ids \ {id} : new[j] = s[j]
    <2> DEFINE created == [i \in {id} |-> Doc(slot)]
               saved == << >>
    <2>1. DOMAIN created = {id} /\ created[id] = Doc(slot) /\ DOMAIN saved = {}
      OBVIOUS
    <2>2. new = Store(s, saved, created)
      BY <1>1
    <2> HIDE DEF created, saved
    <2> QED
      BY <2>1, <2>2 DEF Store, Held
  <1>4. new[id] # NoDoc /\ Doc(slot).type = tool /\ Doc(slot).quantity = 1
    <2>1. slot \in Nat
      BY LowestSubset DEF Free
    <2>2. Doc(slot) \in Docs
      BY <2>1, StacksAssumption DEF Docs, Types, Kinds
    <2> QED
      BY <1>3, <2>2, NoDocAssumption
  <1> HIDE DEF Doc
  <1>5. Weight(new[id], type, 1) = (IF type = tool THEN 1 ELSE 0) /\ Weight(s[id], type, 1) = 0
    BY <1>3, <1>4 DEF Weight
  <1>6. Stock(new, type, 1) = Stock(s, type, 1) - Weight(s[id], type, 1) + Weight(new[id], type, 1)
    BY <1>2, <1>3, StockUpdate
  <1>7. Stock(s, type, 1) \in Nat
    BY <1>2, StockType
  <1> QED
    BY <1>5, <1>6, <1>7

\* Adding with only the first stack saved adds no more than there was to add.
LEMMA AddFirstStock ==
  ASSUME NEW s \in Collections, NEW type \in Types, NEW n \in Nat, NEW kind \in Kinds,
         NEW new \in AddFirstResults(s, type, n, kind)
  PROVE  /\ Stock(new, type, 1) <= Stock(s, type, 1) + n
         /\ \A other : other # type => Stock(new, other, 1) = Stock(s, other, 1)
  <1>1. PICK given \in Fillings(s, type, n, kind) :
          \E saved \in FirstOnly(s, given),
             created \in NewStacks(s, type, n - Total(given), kind, Capacity) :
               new = Store(s, saved, created)
    BY DEF AddFirstResults
  <1> DEFINE rest == n - Total(given)
  <1>2. PICK saved \in FirstOnly(s, given), created \in NewStacks(s, type, rest, kind, Capacity) :
          new = Store(s, saved, created)
    BY <1>1
  <1>3. Toppable(s, given) /\ rest \in Nat /\ rest = n - Total(given)
    BY FillingsFit
  <1>4. \A i \in DOMAIN given : s[i].type = type /\ given[i] \in 0 .. MaxStack
    BY FillingsOf
  <1> HIDE DEF rest
  <1>5. /\ Placed(s, created, kind, Capacity)
        /\ \A i \in DOMAIN created : created[i].type = type /\ created[i].quantity # 0
        /\ Amount(created) = rest
    BY <1>3, NewStacksFit, NewStacksTotal, StacksAssumption
  <1>6. /\ DOMAIN saved \subseteq DOMAIN given
        /\ \A i \in DOMAIN saved : saved[i] = given[i]
    <2>1. CASE saved = << >>
      BY <2>1
    <2>2. CASE \E i \in DOMAIN given : saved = [j \in {i} |-> given[j]]
      BY <2>2
    <2> QED
      BY <2>1, <2>2 DEF FirstOnly
  <1>7. Toppable(s, saved) /\ \A i \in DOMAIN saved : s[i].type = type /\ saved[i] \in 0 .. MaxStack
    BY <1>3, <1>4, <1>6 DEF Toppable
  <1>8. LET result == Store(s, saved, created)
        IN  /\ Stock(result, type, 0) = Stock(s, type, 0) + Total(saved) + Amount(created)
            /\ Stock(result, type, 1) <= Stock(s, type, 1) + Total(saved) + Amount(created)
            /\ \A other : other # type => \A floor \in Floors :
                 Stock(result, other, floor) = Stock(s, other, floor)
            /\ Total(saved) \in Nat /\ Amount(created) \in Nat
    <2>1. Toppable(s, saved) /\ Placed(s, created, kind, Capacity)
      BY <1>5, <1>7
    <2>2. \A i \in DOMAIN created : created[i].type = type /\ created[i].quantity # 0
      BY <1>5
    <2>3. \A i \in DOMAIN saved : s[i].type = type /\ saved[i] \in 0 .. MaxStack
      BY <1>7
    <2> QED
      BY <2>1, <2>2, <2>3, StoreStock
  <1>9. IsFiniteSet(DOMAIN given) /\ Total(given) \in Nat
    <2>1. DOMAIN given \in SUBSET Ids
      BY <1>3 DEF Toppable, Held
    <2> QED
      BY <2>1, IdsFinite, TotalType
  <1>10. Total(saved) <= Total(given)
    <2> DEFINE D == DOMAIN given
               f == [i \in D |-> IF i \in DOMAIN saved THEN saved[i] ELSE 0]
    <2>1. /\ DOMAIN f = D /\ DOMAIN saved \subseteq D
          /\ \A i \in DOMAIN saved : f[i] = saved[i]
          /\ \A i \in D \ DOMAIN saved : f[i] = 0
      BY <1>6
    <2>2. given = [i \in D |-> given[i]]
      BY DEF Fillings
    <2>3. f \in [D -> 0 .. MaxStack] /\ \A i \in D : f[i] <= given[i]
      <3>1. \A i \in D : (IF i \in DOMAIN saved THEN saved[i] ELSE 0) \in 0 .. MaxStack
        BY <1>4, <1>7, StacksAssumption
      <3>2. \A i \in D : f[i] = given[i] \/ f[i] = 0
        BY <1>6
      <3>3. f \in [D -> 0 .. MaxStack]
        BY <3>1
      <3> HIDE DEF f, D
      <3>4. \A i \in D : given[i] \in 0 .. MaxStack
        BY <1>4 DEF D
      <3> QED
        BY <3>2, <3>3, <3>4
    <2>4. given \in [D -> 0 .. MaxStack]
      <3>1. \A i \in D : given[i] \in 0 .. MaxStack
        BY <1>4
      <3> HIDE DEF D
      <3> QED
        BY <2>2, <3>1
    <2> HIDE DEF f
    <2>5. Total(f) = Total(saved)
      BY <2>1, TotalExtended
    <2>6. Total(f) <= Total(given)
      BY <1>9, <2>3, <2>4, TotalGrows
    <2> QED
      BY <2>5, <2>6
  <1>11. Stock(s, type, 1) \in Nat /\ Stock(new, type, 1) \in Nat /\ 1 \in Floors
    <2>1. new \in Collections /\ 1 \in Floors
      BY AddFirstFits DEF Floors
    <2> QED
      BY <2>1, StockType
  <1>12. Stock(new, type, 1) <= Stock(s, type, 1) + n
    BY <1>2, <1>3, <1>5, <1>8, <1>9, <1>10, <1>11
  <1> QED
    BY <1>2, <1>8, <1>11, <1>12

\* A stack that is delivered or retrieved brings no more than it held.
LEMMA ShiftStock ==
  ASSUME NEW s \in Collections, NEW i \in Ids, NEW from \in Kinds, NEW to \in Kinds,
         NEW new \in ShiftResults(s, i, from, to), NEW other
  PROVE  Stock(new, other, 1) <= Stock(s, other, 1)
  <1> DEFINE left == [s EXCEPT ![i] = NoDoc]
             type == s[i].type
             n    == s[i].quantity
  <1>0. 1 \in Floors
    BY DEF Floors
  <1>1. i \in Held(s) /\ type \in Products
    BY DEF ShiftResults, InKind
  <1>2. n \in Nat /\ type \in Types /\ s[i] \in Docs /\ s[i] # NoDoc
    BY <1>1, HeldDoc, NoDocAssumption
  <1>3. left \in Collections /\ new \in Collections
    BY ShiftSound DEF Collections, Sound
  <1>4. new \in AddFirstResults(left, type, n, to)
    BY <1>1 DEF ShiftResults
  <1>5. left[i] = NoDoc /\ \A j \in Ids \ {i} : left[j] = s[j]
    BY DEF Collections
  <1> HIDE DEF left
  <1>6. Stock(left, other, 1)
          = Stock(s, other, 1) - Weight(s[i], other, 1) + Weight(left[i], other, 1)
    BY <1>0, <1>3, <1>5, StockUpdate
  <1>7. Weight(left[i], other, 1) = 0 /\ Weight(s[i], other, 1) \in Nat
          /\ (other = type => n <= Weight(s[i], other, 1))
    <2>1. Weight(left[i], other, 1) = 0
      BY <1>5 DEF Weight
    <2>2. Weight(s[i], other, 1) \in 0 .. MaxStack
      BY <1>0, <1>2, WeightType
    <2>3. s[i].type = other => s[i].quantity <= Weight(s[i], other, 1)
      BY <1>0, <1>2, WeightType
    <2> QED
      BY <2>1, <2>2, <2>3, StacksAssumption
  <1>8. /\ Stock(new, type, 1) <= Stock(left, type, 1) + n
        /\ other # type => Stock(new, other, 1) = Stock(left, other, 1)
    <2> HIDE DEF n, type
    <2> QED
      BY <1>2, <1>3, <1>4, AddFirstStock
  <1>9. Stock(s, other, 1) \in Nat /\ Stock(left, other, 1) \in Nat /\ Stock(new, other, 1) \in Nat
    BY <1>0, <1>3, StockType
  <1> HIDE DEF n, type
  <1>10. CASE other = type
    BY <1>2, <1>6, <1>7, <1>8, <1>9, <1>10
  <1>11. CASE other # type
    BY <1>6, <1>7, <1>8, <1>9, <1>11
  <1> QED
    BY <1>10, <1>11

-----------------------------------------------------------------------------
(* Sorting: the numbers.                                                   *)

\* A remainder is what is left over a multiple.
LEMMA Remainder ==
  ASSUME NEW x \in Nat, NEW m \in Nat \ {0}, NEW k \in Int, NEW y \in 0 .. m - 1,
         x = m * k + y
  PROVE  x % m = y
  <1> DEFINE p == x \div m
             z == x % m
  <1>1. p \in Int /\ z \in Int /\ x = m * p + z /\ 0 <= z /\ z < m
    OBVIOUS
  <1> HIDE DEF p, z
  <1>2. m * p + z = m * k + y
    BY <1>1
  <1>3. m * p - m * k = y - z
    BY <1>1, <1>2
  <1>4. ~ (p >= k + 1)
    <2> SUFFICES ASSUME p >= k + 1 PROVE FALSE
      OBVIOUS
    <2>1. m * p >= m * (k + 1)
      BY <1>1
    <2>2. m * (k + 1) = m * k + m
      OBVIOUS
    <2> QED
      BY <1>1, <1>3, <2>1, <2>2
  <1>5. ~ (k >= p + 1)
    <2> SUFFICES ASSUME k >= p + 1 PROVE FALSE
      OBVIOUS
    <2>1. m * k >= m * (p + 1)
      BY <1>1
    <2>2. m * (p + 1) = m * p + m
      BY <1>1
    <2> QED
      BY <1>1, <1>3, <2>1, <2>2
  <1>6. p = k
    BY <1>1, <1>4, <1>5
  <1> QED
    BY <1>1, <1>2, <1>6 DEF z

\* A document that stays is not counted up: it and the full stacks of lower rank hold
\* no more than there was, also where what remains for it is nothing and it counts as one.
LEMMA SortedFits ==
  ASSUME NEW t \in Nat \ {0}, NEW Q \in Nat, NEW r \in Nat \ {0},
         NEW m \in Nat \ {0}, NEW q, NEW w,
         r * t <= CeilDiv(t * Q, m),
         q = IF r * t = CeilDiv(t * Q, m) THEN (t * Q) % m ELSE m,
         w = IF q = 0 THEN 1 ELSE q
  PROVE  w \in 1 .. m /\ m * (r - 1) + w <= Q
  <1> DEFINE S == CeilDiv(t * Q, m)
             x == t * Q
  <1>1. x \in Nat /\ r * t \in Nat /\ r * t >= 1
    <2>1. r >= 1 /\ t >= 1
      OBVIOUS
    <2> QED
      BY <2>1
  <1>2. S \in Nat /\ (m * (S - 1) < x \/ x = 0) /\ x <= m * S
    <2> HIDE DEF x
    <2> QED
      BY <1>1, CeilDivBounds DEF x
  <1>3. x # 0
    <2> SUFFICES ASSUME x = 0 PROVE FALSE
      OBVIOUS
    <2>1. S = 0
      BY DEF CeilDiv
    <2> QED
      BY <1>1, <2>1
  <1>4. r * t <= S
    OBVIOUS
  <1> HIDE DEF S, x
  <1>5. m * (S - 1) < x
    BY <1>2, <1>3
  <1>6. \A a, b \in Int : t * a < t * b => a < b
    <2> SUFFICES ASSUME NEW a \in Int, NEW b \in Int, a >= b PROVE t * a >= t * b
      OBVIOUS
    <2> QED
      OBVIOUS
  <1>7. CASE r * t < S
    <2>1. w = m
      BY <1>7 DEF S
    <2>2. m * (r * t) <= m * (S - 1)
      <3>1. r * t <= S - 1
        BY <1>1, <1>2, <1>7
      <3> DEFINE a == r * t
      <3>2. a \in Int /\ a <= S - 1
        BY <1>1, <3>1
      <3> HIDE DEF a
      <3>3. m * a <= m * (S - 1)
        BY <1>2, <3>2
      <3> QED
        BY <3>3 DEF a
    <2>3. m * (r * t) = t * (m * r)
      OBVIOUS
    <2>4. t * (m * r) < t * Q
      <3>1. m * (S - 1) \in Int /\ m * (r * t) \in Int
        BY <1>1, <1>2
      <3>2. x = t * Q
        BY DEF x
      <3> QED
        BY <1>1, <1>5, <2>2, <2>3, <3>1, <3>2
    <2>5. m * r < Q
      BY <1>6, <2>4
    <2>6. m * (r - 1) + m = m * r
      OBVIOUS
    <2> QED
      BY <2>1, <2>5, <2>6
  <1>8. CASE r * t = S
    <2> DEFINE k == S - 1
               y == x - m * k
    <2>1. k \in Int /\ m * k < x /\ m * S = m * k + m /\ x <= m * k + m
      <3>1. m * S = m * (S - 1) + m
        BY <1>2
      <3> QED
        BY <1>2, <1>5, <3>1
    <2>2. y \in 1 .. m /\ x = m * k + y
      <3> DEFINE p == m * k
      <3>1. p \in Int /\ p < x /\ x <= p + m
        BY <2>1
      <3>2. y = x - p
        OBVIOUS
      <3> HIDE DEF p, y
      <3>3. y \in 1 .. m /\ x = p + y
        BY <1>1, <3>1, <3>2
      <3> QED
        BY <3>3 DEF p
    <2> HIDE DEF y
    <2>3. q = x % m
      BY <1>8 DEF S, x
    <2>4. m * (t * (r - 1)) < x
      <3>1. t * (r - 1) = r * t - t
        OBVIOUS
      <3> DEFINE a == t * (r - 1)
      <3>2. a \in Int /\ a <= k
        BY <1>1, <1>8, <3>1
      <3> HIDE DEF a, k
      <3>3. m * a <= m * k
        BY <2>1, <3>2
      <3>4. m * a \in Int /\ m * k \in Int
        BY <2>1, <3>2
      <3> QED
        BY <1>1, <2>1, <3>3, <3>4 DEF a
    <2>5. m * (r - 1) < Q
      <3>1. m * (t * (r - 1)) = t * (m * (r - 1))
        OBVIOUS
      <3>2. t * (m * (r - 1)) < t * Q
        BY <2>4, <3>1 DEF x
      <3> QED
        BY <1>6, <3>2
    <2>6. CASE y = m
      <3>1. x = m * (k + 1) + 0
        <4>1. m * (k + 1) = m * k + m
          BY <2>1
        <4> QED
          BY <2>1, <2>2, <2>6, <4>1
      <3>2. x % m = 0
        <4>1. k + 1 \in Int /\ 0 \in 0 .. m - 1
          BY <2>1
        <4> HIDE DEF k
        <4> QED
          BY <1>1, <3>1, <4>1, Remainder
      <3>3. w = 1
        BY <2>3, <3>2
      <3> QED
        BY <2>5, <3>3
    <2>7. CASE y # m
      <3>1. y \in 0 .. m - 1 /\ y # 0
        BY <2>2, <2>7
      <3>2. x % m = y
        <4> HIDE DEF k
        <4> QED
          BY <1>1, <2>1, <2>2, <3>1, Remainder
      <3>3. w = y
        BY <2>3, <3>1, <3>2
      <3>4. Q <= m * r
        <4>1. t * Q <= t * (m * r)
          <5>1. m * S = t * (m * r)
            BY <1>8
          <5> QED
            BY <1>2, <5>1 DEF x
        <4> SUFFICES ASSUME m * r < Q PROVE FALSE
          OBVIOUS
        <4> DEFINE a == m * r
        <4>2. a \in Int /\ a + 1 <= Q /\ t * Q <= t * a
          BY <4>1
        <4> HIDE DEF a
        <4>3. t * (a + 1) <= t * Q
          BY <4>2
        <4>4. t * (a + 1) = t * a + t
          BY <4>2
        <4>5. t * a \in Int /\ t * Q \in Int
          BY <4>2
        <4> QED
          BY <4>2, <4>3, <4>4, <4>5
      <3> DEFINE a == m * r
      <3>5. m * k = t * a - m /\ a \in Int /\ t * a \in Int
        <4>1. k = r * t - 1
          BY <1>8
        <4> HIDE DEF k
        <4>2. m * (r * t - 1) = t * (m * r) - m
          OBVIOUS
        <4> QED
          BY <4>1, <4>2
      <3>6. y = t * Q - t * a + m
        BY <1>1, <2>2, <3>5 DEF x
      <3>7. (t - 1) * Q <= (t - 1) * a
        <4>1. t - 1 \in Nat /\ Q <= a /\ a \in Int
          BY <3>4, <3>5
        <4> HIDE DEF a
        <4> DEFINE n == t - 1
        <4>2. n \in Nat
          BY <4>1
        <4> HIDE DEF n
        <4>3. n * Q <= n * a
          BY <4>1, <4>2
        <4> QED
          BY <4>3 DEF n
      <3>8. m * (r - 1) = a - m
        OBVIOUS
      <3> HIDE DEF a, k
      <3>9. (t - 1) * Q = t * Q - Q /\ (t - 1) * a = t * a - a /\ t * Q \in Int
        BY <3>5
      <3>10. m * (r - 1) + y <= Q
        BY <3>5, <3>6, <3>7, <3>8, <3>9
      <3> QED
        BY <3>1, <3>3, <3>10
    <2> QED
      BY <2>6, <2>7
  <1> QED
    BY <1>4, <1>1, <1>2, <1>7, <1>8

\* Ranks count from 1, and no two documents of a type have the same.
LEMMA RankFits ==
  ASSUME NEW s \in Collections, NEW kind \in Kinds, NEW order \in Orders(s, kind), NEW type
  PROVE  LET P == OfType(s, kind, type)
         IN  \A i \in P : /\ Rank(s, kind, order, i) \in Nat \ {0}
                          /\ \A j \in P : Rank(s, kind, order, i) = Rank(s, kind, order, j) => i = j
  <1> DEFINE P == OfType(s, kind, type)
             Lower(i) == {j \in P : order[j] <= order[i]}
  <1>1. IsFiniteSet(P)
    BY IdsFinite DEF OfType, InKind, Held
  <1>2. \A i \in P : order[i] \in Nat /\ \A j \in P : order[i] = order[j] => i = j
    BY OrderFits DEF OfType
  <1>3. \A i \in P : Rank(s, kind, order, i) = Cardinality(Lower(i))
    BY DEF Rank, OfType
  <1> HIDE DEF P
  <1>4. \A i \in P : Lower(i) \in SUBSET P /\ IsFiniteSet(Lower(i)) /\ i \in Lower(i)
    BY <1>1, <1>2, FS_Subset
  <1>5. ASSUME NEW i \in P
        PROVE  Cardinality(Lower(i)) \in Nat \ {0}
    <2> DEFINE L == Lower(i)
    <2>1. IsFiniteSet(L) /\ L # {}
      BY <1>4
    <2> HIDE DEF L
    <2>2. Cardinality(L) \in Nat /\ Cardinality(L) # 0
      BY <2>1, FS_CardinalityType, FS_EmptySet
    <2> QED
      BY <2>2 DEF L
  <1>6. ASSUME NEW i \in P, NEW j \in P, order[i] < order[j]
        PROVE  Cardinality(Lower(i)) # Cardinality(Lower(j))
    <2>1. Lower(i) \in SUBSET Lower(j)
      BY <1>2, <1>6
    <2>2. j \in Lower(j) /\ j \notin Lower(i)
      BY <1>2, <1>6
    <2>3. IsFiniteSet(Lower(j))
      BY <1>4
    <2> HIDE DEF Lower
    <2> QED
      BY <2>1, <2>2, <2>3, FS_Subset
  <1>7. ASSUME NEW i \in P, NEW j \in P, i # j
        PROVE  Cardinality(Lower(i)) # Cardinality(Lower(j))
    <2>1. order[i] < order[j] \/ order[j] < order[i]
      BY <1>2, <1>7
    <2> QED
      BY <1>6, <2>1
  <1> QED
    BY <1>3, <1>5, <1>7 DEF P

\* Documents of full stacks up to some rank, none counted twice, are no more than Q.
LEMMA StackedUp ==
  ASSUME NEW P, IsFiniteSet(P), NEW f \in [P -> 0 .. MaxStack], NEW rank \in [P -> Nat \ {0}],
         \A i, j \in P : rank[i] = rank[j] => i = j,
         NEW Q \in Nat, \A i \in P : f[i] # 0 => MaxStack * (rank[i] - 1) + f[i] <= Q
  PROVE  Total(f) <= Q
  <1> DEFINE U == UnitsOf(f)
             place == [u \in U |-> MaxStack * (rank[u[1]] - 1) + u[2]]
  <1>0. MaxStack \in Nat \ {0}
    BY StacksAssumption
  <1>1. ASSUME NEW u \in U
        PROVE  /\ u[1] \in P /\ u[2] \in 1 .. MaxStack /\ u[2] <= f[u[1]] /\ f[u[1]] # 0
               /\ rank[u[1]] - 1 \in Nat /\ u = <<u[1], u[2]>>
               /\ f[u[1]] \in Nat
    <2>1. u[1] \in P /\ u[2] \in 1 .. MaxStack /\ u[2] <= f[u[1]] /\ u = <<u[1], u[2]>>
      BY DEF UnitsOf
    <2>2. f[u[1]] \in 0 .. MaxStack /\ rank[u[1]] \in Nat \ {0}
      BY <2>1
    <2> QED
      BY <1>0, <2>1, <2>2
  <1>2. ASSUME NEW u \in U
        PROVE  place[u] \in 1 .. Q
    <2> DEFINE p == MaxStack * (rank[u[1]] - 1)
               n == u[2]
               q == f[u[1]]
    <2>1. p \in Nat
      <3> DEFINE a == rank[u[1]] - 1
      <3>1. a \in Nat
        BY <1>1
      <3> HIDE DEF a
      <3>2. MaxStack * a \in Nat
        BY <1>0, <3>1
      <3> QED
        BY <3>2 DEF a
    <2>2. p + q <= Q
      BY <1>1
    <2>3. n \in Nat /\ n >= 1 /\ n <= q /\ q \in Nat
      BY <1>0, <1>1
    <2>4. place[u] = p + n
      OBVIOUS
    <2> HIDE DEF p, n, q, place
    <2> QED
      BY <2>1, <2>2, <2>3, <2>4
  <1>3. ASSUME NEW u \in U, NEW v \in U, rank[u[1]] < rank[v[1]]
        PROVE  place[u] < place[v]
    <2> DEFINE a == rank[u[1]] - 1
               b == rank[v[1]] - 1
               n == u[2]
               k == v[2]
    <2>1. a \in Nat /\ b \in Nat /\ a + 1 <= b /\ n \in 1 .. MaxStack /\ k \in 1 .. MaxStack
      BY <1>1, <1>3
    <2>2. place[u] = MaxStack * a + n /\ place[v] = MaxStack * b + k
      OBVIOUS
    <2> HIDE DEF a, b, n, k, place
    <2>3. MaxStack * (a + 1) <= MaxStack * b
      BY <1>0, <2>1
    <2>4. /\ MaxStack * (a + 1) = MaxStack * a + MaxStack
          /\ MaxStack * a \in Int
          /\ MaxStack * b \in Int
      BY <1>0, <2>1
    <2> QED
      BY <1>0, <2>1, <2>2, <2>3, <2>4
  <1>4. ASSUME NEW u \in U, NEW v \in U, place[u] = place[v]
        PROVE  u = v
    <2>1. rank[u[1]] \in Nat /\ rank[v[1]] \in Nat /\ place[u] \in Int /\ place[v] \in Int
      BY <1>1, <1>2
    <2>2. rank[u[1]] = rank[v[1]]
      <3> HIDE DEF place
      <3> QED
        BY <1>3, <1>4, <2>1
    <2>3. u[1] = v[1]
      BY <1>1, <2>2
    <2>4. u[2] = v[2]
      <3> DEFINE p == MaxStack * (rank[u[1]] - 1)
                 n == u[2]
                 k == v[2]
      <3>1. p + n = p + k
        BY <1>4, <2>3
      <3>2. p \in Int
        <4> DEFINE a == rank[u[1]] - 1
        <4>1. a \in Int
          BY <2>1
        <4> HIDE DEF a
        <4>2. MaxStack * a \in Int
          BY <1>0, <4>1
        <4> QED
          BY <4>2 DEF a
      <3>3. n \in Int /\ k \in Int
        BY <1>1
      <3> HIDE DEF p, n, k
      <3>4. n = k
        BY <3>1, <3>2, <3>3
      <3> QED
        BY <3>4 DEF n, k
    <2> QED
      BY <1>1, <2>3, <2>4
  <1>5. place \in Injection(U, 1 .. Q)
    <2>1. place \in [U -> 1 .. Q]
      BY <1>2
    <2> HIDE DEF place
    <2> QED
      BY <1>4, <2>1 DEF Injection, IsInjective
  <1>6. IsFiniteSet(1 .. Q) /\ Cardinality(1 .. Q) = Q
    <2>1. 1 \in Int /\ Q \in Int /\ (1 > Q => Q = 0) /\ Q - 1 + 1 = Q
      OBVIOUS
    <2> QED
      BY <2>1, FS_Interval
  <1>7. Total(f) = Cardinality(U)
    BY DEF Total, UnitsOf
  <1> HIDE DEF U, place
  <1> QED
    BY <1>5, <1>6, <1>7, FS_Injection

\* The number of times a type is in the list of priorities.
LEMMA TimesType ==
  ASSUME NEW type
  PROVE  Times(type) \in Nat
  <1>1. IsFiniteSet(DOMAIN Priorities)
    BY StacksAssumption, FS_Interval
  <1>2. {p \in DOMAIN Priorities : Priorities[p] = type} \in SUBSET DOMAIN Priorities
    OBVIOUS
  <1> QED
    BY <1>1, <1>2, FS_Subset, FS_CardinalityType DEF Times

\* What a sort leaves of a document.
LEMMA SortedWeight ==
  ASSUME NEW s \in Collections, NEW kind \in Kinds, NEW order \in Orders(s, kind),
         NEW i \in InKind(s, kind), NEW type
  PROVE  LET new == SortedDoc(s, kind, order, i)
             last == <<i, Times(s[i].type)>>
         IN  /\ new # NoDoc =>
                  /\ last \in Kept(s, kind, order)
                  /\ new.type = s[i].type
                  /\ new.quantity = IF s[i].type \in Tools THEN s[i].quantity
                                    ELSE SortedQuantity(s, kind, s[i].type, Rank(s, kind, order, i))
  <1> DEFINE last == <<i, Times(s[i].type)>>
             x == Cardinality({e \in Kept(s, kind, order) : Before(s, kind, order, e, last)})
             q == IF s[i].type \in Tools THEN s[i].quantity
                  ELSE SortedQuantity(s, kind, s[i].type, Rank(s, kind, order, i))
  <1>1. SortedDoc(s, kind, order, i)
          = IF last \notin Kept(s, kind, order) THEN NoDoc
            ELSE [s[i] EXCEPT !.index = x, !.quantity = q]
    BY DEF SortedDoc
  <1>2. s[i] \in Docs
    BY HeldDoc DEF InKind
  <1> HIDE DEF x, q
  <1>3. [s[i] EXCEPT !.index = x, !.quantity = q].type = s[i].type
        /\ [s[i] EXCEPT !.index = x, !.quantity = q].quantity = q
    BY <1>2 DEF Docs
  <1> QED
    BY <1>1, <1>3 DEF q

\* A sort of one kind keeps no more of a type than there was.
LEMMA SortKindStock ==
  ASSUME NEW s \in Collections, NEW kind \in Kinds, NEW new \in SortKindResults(s, kind),
         NEW type
  PROVE  Stock(new, type, 1) <= Stock(s, type, 1)
  <1> DEFINE T == InKind(s, kind)
             P == OfType(s, kind, type)
             t == Times(type)
             Q == Quantity(s, P)
  <1>1. PICK order \in Orders(s, kind) : new = Sorted(s, kind, order)
    BY DEF SortKindResults, Orders
  <1>2. new \in Collections /\ 1 \in Floors /\ IsFiniteSet(Ids)
    BY SortKindSound, StacksAssumption DEF Sound, Floors
  <1>3. \A i \in Ids : new[i] = IF i \in T THEN SortedDoc(s, kind, order, i) ELSE s[i]
    BY <1>1 DEF Sorted
  <1>4. P \subseteq T /\ T \subseteq Ids /\ \A i \in T : s[i] # NoDoc /\ s[i] \in Docs
    BY HeldDoc DEF OfType, InKind, Held
  <1>5. \A i \in T : i \in P <=> s[i].type = type
    BY DEF OfType
  <1>6. ASSUME NEW i \in Ids, i \notin P
        PROVE  Weight(new[i], type, 1) = Weight(s[i], type, 1)
    <2>1. CASE i \notin T
      BY <1>3, <2>1
    <2>2. CASE i \in T
      <3>1. s[i].type # type
        BY <1>5, <1>6, <2>2
      <3>2. new[i] # NoDoc => new[i].type = s[i].type
        BY <1>3, <2>2, SortedWeight
      <3> QED
        BY <3>1, <3>2 DEF Weight
    <2> QED
      BY <2>1, <2>2
  <1> HIDE DEF T
  <1>7. CASE type \in Tools
    <2>1. ASSUME NEW i \in P
          PROVE  Weight(new[i], type, 1) <= Weight(s[i], type, 1)
      <3>1. i \in T /\ i \in Ids /\ s[i].type = type /\ s[i] \in Docs /\ s[i] # NoDoc
        BY <1>4, <1>5
      <3>2. new[i] # NoDoc => new[i].type = type /\ new[i].quantity = s[i].quantity
        <4> DEFINE doc == SortedDoc(s, kind, order, i)
        <4>1. i \in InKind(s, kind)
          BY <3>1 DEF T
        <4>2. doc # NoDoc => /\ doc.type = s[i].type
                             /\ s[i].type \in Tools => doc.quantity = s[i].quantity
          BY <4>1, SortedWeight
        <4>3. new[i] = doc
          BY <1>3, <3>1
        <4> HIDE DEF doc
        <4> QED
          BY <1>7, <3>1, <4>2, <4>3
      <3>3. Weight(s[i], type, 1) \in Nat
        <4>1. Weight(s[i], type, 1) \in 0 .. MaxStack
          BY <1>2, <3>1, WeightType
        <4> QED
          BY <4>1, StacksAssumption
      <3>4. Weight(new[i], type, 1) = Weight(s[i], type, 1) \/ Weight(new[i], type, 1) = 0
        BY <3>1, <3>2 DEF Weight
      <3> QED
        BY <3>3, <3>4
    <2>2. ASSUME NEW i \in Ids
          PROVE  Weight(new[i], type, 1) <= Weight(s[i], type, 1)
      <3>1. CASE i \in P
        BY <2>1, <3>1
      <3>2. CASE i \notin P
        <4>1. Weight(s[i], type, 1) \in Nat
          <5>1. Weight(s[i], type, 1) \in 0 .. MaxStack
            BY <1>2, WeightType DEF Collections
          <5> QED
            BY <5>1, StacksAssumption
        <4> QED
          BY <1>6, <3>2, <4>1
      <3> QED
        BY <3>1, <3>2
    <2> QED
      BY <1>2, <2>2, StockShrinks
  <1>8. CASE type \notin Tools /\ P = {}
    <2>1. Stock(new, type, 1) = Stock(s, type, 1)
      BY <1>6, <1>8, StockSame
    <2>2. Stock(s, type, 1) \in Nat
      BY <1>2, StockType
    <2> QED
      BY <2>1, <2>2
  <1>9. CASE type \notin Tools /\ P # {}
    <2>1. t \in Nat \ {0} /\ Q \in Nat
      <3>1. \A i \in InKind(s, kind) : Times(s[i].type) # 0
        BY DEF SortKindResults
      <3>2. t # 0
        BY <1>4, <1>5, <1>9, <3>1 DEF T
      <3>3. Q \in Nat
        <4> DEFINE f == [i \in P |-> s[i].quantity]
        <4>1. IsFiniteSet(DOMAIN f)
          BY <1>4, IdsFinite
        <4>2. Q = Total(f)
          BY DEF Quantity
        <4> HIDE DEF f, Q
        <4> QED
          BY <4>1, <4>2, TotalType
      <3> QED
        BY <3>2, <3>3, TimesType
    <2> DEFINE rank == [i \in P |-> Rank(s, kind, order, i)]
               f == [i \in P |-> Weight(new[i], type, 1)]
               kept == [i \in Ids |-> IF i \in P THEN Weight(new[i], type, 1) ELSE 0]
               had  == [i \in Ids |-> IF i \in P THEN Weight(s[i], type, 1) ELSE 0]
               held == [i \in Ids |-> IF i \in P THEN s[i].quantity ELSE 0]
               a == Weights(new, type, 1)
               b == Weights(s, type, 1)
    <2>2. /\ \A i \in Ids : Weight(new[i], type, 1) \in 0 .. MaxStack
          /\ \A i \in Ids : Weight(s[i], type, 1) \in 0 .. MaxStack
      BY <1>2, WeightType DEF Collections
    <2>3. rank \in [P -> Nat \ {0}] /\ \A i, j \in P : rank[i] = rank[j] => i = j
      BY RankFits
    <2>4. ASSUME NEW i \in P, f[i] # 0
          PROVE  MaxStack * (rank[i] - 1) + f[i] <= Q
      <3> DEFINE r == rank[i]
                 q == SortedQuantity(s, kind, type, r)
                 w == Weight(new[i], type, 1)
      <3>1. i \in T /\ i \in Ids /\ s[i].type = type
        BY <1>4, <1>5
      <3>2. new[i] # NoDoc
        BY <2>4 DEF Weight
      <3>3. <<i, t>> \in Kept(s, kind, order) /\ new[i].type = type /\ new[i].quantity = q
        BY <1>3, <1>9, <3>1, <3>2, SortedWeight DEF T
      <3>4. r \in Nat \ {0}
        BY <2>3
      <3>5. (r - 1) * t + t <= Survivors(s, kind, type)
        BY <1>9, <3>1, <3>3 DEF Kept
      <3>6. r * t <= CeilDiv(t * Q, MaxStack)
        <4>1. Survivors(s, kind, type) = CeilDiv(t * Q, MaxStack)
          BY DEF Survivors, Merge
        <4> HIDE DEF r, t, Q
        <4>2. (r - 1) * t + t = r * t
          BY <2>1, <3>4
        <4> QED
          BY <3>5, <4>1, <4>2
      <3>7. q = IF r * t = CeilDiv(t * Q, MaxStack) THEN (t * Q) % MaxStack ELSE MaxStack
        BY DEF SortedQuantity, Survivors, Merge
      <3>8. w = IF q = 0 THEN 1 ELSE q
        BY <3>2, <3>3 DEF Weight
      <3>9. f[i] = w
        OBVIOUS
      <3>10. MaxStack \in Nat \ {0}
        BY StacksAssumption
      <3> HIDE DEF r, q, w, t, Q, f
      <3>11. w \in 1 .. MaxStack /\ MaxStack * (r - 1) + w <= Q
        BY <2>1, <3>4, <3>6, <3>7, <3>8, <3>10, SortedFits
      <3> QED
        BY <3>9, <3>11 DEF r
    <2>5. Total(f) <= Q
      <3>1. f \in [P -> 0 .. MaxStack] /\ IsFiniteSet(P)
        BY <1>4, <2>2, IdsFinite
      <3> HIDE DEF f, rank, P, Q
      <3> QED
        BY <2>1, <2>3, <2>4, <3>1, StackedUp
    <2>6. Total(kept) = Total(f)
      <3>1. /\ DOMAIN kept = Ids /\ DOMAIN f = P /\ P \subseteq Ids
            /\ \A i \in P : kept[i] = f[i]
            /\ \A i \in Ids \ P : kept[i] = 0
        BY <1>4
      <3> HIDE DEF kept, f, P
      <3> QED
        BY <3>1, TotalExtended
    <2>7. Q = Total(held)
      BY <1>4, QuantityIs
    <2>8. \A i \in P : s[i].quantity \in 0 .. MaxStack /\ s[i].quantity <= Weight(s[i], type, 1)
      <3>1. \A i \in P : s[i] \in Docs /\ s[i] # NoDoc /\ s[i].type = type
        BY <1>4, <1>5
      <3> QED
        BY <1>2, <3>1, WeightType
    <2>9. /\ kept \in [Ids -> 0 .. MaxStack] /\ had \in [Ids -> 0 .. MaxStack]
          /\ held \in [Ids -> 0 .. MaxStack] /\ \A i \in Ids : held[i] <= had[i]
      <3>1. \A i \in Ids : i \in P =>
              s[i].quantity \in 0 .. MaxStack /\ s[i].quantity <= Weight(s[i], type, 1)
        BY <2>8
      <3>2. 0 \in 0 .. MaxStack /\ 0 <= 0
        BY StacksAssumption
      <3> HIDE DEF P
      <3> QED
        BY <2>2, <3>1, <3>2
    <2>10. /\ a \in [Ids -> 0 .. MaxStack] /\ b \in [Ids -> 0 .. MaxStack]
           /\ Stock(new, type, 1) = Total(a) /\ Stock(s, type, 1) = Total(b)
      BY <1>2, StockType DEF Stock
    <2>11. \A i \in Ids : a[i] + had[i] = b[i] + kept[i]
      <3>1. \A i \in Ids : /\ i \in P => a[i] = kept[i] /\ b[i] = had[i]
                           /\ i \notin P => a[i] = b[i] /\ had[i] = 0 /\ kept[i] = 0
        BY <1>6 DEF Weights
      <3>2. \A i \in Ids : a[i] \in Int /\ b[i] \in Int /\ had[i] \in Int /\ kept[i] \in Int
        BY <2>9, <2>10
      <3> HIDE DEF a, b, kept, had, P
      <3> QED
        BY <3>1, <3>2
    <2> HIDE DEF a, b, kept, had, held, f, Q
    <2>12. \A i \in Ids : a[i] + had[i] <= b[i] + kept[i]
      <3>1. \A i \in Ids : b[i] + kept[i] \in Int
        BY <2>9, <2>10
      <3> QED
        BY <2>11, <3>1
    <2>13. Total(a) + Total(had) <= Total(b) + Total(kept)
      BY <1>2, <2>9, <2>10, <2>12, TotalBalance
    <2>14. Total(held) <= Total(had)
      BY <1>2, <2>9, TotalGrows
    <2>15. /\ Total(a) \in Nat /\ Total(b) \in Nat /\ Total(kept) \in Nat /\ Total(had) \in Nat
           /\ Total(held) \in Nat
      BY <1>2, <2>9, <2>10, TotalType
    <2> QED
      BY <2>5, <2>6, <2>7, <2>10, <2>13, <2>14, <2>15
  <1> QED
    BY <1>7, <1>8, <1>9

\* So does a sort of the storage and then of the tools.
LEMMA SortStock ==
  ASSUME NEW s \in Collections, NEW new \in SortResults(s), NEW type
  PROVE  Stock(new, type, 1) <= Stock(s, type, 1)
  <1>1. PICK sorted \in SortKindResults(s, "storage") : new \in SortKindResults(sorted, "tool")
    BY DEF SortResults
  <1>2. sorted \in Collections /\ "storage" \in Kinds /\ "tool" \in Kinds /\ 1 \in Floors
    BY SortKindSound DEF Sound, Kinds, Floors
  <1>3. new \in Collections
    BY <1>1, <1>2, SortKindSound DEF Sound
  <1>4. Stock(sorted, type, 1) <= Stock(s, type, 1) /\ Stock(new, type, 1) <= Stock(sorted, type, 1)
    BY <1>1, <1>2, SortKindStock
  <1> QED
    BY <1>2, <1>3, <1>4, StockType

-----------------------------------------------------------------------------
(* Nothing comes from nothing.  A snapshot may be old; a commit still      *)
(* changes the stock by what the handler changed in its snapshot, because  *)
(* what it writes was not written since.                                   *)

StockAccounted ==
  \A type \in Types : Stock(docs, type, 1) + spent[type] <= gained[type]

\* What a handler leaves in its snapshot, of each type, with what it used, is no more
\* than what it found, with what it obtained.
Balanced(d, new) ==
  /\ new \in Collections /\ Commit(d, new)
  /\ \A type \in Types :
       Stock(new, type, 1) + spent'[type] + gained[type]
         <= Stock(txn[d].docs, type, 1) + spent[type] + gained'[type]

LEMMA HandleBalanced ==
  ASSUME TypeOK, NEW d \in Devices, Handle(d)
  PROVE  \E new : Balanced(d, new)
  <1> DEFINE s == txn[d].docs
  <1>0. txn[d] # NoTxn /\ s \in Collections
    BY SnapshotType DEF Handle, Gain, Buy, BuyTool, EarnGold, Use, Delete, Move, Sort,
                        Deliver, Retrieve, CommitWithUser, Commit
  <1>k. /\ "storage" \in Kinds /\ "delivery" \in Kinds /\ Capacity \in Nat /\ 1 \in Floors
        /\ MaxGained \in Nat
    BY StacksAssumption, StorehouseAssumption DEF Kinds, Floors
  <1>u. gained \in [Types -> Nat] /\ spent \in [Types -> Nat]
    BY DEF TypeOK
  <1> HIDE DEF s
  <1>1. ASSUME NEW new \in Collections, Commit(d, new), UNCHANGED <<gained, spent>>,
               \A type \in Types : Stock(new, type, 1) <= Stock(s, type, 1)
        PROVE  \E result : Balanced(d, result)
    <2>1. ASSUME NEW type \in Types
          PROVE  Stock(new, type, 1) + spent'[type] + gained[type]
                   <= Stock(s, type, 1) + spent[type] + gained'[type]
      <3>1. /\ Stock(new, type, 1) \in Nat /\ Stock(s, type, 1) \in Nat
            /\ spent[type] \in Nat /\ gained[type] \in Nat
        BY <1>0, <1>k, <1>u, StockType
      <3> QED
        BY <1>1, <3>1
    <2> QED
      BY <1>1, <2>1 DEF Balanced, s
  <1>2. ASSUME NEW type \in Types \ Tools, NEW n \in 1 .. MaxGained,
               NEW new \in AddResults(s, type, n, "storage", Capacity),
               Commit(d, new), gained' = [gained EXCEPT ![type] = @ + n], spent' = spent
        PROVE  Balanced(d, new)
    <2>1. new \in Collections /\ n \in Nat
      BY <1>0, <1>k, AddSound DEF Sound
    <2>2. /\ Stock(new, type, 1) <= Stock(s, type, 1) + n
          /\ \A other : other # type => \A floor \in Floors :
               Stock(new, other, floor) = Stock(s, other, floor)
      BY <1>0, <1>k, <2>1, AddStock
    <2>3. ASSUME NEW other \in Types
          PROVE  Stock(new, other, 1) + spent'[other] + gained[other]
                   <= Stock(s, other, 1) + spent[other] + gained'[other]
      <3>1. /\ Stock(new, other, 1) \in Nat /\ Stock(s, other, 1) \in Nat
            /\ spent[other] \in Nat /\ gained[other] \in Nat /\ spent'[other] = spent[other]
        BY <1>0, <1>2, <1>k, <1>u, <2>1, StockType
      <3>2. gained'[other] = IF other = type THEN gained[other] + n ELSE gained[other]
        BY <1>2, <1>u
      <3>3. CASE other = type
        BY <2>1, <2>2, <3>1, <3>2, <3>3
      <3>4. CASE other # type
        <4>1. Stock(new, other, 1) = Stock(s, other, 1)
          BY <1>k, <2>2, <3>4
        <4> QED
          BY <3>1, <3>2, <3>4, <4>1
      <3> QED
        BY <3>3, <3>4
    <2> QED
      BY <1>2, <2>1, <2>3 DEF Balanced, s
  <1>3. ASSUME NEW type \in Products, NEW n \in 1 .. MaxGained, Gain(d, type, n)
        PROVE  \E new : Balanced(d, new)
    <2>1. type \in Types \ Tools
      BY StacksAssumption DEF Types
    <2>2. PICK new \in AddResults(s, type, n, "storage", Capacity) : CommitWithUser(d, new)
      BY <1>3 DEF Gain, s
    <2>3. Commit(d, new) /\ gained' = [gained EXCEPT ![type] = @ + n] /\ spent' = spent
      BY <1>3, <2>2 DEF Gain, CommitWithUser
    <2> QED
      BY <1>2, <2>1, <2>3
  <1>4. ASSUME NEW type \in Buyable, NEW n \in 1 .. MaxGained, Buy(d, type, n)
        PROVE  \E new : Balanced(d, new)
    <2>1. type \in Types \ Tools
      BY StacksAssumption DEF Types, Buyable
    <2>2. PICK new \in AddResults(s, type, n, "storage", Capacity) : CommitWithUser(d, new)
      BY <1>4 DEF Buy, s
    <2>3. Commit(d, new) /\ gained' = [gained EXCEPT ![type] = @ + n] /\ spent' = spent
      BY <1>4, <2>2 DEF Buy, CommitWithUser
    <2> QED
      BY <1>2, <2>1, <2>3
  <1>5. ASSUME NEW tool \in Tools, BuyTool(d, tool)
        PROVE  \E new : Balanced(d, new)
    <2>1. PICK new \in AddToolResults(s, tool, Capacity) : CommitWithUser(d, new)
      BY <1>5 DEF BuyTool, s
    <2>2. new \in Collections
      BY <1>0, <1>k, AddToolFits
    <2>3. Commit(d, new) /\ gained' = [gained EXCEPT ![tool] = @ + 1] /\ spent' = spent
      BY <1>5, <2>1 DEF BuyTool, CommitWithUser
    <2>4. ASSUME NEW type \in Types
          PROVE  Stock(new, type, 1) + spent'[type] + gained[type]
                   <= Stock(s, type, 1) + spent[type] + gained'[type]
      <3>1. Stock(new, type, 1) = Stock(s, type, 1) + (IF type = tool THEN 1 ELSE 0)
        BY <1>0, <1>k, AddToolStock
      <3>2. /\ Stock(s, type, 1) \in Nat
            /\ spent[type] \in Nat /\ gained[type] \in Nat /\ spent'[type] = spent[type]
        BY <1>0, <1>k, <1>u, <2>3, StockType
      <3>3. gained'[type] = IF type = tool THEN gained[type] + 1 ELSE gained[type]
        BY <1>u, <2>3
      <3> QED
        BY <3>1, <3>2, <3>3
    <2> QED
      BY <2>2, <2>3, <2>4 DEF Balanced, s
  <1>6. ASSUME NEW amount \in Earnings, EarnGold(d, amount)
        PROVE  \E new : Balanced(d, new)
    <2>1. Commit(d, s) /\ UNCHANGED <<gained, spent>>
      BY <1>6 DEF EarnGold, CommitWithUser, s
    <2>2. \A type \in Types : Stock(s, type, 1) <= Stock(s, type, 1)
      BY <1>0, <1>k, StockType
    <2> QED
      BY <1>0, <1>1, <2>1, <2>2
  <1>7. ASSUME NEW i \in Ids, Use(d, i)
        PROVE  \E new : Balanced(d, new)
    <2> DEFINE new == Taken(s, i, 1)
               used == s[i].type
    <2>1. i \in Held(s) /\ Commit(d, new)
      BY <1>7 DEF Use, CommitWithUser, s
    <2>2. new \in Collections
      BY <1>0, <2>1, TakenSound DEF Sound
    <2>3. spent' = [spent EXCEPT ![used] = @ + 1] /\ gained' = gained
      BY <1>7 DEF Use, s
    <2>4. ASSUME NEW type \in Types
          PROVE  Stock(new, type, 1) + spent'[type] + gained[type]
                   <= Stock(s, type, 1) + spent[type] + gained'[type]
      <3>1. Stock(new, type, 1) + (IF used = type THEN 1 ELSE 0) <= Stock(s, type, 1)
        BY <1>0, <2>1, TakenStock
      <3>2. /\ Stock(s, type, 1) \in Nat /\ Stock(new, type, 1) \in Nat
            /\ spent[type] \in Nat /\ gained[type] \in Nat /\ gained'[type] = gained[type]
        BY <1>0, <1>k, <1>u, <2>2, <2>3, StockType
      <3> HIDE DEF used, new
      <3>3. spent'[type] = IF used = type THEN spent[type] + 1 ELSE spent[type]
        BY <1>u, <2>3
      <3> QED
        BY <3>1, <3>2, <3>3
    <2> QED
      BY <2>1, <2>2, <2>4 DEF Balanced, s
  <1>8. ASSUME NEW i \in Ids, Delete(d, i)
        PROVE  \E new : Balanced(d, new)
    <2> DEFINE new == [s EXCEPT ![i] = NoDoc]
    <2>1. new \in Collections /\ Commit(d, new) /\ UNCHANGED <<gained, spent>>
      BY <1>0, <1>8, RemovedSound DEF Delete, CommitInventories, s, Sound
    <2>2. ASSUME NEW type \in Types
          PROVE  Stock(new, type, 1) <= Stock(s, type, 1)
      <3>1. \A j \in Ids : Weight(new[j], type, 1) <= Weight(s[j], type, 1)
        <4>1. \A j \in Ids : Weight(s[j], type, 1) \in 0 .. MaxStack
          BY <1>0, <1>k, WeightType DEF Collections
        <4>2. \A j \in Ids : new[j] = s[j] \/ new[j] = NoDoc
          BY <1>0 DEF Collections
        <4>3. Weight(NoDoc, type, 1) = 0
          BY DEF Weight
        <4>4. \A j \in Ids : Weight(s[j], type, 1) \in Nat
          BY <4>1, StacksAssumption
        <4> HIDE DEF new
        <4>5. \A j \in Ids : \/ Weight(new[j], type, 1) = Weight(s[j], type, 1)
                            \/ Weight(new[j], type, 1) = 0
          BY <4>2, <4>3
        <4> QED
          BY <4>4, <4>5
      <3> HIDE DEF new
      <3> QED
        BY <1>0, <1>k, <2>1, <3>1, StockShrinks
    <2> HIDE DEF new
    <2> QED
      BY <1>1, <2>1, <2>2
  <1>9. ASSUME NEW i \in Ids, NEW index \in Targets, NEW isTool \in BOOLEAN,
               Move(d, i, index, isTool)
        PROVE  \E new : Balanced(d, new)
    <2>1. PICK new \in MoveResults(s, i, index, isTool) : CommitInventories(d, new)
      BY <1>9 DEF Move, s
    <2>0. index \in Int
      BY <1>9, StorehouseAssumption
    <2>2. new \in Collections /\ Commit(d, new) /\ UNCHANGED <<gained, spent>>
      BY <1>0, <1>k, <2>0, <2>1, MoveSound DEF CommitInventories, Sound
    <2>3. \A type \in Types : Stock(new, type, 1) <= Stock(s, type, 1)
      BY <1>0, <1>k, <2>0, MoveStock
    <2> QED
      BY <1>1, <2>2, <2>3
  <1>10. ASSUME Sort(d)
         PROVE  \E new : Balanced(d, new)
    <2>1. PICK new \in SortResults(s) : CommitInventories(d, new)
      BY <1>10 DEF Sort, s
    <2>2. new \in Collections /\ Commit(d, new) /\ UNCHANGED <<gained, spent>>
      BY <1>0, <2>1, SortSound DEF CommitInventories, Sound
    <2>3. \A type \in Types : Stock(new, type, 1) <= Stock(s, type, 1)
      BY <1>0, SortStock
    <2> QED
      BY <1>1, <2>2, <2>3
  <1>11. ASSUME NEW i \in Ids, NEW from \in Kinds, NEW to \in Kinds,
                NEW new \in ShiftResults(s, i, from, to), CommitInventories(d, new)
         PROVE  \E result : Balanced(d, result)
    <2>1. new \in Collections /\ Commit(d, new) /\ UNCHANGED <<gained, spent>>
      BY <1>0, <1>11, ShiftSound DEF CommitInventories, Sound
    <2>2. \A type \in Types : Stock(new, type, 1) <= Stock(s, type, 1)
      BY <1>0, ShiftStock
    <2> QED
      BY <1>1, <2>1, <2>2
  <1>12. ASSUME NEW i \in Ids, Deliver(d, i) \/ Retrieve(d, i)
         PROVE  \E new : Balanced(d, new)
    BY <1>11, <1>12, <1>k DEF Deliver, Retrieve, s
  <1> QED
    BY <1>3, <1>4, <1>5, <1>6, <1>7, <1>8, <1>9, <1>10, <1>12 DEF Handle

\* A commit of such a collection keeps the account.
LEMMA BalancedKeeps ==
  ASSUME TypeOK, TypeOK', StockAccounted, NEW d \in Devices, NEW new, Balanced(d, new)
  PROVE  StockAccounted'
  <1> SUFFICES ASSUME NEW type \in Types
               PROVE  Stock(docs', type, 1) + spent'[type] <= gained'[type]
    BY DEF StockAccounted, Stock, Weights
  <1> DEFINE a == Stock(docs, type, 1)
             b == Stock(docs', type, 1)
             n == Stock(new, type, 1)
             m == Stock(txn[d].docs, type, 1)
  <1>0. 1 \in Floors
    BY DEF Floors
  <1>1. /\ docs \in Collections /\ docs' \in Collections /\ new \in Collections
        /\ txn[d].docs \in Collections /\ Commit(d, new)
    BY SnapshotType DEF TypeOK, Balanced, Commit
  <1>2. b + m = n + a
    BY <1>0, <1>1, CommitStock
  <1>3. a \in Nat /\ b \in Nat /\ n \in Nat /\ m \in Nat
    BY <1>0, <1>1, StockType
  <1>4. /\ spent[type] \in Nat /\ spent'[type] \in Nat
        /\ gained[type] \in Nat /\ gained'[type] \in Nat
    BY DEF TypeOK
  <1>5. n + spent'[type] + gained[type] <= m + spent[type] + gained'[type]
    BY DEF Balanced
  <1>6. a + spent[type] <= gained[type]
    BY DEF StockAccounted
  <1> HIDE DEF a, b, n, m
  <1>7. b + spent'[type] <= gained'[type]
    BY <1>2, <1>3, <1>4, <1>5, <1>6
  <1> QED
    BY <1>7 DEF b

\* A sale takes from the box what it counts as sold.
LEMMA SaleKeepsAccount ==
  ASSUME TypeOK, TypeOK', StockAccounted, NEW w \in Workers, SellsBox(w)
  PROVE  StockAccounted'
  <1> SUFFICES ASSUME NEW type \in Types
               PROVE  Stock(docs', type, 1) + spent'[type] <= gained'[type]
    BY DEF StockAccounted, Stock, Weights
  <1> DEFINE S == {i \in Box : docs[i].type = type}
             sold == [i \in Ids |-> IF i \in S THEN docs[i].quantity ELSE 0]
             none == [i \in Ids |-> 0]
             a == Weights(docs, type, 1)
             b == Weights(docs', type, 1)
  <1>0. 1 \in Floors /\ IsFiniteSet(Ids) /\ MaxStack \in Nat /\ 0 \in 0 .. MaxStack
    BY StacksAssumption DEF Floors
  <1>1. docs \in Collections /\ docs' \in Collections /\ S \subseteq Held(docs) /\ S \subseteq Ids
    BY DEF TypeOK, Box, InKind, Held
  <1>2. Sold(type) = Total(sold)
    BY <1>1, QuantityIs DEF Sold
  <1>3. /\ a \in [Ids -> 0 .. MaxStack] /\ b \in [Ids -> 0 .. MaxStack]
        /\ Stock(docs, type, 1) = Total(a) /\ Stock(docs', type, 1) = Total(b)
    BY <1>0, <1>1, StockType DEF Stock
  <1>4. \A i \in S : /\ docs[i].quantity \in 0 .. MaxStack
                     /\ docs[i].quantity <= Weight(docs[i], type, 1)
    <2>1. \A i \in S : docs[i] \in Docs /\ docs[i] # NoDoc /\ docs[i].type = type
      BY <1>1, HeldDoc, NoDocAssumption
    <2> QED
      BY <1>0, <2>1, WeightType
  <1>5. /\ sold \in [Ids -> 0 .. MaxStack] /\ none \in [Ids -> 0 .. MaxStack]
        /\ \A i \in Ids : none[i] = 0
    <2>1. \A i \in Ids : i \in S => docs[i].quantity \in 0 .. MaxStack
      BY <1>4
    <2> HIDE DEF S
    <2> QED
      BY <1>0, <2>1
  <1>6. ASSUME NEW i \in Ids
        PROVE  b[i] + sold[i] <= a[i] + none[i]
    <2>1. a[i] = Weight(docs[i], type, 1) /\ b[i] = Weight(docs'[i], type, 1) /\ a[i] \in Nat
      <3>1. a[i] \in 0 .. MaxStack
        BY <1>3
      <3> QED
        BY <1>0, <3>1 DEF Weights
    <2>2. CASE i \in Box
      <3>1. docs'[i] = NoDoc
        BY <2>2 DEF SellsBox
      <3>2. b[i] = 0
        BY <2>1, <3>1 DEF Weight
      <3>3. sold[i] \in Nat /\ sold[i] <= a[i]
        <4>1. CASE i \in S
          BY <1>0, <1>4, <2>1, <4>1
        <4>2. CASE i \notin S
          BY <2>1, <4>2
        <4> QED
          BY <4>1, <4>2
      <3> HIDE DEF a, b, sold, none
      <3> QED
        BY <1>5, <2>1, <3>2, <3>3
    <2>3. CASE i \notin Box
      <3>1. docs'[i] = docs[i] /\ sold[i] = 0
        BY <2>3 DEF SellsBox
      <3> HIDE DEF sold, none
      <3> QED
        BY <1>5, <2>1, <3>1
    <2> QED
      BY <2>2, <2>3
  <1>7. Total(none) = 0
    BY TotalNothing
  <1>8. spent'[type] = spent[type] + Sold(type) /\ gained'[type] = gained[type]
    BY DEF SellsBox
  <1>9. spent[type] \in Nat /\ gained[type] \in Nat /\ Total(a) + spent[type] <= gained[type]
    BY <1>3 DEF TypeOK, StockAccounted
  <1> HIDE DEF S, sold, none, a, b
  <1>10. Total(b) + Total(sold) <= Total(a) + Total(none)
    BY <1>0, <1>3, <1>5, <1>6, TotalBalance
  <1>11. Total(a) \in Nat /\ Total(b) \in Nat /\ Total(sold) \in Nat
    BY <1>0, <1>3, <1>5, TotalType
  <1> QED
    BY <1>2, <1>3, <1>7, <1>8, <1>9, <1>10, <1>11

\* An empty inventory has nothing in stock.
LEMMA EmptyStock ==
  ASSUME NEW type
  PROVE  Stock([i \in Ids |-> NoDoc], type, 1) = 0
  <1>1. \A i \in Ids : Weights([j \in Ids |-> NoDoc], type, 1)[i] = 0
    BY DEF Weights, Weight
  <1>2. DOMAIN Weights([j \in Ids |-> NoDoc], type, 1) = Ids
    BY DEF Weights
  <1> QED
    BY <1>1, <1>2, TotalNothing DEF Stock

\* For any number of devices and workers, with every stack of none that a sort leaves
\* counted as the one unit that can still be used of it: what is in stock and what was
\* used or sold is no more than what was obtained.
THEOREM StockIsAccounted == Spec => []StockAccounted
  <1>1. Init => StockAccounted
    <2> SUFFICES ASSUME Init, NEW type \in Types
                 PROVE  Stock(docs, type, 1) + spent[type] <= gained[type]
      BY DEF StockAccounted
    <2>1. docs = [i \in Ids |-> NoDoc] /\ spent[type] = 0 /\ gained[type] = 0
      BY DEF Init
    <2> QED
      BY <2>1, EmptyStock
  <1>2. TypeOK /\ TypeOK' /\ StockAccounted /\ [Next]_vars => StockAccounted'
    <2> SUFFICES ASSUME TypeOK, TypeOK', StockAccounted, [Next]_vars
                 PROVE  StockAccounted'
      OBVIOUS
    <2>1. ASSUME NEW d \in Devices, Handle(d)
          PROVE  StockAccounted'
      BY <2>1, HandleBalanced, BalancedKeeps
    <2>2. ASSUME NEW w \in Workers, SellsBox(w)
          PROVE  StockAccounted'
      BY <2>2, SaleKeepsAccount
    <2>3. ASSUME UNCHANGED <<docs, gained, spent>>
          PROVE  StockAccounted'
      BY <2>3 DEF StockAccounted, Stock, Weights
    <2> QED
      BY <2>1, <2>2, <2>3
         DEF Next, Work, Begin, Schedule, DropJob, ReadsUser, RetriesSale, GivesUp, vars
  <1> QED
    BY <1>1, <1>2, TypeCorrect, PTL DEF Spec

\* No unit comes from nothing, for any number of devices that decide on old snapshots
\* and any number of workers: of no type is there, or was used or sold, more than what
\* was obtained.
THEOREM NothingComesFromNothing == Spec => []NothingFromNothing
  <1>1. TypeOK /\ StockAccounted => NothingFromNothing
    <2> SUFFICES ASSUME TypeOK, StockAccounted, NEW type \in Types
                 PROVE  InStock(type) + spent[type] <= gained[type]
      BY DEF NothingFromNothing
    <2>1. docs \in Collections /\ 0 \in Floors /\ 1 \in Floors
            /\ spent[type] \in Nat /\ gained[type] \in Nat
      BY DEF TypeOK, Floors
    <2>2. InStock(type) = Stock(docs, type, 0)
      BY InStockIs DEF InStock
    <2>3. Stock(docs, type, 0) <= Stock(docs, type, 1)
      BY <2>1, FloorAdds
    <2>4. Stock(docs, type, 0) \in Nat /\ Stock(docs, type, 1) \in Nat
      BY <2>1, StockType
    <2>5. Stock(docs, type, 1) + spent[type] <= gained[type]
      BY DEF StockAccounted
    <2> QED
      BY <2>1, <2>2, <2>3, <2>4, <2>5
  <1> QED
    BY <1>1, TypeCorrect, StockIsAccounted, PTL

\* What a commit adds to a snapshot is added to the stock.
LEMMA CommitAdds ==
  ASSUME TypeOK, TypeOK', NEW d \in Devices, NEW new \in Collections, Commit(d, new),
         NEW type, NEW n \in Nat, Stock(new, type, 0) = Stock(txn[d].docs, type, 0) + n
  PROVE  InStock(type)' = InStock(type) + n
  <1>0. 0 \in Floors
    BY DEF Floors
  <1>1. docs \in Collections /\ docs' \in Collections /\ txn[d].docs \in Collections
    BY SnapshotType DEF TypeOK, Commit
  <1>2. Stock(docs', type, 0) + Stock(txn[d].docs, type, 0)
          = Stock(new, type, 0) + Stock(docs, type, 0)
    BY <1>0, <1>1, CommitStock
  <1>3. /\ Stock(docs, type, 0) \in Nat /\ Stock(docs', type, 0) \in Nat
        /\ Stock(txn[d].docs, type, 0) \in Nat
    BY <1>0, <1>1, StockType
  <1>4. InStock(type) = Stock(docs, type, 0)
    BY InStockIs DEF InStock
  <1>5. InStock(type)' = Stock(docs', type, 0)
    <2>1. InStock(type)' = Quantity(docs', {i \in Held(docs') : docs'[i].type = type})
      BY DEF InStock, Quantity, Held
    <2> QED
      BY <2>1, InStockIs
  <1> QED
    BY <1>2, <1>3, <1>4, <1>5

\* Goods arrive whole and moves lose nothing, whatever other devices committed since the
\* snapshot the handler decided on.
THEOREM GoodsAlwaysArrive == Spec => GoodsArrive
  <1> DEFINE Arrive(d) ==
               /\ \A type \in Types, n \in 1 .. MaxGained :
                    Gain(d, type, n) \/ (type \in Buyable /\ Buy(d, type, n))
                      => InStock(type)' = InStock(type) + n
               /\ \A i \in Ids, index \in Targets, isTool \in BOOLEAN :
                    Move(d, i, index, isTool)
                      => \A type \in Types : InStock(type)' = InStock(type)
  <1>1. TypeOK /\ TypeOK' /\ [Next]_vars => [\A d \in Devices : Arrive(d)]_vars
    <2> SUFFICES ASSUME TypeOK, TypeOK', NEW d \in Devices
                 PROVE  Arrive(d)
      OBVIOUS
    <2> DEFINE s == txn[d].docs
    <2>k. "storage" \in Kinds /\ Capacity \in Nat /\ MaxGained \in Nat
          /\ Targets \subseteq Int
      BY StacksAssumption, StorehouseAssumption DEF Kinds
    <2>1. ASSUME NEW type \in Types, NEW n \in 1 .. MaxGained,
                 Gain(d, type, n) \/ (type \in Buyable /\ Buy(d, type, n))
          PROVE  InStock(type)' = InStock(type) + n
      <3>1. PICK new \in AddResults(s, type, n, "storage", Capacity) : CommitWithUser(d, new)
        BY <2>1 DEF Gain, Buy
      <3>2. Commit(d, new) /\ s \in Collections /\ n \in Nat
        BY <2>k, <3>1, SnapshotType DEF CommitWithUser, Commit
      <3>3. new \in Collections /\ Stock(new, type, 0) = Stock(s, type, 0) + n
        BY <2>k, <3>1, <3>2, AddStock
      <3> HIDE DEF s
      <3> QED
        BY <3>2, <3>3, CommitAdds DEF s
    <2>2. ASSUME NEW i \in Ids, NEW index \in Targets, NEW isTool \in BOOLEAN,
                 Move(d, i, index, isTool), NEW type \in Types
          PROVE  InStock(type)' = InStock(type)
      <3>1. PICK new \in MoveResults(s, i, index, isTool) : CommitInventories(d, new)
        BY <2>2 DEF Move
      <3>2. Commit(d, new) /\ s \in Collections /\ index \in Int
        BY <2>k, <2>2, <3>1, SnapshotType DEF CommitInventories, Commit
      <3>3. new \in Collections /\ Stock(new, type, 0) = Stock(s, type, 0)
        BY <3>1, <3>2, MoveSound, MoveStock DEF Sound
      <3>4. Stock(s, type, 0) = Stock(s, type, 0) + 0
        <4>1. Stock(s, type, 0) \in Nat
          BY <3>2, StockType DEF Floors
        <4> QED
          BY <4>1
      <3>5. InStock(type)' = InStock(type) + 0
        BY <3>2, <3>3, <3>4, CommitAdds
      <3>6. InStock(type) \in Nat
        <4>1. InStock(type) = Stock(docs, type, 0) /\ docs \in Collections
          BY InStockIs DEF InStock, TypeOK
        <4> QED
          BY <4>1, StockType DEF Floors
      <3> QED
        BY <3>5, <3>6
    <2> QED
      BY <2>1, <2>2
  <1> QED
    BY <1>1, TypeCorrect, PTL DEF Spec, GoodsArrive
=============================================================================
