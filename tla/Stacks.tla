------------------------------- MODULE Stacks -------------------------------
(***************************************************************************)
(* The inventories of one user as a document collection, and what          *)
(* InventoryService and the inventory handlers do to it.  An operator      *)
(* named ...Results is the set of collections the code may leave behind: it *)
(* is empty where the code throws, and has several members where the code  *)
(* depends on an order MongoDB does not promise.                           *)
(*                                                                         *)
(* The collection is a function on Ids; an id without a document is NoDoc. *)
(***************************************************************************)
EXTENDS Integers, Sequences, FiniteSets, Functions

CONSTANTS
  Ids,            \* document ids
  NoDoc,
  Products, Seeds, Feeds, Fertilizers, Tools,   \* inventory types, by what they are
  Priorities,     \* priorityInventoryTypeIds, a sequence
  MaxStack, Capacity, ToolCapacity

Types == Products \cup Seeds \cup Feeds \cup Fertilizers \cup Tools
Kinds == {"storage", "tool", "delivery"}

ASSUME StacksAssumption ==
  /\ IsFiniteSet(Ids)
  /\ Tools \cap (Products \cup Seeds \cup Feeds \cup Fertilizers) = {}
  /\ MaxStack \in Nat \ {0}
  /\ Capacity \in Nat
  /\ ToolCapacity \in Nat
  /\ Priorities \in Seq({Priorities[p] : p \in DOMAIN Priorities})

\* The quantity of a tool, which the code leaves undefined, is 1 here.  An index is where
\* a move put it, which may be negative.
Docs == [type : Types, kind : Kinds, index : Int, quantity : 0 .. MaxStack]

ASSUME NoDocAssumption == NoDoc \notin Docs

Collections == [Ids -> Docs \cup {NoDoc}]

Held(docs) == {i \in Ids : docs[i] # NoDoc}
InKind(docs, kind) == {i \in Held(docs) : docs[i].kind = kind}
OfType(docs, kind, type) == {i \in InKind(docs, kind) : docs[i].type = type}

SlotsUniqueIn(s) ==
  \A i, j \in Held(s) : s[i].kind = s[j].kind /\ s[i].index = s[j].index => i = j

(***************************************************************************)
(* Arithmetic.  A total is the cardinality of a set of units rather than a *)
(* fold, so that the proofs can use the theorems about finite sets.        *)
(***************************************************************************)
Total(f) == Cardinality({u \in (DOMAIN f) \X (1 .. MaxStack) : u[2] <= f[u[1]]})

Quantity(docs, S) == Total([i \in S |-> docs[i].quantity])

CeilDiv(a, b) == (a + b - 1) \div b

Lesser(a, b) == IF a <= b THEN a ELSE b

\* The n least members of a set of numbers.
Lowest(S, n) == {s \in S : Cardinality({u \in S : u <= s}) <= n}
-----------------------------------------------------------------------------
(***************************************************************************)
(* InventoryService.add                                                    *)
(***************************************************************************)
Free(docs, kind, capacity) ==
  0 .. capacity - 1 \ {docs[i].index : i \in InKind(docs, kind)}

Room(docs, i) == MaxStack - docs[i].quantity

\* How n units may be spread over the stacks there are: the fullest stack is
\* filled before the next one gets any, in any order among equals.
Fillings(docs, type, n, kind) ==
  LET stacks == OfType(docs, kind, type)
  IN  {given \in [stacks -> 0 .. MaxStack] :
        /\ \A i \in stacks : given[i] <= Room(docs, i)
        /\ Total(given) = Lesser(n, Total([i \in stacks |-> Room(docs, i)]))
        /\ \A i, j \in stacks :
             i # j /\ given[j] > 0 /\ given[i] < Room(docs, i) =>
               /\ docs[j].quantity >= docs[i].quantity
               /\ given[j] = Room(docs, j) \/ given[i] = 0}

\* What is left over goes to new stacks in the lowest free slots, the last one taking
\* what remains; nothing at all is stored when they do not suffice.
NewStacks(docs, type, rest, kind, capacity) ==
  LET count == CeilDiv(rest, MaxStack)
      slots == Lowest(Free(docs, kind, capacity), count)
      Stack(slot) ==
        [type |-> type, kind |-> kind, index |-> slot,
         quantity |-> IF \E s \in slots : s > slot THEN MaxStack
                      ELSE rest - MaxStack * (count - 1)]
  IN  IF Cardinality(slots) < count THEN {}
      ELSE UNION {{[i \in fresh |-> Stack(at[i])] : at \in Bijection(fresh, slots)} :
                    fresh \in {S \in SUBSET (Ids \ Held(docs)) : Cardinality(S) = count}}

Store(docs, saved, created) ==
  [i \in Ids |-> IF i \in DOMAIN created THEN created[i]
                 ELSE IF i \in DOMAIN saved
                        THEN [docs[i] EXCEPT !.quantity = @ + saved[i]]
                        ELSE docs[i]]

AddResults(docs, type, n, kind, capacity) ==
  UNION {{Store(docs, given, created) :
            created \in NewStacks(docs, type, n - Total(given), kind, capacity)} :
          given \in Fillings(docs, type, n, kind)}

AddToolResults(docs, tool, capacity) ==
  UNION {{Store(docs, << >>, [i \in {id} |->
            [type |-> tool, kind |-> "storage", index |-> slot, quantity |-> 1]]) :
            slot \in Lowest(Free(docs, "storage", capacity), 1)} :
          id \in Ids \ Held(docs)}

\* removeSingle
Taken(docs, i, n) ==
  [docs EXCEPT ![i] = IF docs[i].quantity - n > 0
                        THEN [docs[i] EXCEPT !.quantity = @ - n]
                        ELSE NoDoc]
-----------------------------------------------------------------------------
(***************************************************************************)
(* Deliver and retrieve: a stack leaves one kind and its quantity is added *)
(* to the other.  Only the first stack topped up is saved.  Both bound the *)
(* slots by the capacity of the storage.                                   *)
(***************************************************************************)
\* The part of a filling that is saved.
FirstOnly(docs, given) ==
  LET topped == {i \in DOMAIN given : given[i] > 0}
      first == {i \in topped : \A j \in topped \ {i} :
                  /\ docs[i].quantity >= docs[j].quantity
                  /\ given[i] = Room(docs, i)}
  IN  IF topped = {} THEN {<< >>} ELSE {[j \in {i} |-> given[j]] : i \in first}

AddFirstResults(docs, type, n, kind) ==
  UNION {{Store(docs, saved, created) :
            saved \in FirstOnly(docs, given),
            created \in NewStacks(docs, type, n - Total(given), kind, Capacity)} :
          given \in Fillings(docs, type, n, kind)}

ShiftResults(docs, i, from, to) ==
  IF i \notin InKind(docs, from) \/ docs[i].type \notin Products THEN {}
  ELSE AddFirstResults([docs EXCEPT ![i] = NoDoc], docs[i].type, docs[i].quantity, to)
-----------------------------------------------------------------------------
(***************************************************************************)
(* Move to a slot of the storage or of the tools.  The index is refused    *)
(* from the capacity on, and any other integer is stored.                  *)
(***************************************************************************)
\* Mutant: the stack that is moved always fits.
MergedWhole(docs, i, j) ==
  [docs EXCEPT ![i] = NoDoc,
               ![j] = [docs[j] EXCEPT !.quantity = docs[i].quantity + docs[j].quantity]]

\* Mutant: the stack that is moved is always deleted.
MergedAway(docs, i, j) ==
  [docs EXCEPT ![i] = NoDoc,
               ![j] = [docs[j] EXCEPT !.quantity =
                        Lesser(docs[i].quantity + docs[j].quantity, MaxStack)]]

Merged(docs, i, j) ==
  LET sum == docs[i].quantity + docs[j].quantity
  IN  IF sum <= MaxStack
        THEN [docs EXCEPT ![i] = NoDoc, ![j] = [docs[j] EXCEPT !.quantity = sum]]
        ELSE [docs EXCEPT ![i] = [docs[i] EXCEPT !.quantity = sum - MaxStack],
                          ![j] = [docs[j] EXCEPT !.quantity = MaxStack]]

MovedTo(doc, index, kind) == [doc EXCEPT !.index = index, !.kind = kind]

\* Mutant: the stack found in the slot stays there.
SwappedHalf(docs, i, j) ==
  [docs EXCEPT ![i] = MovedTo(docs[i], docs[j].index, docs[j].kind)]

Swapped(docs, i, j) ==
  [docs EXCEPT ![i] = MovedTo(docs[i], docs[j].index, docs[j].kind),
               ![j] = MovedTo(docs[j], docs[i].index, docs[i].kind)]

MoveResults(docs, i, index, isTool) ==
  LET kind  == IF isTool THEN "tool" ELSE "storage"
      found == {j \in InKind(docs, kind) : docs[j].index = index}
      Onto(j) == IF docs[i].type # docs[j].type THEN {Swapped(docs, i, j)}
                 ELSE IF docs[i].type \in Tools THEN {}  \* NaN is not saved
                 ELSE {Merged(docs, i, j)}
  IN  IF i \notin Held(docs) \/ index >= (IF isTool THEN ToolCapacity ELSE Capacity)
        THEN {}
      ELSE IF found = {} THEN {[docs EXCEPT ![i] = MovedTo(docs[i], index, kind)]}
      ELSE UNION {IF j = i THEN {docs} ELSE Onto(j) : j \in found}
-----------------------------------------------------------------------------
(***************************************************************************)
(* Sort of one kind.  A document is listed in inventoriesMap once for every *)
(* time its type is in the priorities; the types come in the order their   *)
(* first document was found.  Of the entries of a stackable type the first *)
(* Survivors are kept, each given a quantity and the next index, and the   *)
(* documents of the others are deleted afterwards.                         *)
(***************************************************************************)
Times(type) == Cardinality({p \in DOMAIN Priorities : Priorities[p] = type})

Rank(docs, kind, order, i) ==
  Cardinality({j \in OfType(docs, kind, docs[i].type) : order[j] <= order[i]})

Merge(docs, kind, type) == Times(type) * Quantity(docs, OfType(docs, kind, type))

Survivors(docs, kind, type) == CeilDiv(Merge(docs, kind, type), MaxStack)

\* An entry is a document and which of its Times(type) listings it is.
Kept(docs, kind, order) ==
  {e \in InKind(docs, kind) \X (1 .. Len(Priorities)) :
     LET type == docs[e[1]].type
     IN  /\ e[2] <= Times(type)
         /\ type \in Tools \/ (Rank(docs, kind, order, e[1]) - 1) * Times(type) + e[2]
                                <= Survivors(docs, kind, type)}

MetEarlier(docs, kind, order, i, j) ==
  \E p \in OfType(docs, kind, docs[i].type) :
    \A q \in OfType(docs, kind, docs[j].type) : order[p] < order[q]

Before(docs, kind, order, d, e) ==
  IF docs[d[1]].type # docs[e[1]].type THEN MetEarlier(docs, kind, order, d[1], e[1])
  ELSE order[d[1]] < order[e[1]] \/ (d[1] = e[1] /\ d[2] < e[2])

\* The quantity of the document with the given rank: that of its last entry.
SortedQuantity(docs, kind, type, rank) ==
  IF rank * Times(type) = Survivors(docs, kind, type)
    THEN Merge(docs, kind, type) % MaxStack
    ELSE MaxStack

SortedDoc(docs, kind, order, i) ==
  LET kept == Kept(docs, kind, order)
      last == <<i, Times(docs[i].type)>>
  IN  IF last \notin kept THEN NoDoc
      ELSE [docs[i] EXCEPT
             !.index = Cardinality({e \in kept : Before(docs, kind, order, e, last)}),
             !.quantity = IF docs[i].type \in Tools THEN @
                          ELSE SortedQuantity(docs, kind, docs[i].type,
                                              Rank(docs, kind, order, i))]

Sorted(docs, kind, order) ==
  [i \in Ids |-> IF i \in InKind(docs, kind) THEN SortedDoc(docs, kind, order, i)
                 ELSE docs[i]]

SortKindResults(docs, kind) ==
  LET S == InKind(docs, kind)
  IN  IF \E i \in S : Times(docs[i].type) = 0 THEN {}
      ELSE {Sorted(docs, kind, order) : order \in Bijection(S, 1 .. Cardinality(S))}

SortResults(docs) ==
  UNION {SortKindResults(sorted, "tool") : sorted \in SortKindResults(docs, "storage")}
=============================================================================
