--------------------------- MODULE PurchasesProofs --------------------------
(***************************************************************************)
(* Proofs about Purchases: a lock keeps what a send read, so what it       *)
(* commits is what it found in the cache on top of what is there; two      *)
(* sends of one user with one transaction write a common document; and the *)
(* chain makes a transaction final before any handler commits it.          *)
(***************************************************************************)
EXTENDS Purchases, ServiceProofs

-----------------------------------------------------------------------------
(***************************************************************************)
(* The inductive invariant                                                 *)
(***************************************************************************)

\* The writes of a send that user u calls with an order, from the documents it read.
Written(mutation, order, u, map, new) ==
  \/ /\ mutation = "golds" /\ order.kind = "selection" /\ order.index \in DOMAIN GoldOptions
     /\ new = Modified(map, GoldsBought(order, u, map))
  \/ /\ mutation = "energy" /\ order.kind = "selection"
     /\ order.index \in DOMAIN EnergyOptions
     /\ new = Modified(map, EnergyBought(order, u, map))
  \/ /\ mutation = "land" /\ order.kind = "selection" /\ order.index \in DOMAIN GoldOptions
     /\ new = Modified(map, LandBought(order, u, map))
  \/ /\ mutation = "boxes" /\ order.kind \in {"boxes", "convert"}
     /\ new = Modified(map, BoxesBought(order, u, map))
  \/ /\ mutation = "ship" /\ order.kind = "ship"
     /\ new = Modified(map, BulkShipped(order, u, map))
  \/ /\ mutation = "wrap" /\ order.kind \in {"wrap", "unwrap"}
     /\ map[order.meta] # Free /\ ~map[order.meta].validated
     /\ \E i \in Items : map[i] = Free /\ new = Modified(map, Wrapped(order, u, map, i))
  \/ /\ mutation = "unwrap" /\ order.kind \in {"wrap", "unwrap"}
     /\ map[order.meta] # Free
     /\ \E i \in ItemsOf(map, order.meta) : new = Modified(map, Unwrapped(order, i))
  \/ mutation = "convert" /\ new = <<>>

\* A shipment writes after the chain, the others before it.
HasWritten(pc, mutation) ==
  \/ pc = "commit"
  \/ pc \in {"send", "confirm"} /\ mutation # "ship"

Sending(h) == handler[h].pc \in {"write", "send", "confirm", "book", "commit"}

Creating(h) ==
  /\ handler[h] = [pc |-> "create", seen |-> Seen(h), new |-> <<>>]
  /\ Documents(Seen(h))

SendsOrder(h) ==
  /\ handler[h] = [pc |-> handler[h].pc, tx |-> handler[h].tx, user |-> Caller(h),
                   mutation |-> handler[h].mutation, seen |-> Seen(h), new |-> handler[h].new]
  /\ Sending(h)
  /\ handler[h].tx \in Txs /\ Tx(h) \in Orders /\ Caller(h) \in Users
  /\ Documents(Seen(h))
  /\ IF HasWritten(handler[h].pc, handler[h].mutation)
       THEN Written(handler[h].mutation, Tx(h), Caller(h), Seen(h), handler[h].new)
       ELSE handler[h].new = <<>>
  /\ Busy("write", h) => handler[h].mutation \notin {"ship", "convert"}
  /\ Busy("book", h) => handler[h].mutation = "ship"
  /\ handler[h].pc \in {"book", "commit"} =>
       /\ chain[handler[h].tx].final
       /\ handler[h].mutation # "convert" => Landed(handler[h].tx)

HandlerInv(h) == handler[h] = Idle \/ Creating(h) \/ SendsOrder(h)

OnChain == [submitted : BOOLEAN, landed : Nat, failed : BOOLEAN, final : BOOLEAN]

\* The cache, the chain and the counters.
ChainInv ==
  /\ prepared \in [Txs -> Orders \cup {NoTx}]
  /\ chain \in [Txs -> OnChain]
  /\ credited \in [Txs \X Users -> Nat]
  /\ draws \in Nat /\ bulkPaid \in [count : Nat, decrement : Int]
  /\ \A t \in Txs : prepared[t] = NoTx => ~chain[t].submitted /\ chain[t].landed = 0
  /\ \A t \in Txs, u \in Users :
       credited[<<t, u>>] # 0 =>
         credited[<<t, u>>] = 1 /\ chain[t].final /\ Landed(t)

\* No two handlers hold a lock on one document, and what is locked is as it was read.
\* Stacks of products are also deleted outside of the transactions.
LockInv ==
  /\ \A g, h \in Handlers : g # h => Locks(g) \cap Locks(h) = {}
  /\ \A h \in Handlers, key \in Keys \ Inventories :
       key \in Locks(h) => docs[key] = Seen(h)[key]

\* Who has written and waits for the chain, or is about to commit, is the first of his
\* user to commit the transaction: the others have not sent it before it was final or
\* wait for his lock.  Who ships it late finds the user with more tCIFARM than in his
\* snapshot.  A vault that is no number stays none.
OnceInv(h) ==
  /\ handler[h].pc \in {"confirm", "commit"} /\ DOMAIN handler[h].new # {} =>
       credited[<<handler[h].tx, Caller(h)>>] = 0
  /\ ~Busy("idle", h) =>
       /\ \A u \in Users : Seen(h)[u].tCIFARM <= docs[u].tCIFARM
       /\ Seen(h)[Vault].tokenLocked = NaN => docs[Vault].tokenLocked = NaN
  /\ handler[h].pc \in {"confirm", "book"} /\ handler[h].mutation = "ship"
       /\ Tx(h).kind = "ship" /\ credited[<<handler[h].tx, Caller(h)>>] # 0 =>
       Seen(h)[Caller(h)].tCIFARM < docs[Caller(h)].tCIFARM

PurchasesInv ==
  /\ Documents(docs) /\ Itemized(docs)
  /\ ChainInv
  /\ handler = [h \in Handlers |-> handler[h]]
  /\ \A h \in Handlers : HandlerInv(h) /\ OnceInv(h)
  /\ LockInv
  /\ VaultLedger

-----------------------------------------------------------------------------
(***************************************************************************)
(* Documents and orders                                                    *)
(***************************************************************************)

LEMMA OrderType ==
  ASSUME NEW order \in Orders
  PROVE  /\ order.kind \in {"selection", "boxes", "ship", "wrap", "unwrap", "convert"}
         /\ order # NoTx
         /\ order.kind = "boxes" => order.quantity \in Nat \ {0}
         /\ order.kind = "ship" => order.amount \in Int
         /\ order.kind \in {"wrap", "unwrap"} => order.nft \in NFTs /\ order.meta \in Metas
BY PurchasesAssumption, NoTxAssumption DEF Orders

LEMMA WorthType ==
  ASSUME NEW order \in Orders
  PROVE  /\ Worth(order) \in [golds : Nat, tCIFARM : Nat]
         /\ Worth(order) # NoTx
         /\ order.kind = "ship" => Worth(order).tCIFARM > 0
<1>1. Cardinality(DOMAIN Bulk) \in Nat \ {0}
  BY PurchasesAssumption, FS_CardinalityType, FS_EmptySet
<1>2. Cardinality(DOMAIN Bulk) * BulkTCIFARM \in Nat \ {0}
  BY <1>1, PurchasesAssumption
<1>3. \A option \in DOMAIN GoldOptions : GoldOptions[option] \in Nat
  BY PurchasesAssumption
<1>4. Worth(order) \in [golds : Nat, tCIFARM : Nat]
  BY <1>2, <1>3 DEF Worth
<1> QED BY <1>2, <1>4, NoTxAssumption DEF Worth

\* A box costs something, so that a purchase of boxes changes a vault that is a number.
LEMMA BoxesCost == \A order \in Orders : order.kind = "boxes" =>
                     order.quantity * (BoxPrice - BoxFee) \in Nat \ {0}
<1> SUFFICES ASSUME NEW order \in Orders, order.kind = "boxes"
             PROVE  order.quantity * (BoxPrice - BoxFee) \in Nat \ {0}
  OBVIOUS
<1>1. order.quantity \in Nat \ {0} /\ BoxPrice - BoxFee \in Nat \ {0}
  BY OrderType, PurchasesAssumption
<1>2. \A m, n \in Nat \ {0} : m * n \in Nat \ {0}
  OBVIOUS
<1> QED BY <1>1, <1>2

LEMMA UserByField ==
  ASSUME NEW d, d = [x \in DOMAIN d |-> d[x]],
         DOMAIN d = {"golds", "tCIFARM", "energy", "energyFull", "level", "experiences",
                     "landLimitIndex", "nftBoxVector"},
         d.golds \in Nat, d.tCIFARM \in Nat, d.energy \in Nat, d.energyFull \in BOOLEAN,
         d.level \in Nat \ {0}, d.experiences \in Nat, d.landLimitIndex \in Nat,
         d.nftBoxVector \in Nat \cup {NoVector}
  PROVE  d \in UserDocuments
BY DEF UserDocuments

\* What the sends do to a user document.
LEMMA UserWrites ==
  ASSUME NEW d \in UserDocuments, NEW n \in Nat
  PROVE  /\ [d EXCEPT !.golds = @ + n] \in UserDocuments
         /\ [d EXCEPT !.tCIFARM = @ + n] \in UserDocuments
         /\ [d EXCEPT !.landLimitIndex = n] \in UserDocuments
         /\ [d EXCEPT !.nftBoxVector = n] \in UserDocuments
         /\ [d EXCEPT !.nftBoxVector = NoVector] \in UserDocuments
BY DEF UserDocuments

LEMMA RefilledType ==
  ASSUME NEW d \in UserDocuments, NEW percentage \in 0 .. 100
  PROVE  /\ Refilled(d, percentage) \in UserDocuments
         /\ Refilled(d, percentage).golds = d.golds
         /\ Refilled(d, percentage).tCIFARM = d.tCIFARM
         /\ Refilled(d, percentage).nftBoxVector = d.nftBoxVector
<1> DEFINE max == MaxEnergy(d.level)
           newEnergy == Lesser(max, d.energy + (max * percentage) \div 100)
           f == AddEnergy(d, newEnergy - d.energy)
<1>1. d.level \in Nat \ {0} /\ d.energy \in Nat
  BY DEF UserDocuments
<1>2. max \in Nat
  BY <1>1 DEF MaxEnergy
<1>3. (max * percentage) \div 100 \in Nat
  <2>1. max * percentage \in Nat
    BY <1>2
  <2> HIDE DEF max
  <2> QED BY <2>1
<1> HIDE DEF max
<1>4. newEnergy \in Nat
  BY <1>1, <1>2, <1>3 DEF Lesser
<1> HIDE DEF newEnergy
<1>5. /\ f = [x \in DOMAIN f |-> f[x]] /\ DOMAIN f = DOMAIN d
      /\ f.golds = d.golds /\ f.tCIFARM = d.tCIFARM /\ f.nftBoxVector = d.nftBoxVector
      /\ f.level = d.level /\ f.experiences = d.experiences
      /\ f.landLimitIndex = d.landLimitIndex
  BY DEF AddEnergy, UserDocuments
<1>6. f.energy \in Nat /\ f.energyFull \in BOOLEAN
  <2>1. f.energy \in {MaxEnergy(d.level), d.energy + (newEnergy - d.energy)}
    BY DEF AddEnergy, UserDocuments
  <2>2. f.energyFull \in BOOLEAN
    <3> DEFINE full == d.energy + (newEnergy - d.energy) >= MaxEnergy(d.level)
    <3>1. f.energyFull = full
      BY DEF AddEnergy, UserDocuments
    <3>2. full \in BOOLEAN
      OBVIOUS
    <3> HIDE DEF full, f
    <3> QED BY <3>1, <3>2
  <2>3. d.energy + (newEnergy - d.energy) = newEnergy
    BY <1>1, <1>4
  <2>4. MaxEnergy(d.level) \in Nat
    BY <1>2 DEF max
  <2>5. f.energy \in Nat
    BY <1>4, <2>1, <2>3, <2>4
  <2> QED BY <2>2, <2>5
<1>7. f \in UserDocuments
  <2> HIDE DEF f
  <2> QED BY <1>5, <1>6, UserByField DEF UserDocuments
<1>8. Refilled(d, percentage) = f
  BY DEF Refilled, f, newEnergy, max
<1> QED BY <1>5, <1>7, <1>8

\* What a send writes to users goes to its caller, and adds to his purse what the order
\* is worth, on top of what it read, or nothing.
LEMMA WrittenUsers ==
  ASSUME NEW order \in Orders, NEW u \in Users, NEW map, Documents(map),
         NEW mutation, NEW new, Written(mutation, order, u, map, new)
  PROVE  \A v \in Users : v \in DOMAIN new =>
           /\ v = u /\ mutation \notin {"wrap", "unwrap", "convert"}
           /\ new[v] \in UserDocuments
           /\ \/ /\ new[v].golds = map[v].golds + Worth(order).golds
                 /\ new[v].tCIFARM = map[v].tCIFARM + Worth(order).tCIFARM
              \/ /\ mutation # "ship"
                 /\ new[v].golds = map[v].golds /\ new[v].tCIFARM = map[v].tCIFARM
           /\ IF mutation = "boxes" THEN new[v].nftBoxVector = NoVector
                                    ELSE new[v].nftBoxVector = map[v].nftBoxVector
<1> DEFINE Credited(d) ==
             /\ d \in UserDocuments
             /\ \/ /\ d.golds = map[u].golds + Worth(order).golds
                   /\ d.tCIFARM = map[u].tCIFARM + Worth(order).tCIFARM
                \/ /\ mutation # "ship"
                   /\ d.golds = map[u].golds /\ d.tCIFARM = map[u].tCIFARM
             /\ IF mutation = "boxes" THEN d.nftBoxVector = NoVector
                                      ELSE d.nftBoxVector = map[u].nftBoxVector
<1>1. /\ map[u] \in UserDocuments /\ u # Vault
      /\ map[u].golds \in Nat /\ map[u].tCIFARM \in Nat
  BY KeysAssumption DEF Documents, UserDocuments
<1>2. CASE /\ mutation = "golds" /\ order.kind = "selection"
           /\ order.index \in DOMAIN GoldOptions
           /\ new = Modified(map, GoldsBought(order, u, map))
  <2> DEFINE saved == GoldsBought(order, u, map)
  <2>1. DOMAIN saved = {u} /\ saved[u] = [map[u] EXCEPT !.golds = @ + GoldOptions[order.index]]
    BY DEF GoldsBought
  <2>2. GoldOptions[order.index] \in Nat
    BY <1>2, PurchasesAssumption
  <2>3. Worth(order).golds = GoldOptions[order.index] /\ Worth(order).tCIFARM = 0
    BY <1>2 DEF Worth
  <2>4. Credited(saved[u])
    BY <1>1, <1>2, <2>1, <2>2, <2>3, UserWrites DEF UserDocuments
  <2> HIDE DEF saved
  <2>5. \A v \in Users : v \in DOMAIN new => v = u /\ new[v] = saved[u]
    BY <1>2, <2>1 DEF Modified, saved
  <2> QED BY <1>2, <2>4, <2>5
<1>3. CASE /\ mutation = "energy" /\ order.kind = "selection"
           /\ order.index \in DOMAIN EnergyOptions
           /\ new = Modified(map, EnergyBought(order, u, map))
  <2> DEFINE saved == EnergyBought(order, u, map)
  <2>1. DOMAIN saved = {u} /\ saved[u] = Refilled(map[u], EnergyOptions[order.index])
    BY DEF EnergyBought
  <2>2. EnergyOptions[order.index] \in 0 .. 100
    BY <1>3, PurchasesAssumption
  <2>3. /\ saved[u] \in UserDocuments
        /\ saved[u].golds = map[u].golds /\ saved[u].tCIFARM = map[u].tCIFARM
        /\ saved[u].nftBoxVector = map[u].nftBoxVector
    <3> DEFINE d == map[u]
               percentage == EnergyOptions[order.index]
    <3>1. d \in UserDocuments /\ percentage \in 0 .. 100 /\ saved[u] = Refilled(d, percentage)
      BY <1>1, <2>1, <2>2
    <3> HIDE DEF d, percentage, saved
    <3>2. Refilled(d, percentage) \in UserDocuments
      BY <3>1, RefilledType
    <3>3. Refilled(d, percentage).golds = d.golds
      BY <3>1, RefilledType
    <3>4. Refilled(d, percentage).tCIFARM = d.tCIFARM
      BY <3>1, RefilledType
    <3>5. Refilled(d, percentage).nftBoxVector = d.nftBoxVector
      BY <3>1, RefilledType
    <3> QED BY <3>1, <3>2, <3>3, <3>4, <3>5 DEF d
  <2> HIDE DEF saved
  <2>4. Credited(saved[u])
    BY <1>1, <1>3, <2>3
  <2>5. \A v \in Users : v \in DOMAIN new => v = u /\ new[v] = saved[u]
    BY <1>3, <2>1 DEF Modified, saved
  <2> QED BY <1>3, <2>4, <2>5
<1>4. CASE /\ mutation = "land" /\ order.kind = "selection"
           /\ order.index \in DOMAIN GoldOptions
           /\ new = Modified(map, LandBought(order, u, map))
  <2> DEFINE saved == LandBought(order, u, map)
  <2>1. DOMAIN saved = {u} /\ saved[u] = [map[u] EXCEPT !.landLimitIndex = order.index]
    BY DEF LandBought
  <2>2. order.index \in Nat
    BY <1>4, PurchasesAssumption
  <2>3. saved[u] \in UserDocuments
    BY <1>1, <2>1, <2>2 DEF UserDocuments
  <2>4. /\ saved[u].golds = map[u].golds /\ saved[u].tCIFARM = map[u].tCIFARM
        /\ saved[u].nftBoxVector = map[u].nftBoxVector
    BY <1>1, <2>1 DEF UserDocuments
  <2> HIDE DEF saved
  <2>5. Credited(saved[u])
    BY <1>1, <1>4, <2>3, <2>4
  <2>6. \A v \in Users : v \in DOMAIN new => v = u /\ new[v] = saved[u]
    BY <1>4, <2>1 DEF Modified, saved
  <2> QED BY <1>4, <2>5, <2>6
<1>5. CASE /\ mutation = "boxes" /\ order.kind \in {"boxes", "convert"}
           /\ new = Modified(map, BoxesBought(order, u, map))
  <2> DEFINE saved == BoxesBought(order, u, map)
  <2>1. DOMAIN saved = {u, Vault} /\ saved[u] = [map[u] EXCEPT !.nftBoxVector = NoVector]
    BY <1>1 DEF BoxesBought
  <2>2. Credited(saved[u])
    BY <1>1, <1>5, <2>1, UserWrites DEF UserDocuments
  <2> HIDE DEF saved
  <2>3. \A v \in Users : v \in DOMAIN new => v = u /\ new[v] = saved[u]
    BY <1>5, <2>1, KeysAssumption DEF Modified, saved
  <2> QED BY <1>5, <2>2, <2>3
<1>6. CASE /\ mutation = "ship" /\ order.kind = "ship"
           /\ new = Modified(map, BulkShipped(order, u, map))
  <2> DEFINE n == Cardinality(DOMAIN Bulk) * BulkTCIFARM
             saved == BulkShipped(order, u, map)
  <2>1. /\ DOMAIN saved = {u, Vault} \cup UNION {Cut(map, u, product) : product \in DOMAIN Bulk}
        /\ saved[u] = [map[u] EXCEPT !.tCIFARM = @ + n]
    BY <1>1 DEF BulkShipped
  <2>2. Worth(order).golds = 0 /\ Worth(order).tCIFARM = n
    BY <1>6 DEF Worth
  <2>3. n \in Nat
    <3>1. Worth(order).tCIFARM \in Nat
      BY WorthType
    <3> QED BY <2>2, <3>1
  <2> HIDE DEF n
  <2>4. Credited(saved[u])
    BY <1>1, <1>6, <2>1, <2>2, <2>3, UserWrites DEF UserDocuments
  <2>5. UNION {Cut(map, u, product) : product \in DOMAIN Bulk} \subseteq Inventories
    BY DEF Cut
  <2> HIDE DEF saved
  <2>6. \A v \in Users : v \in DOMAIN new => v = u /\ new[v] = saved[u]
    BY <1>6, <2>1, <2>5, KeysAssumption DEF Modified, saved
  <2> QED BY <1>6, <2>4, <2>6
<1>7. CASE /\ mutation = "wrap" /\ order.kind \in {"wrap", "unwrap"}
           /\ \E i \in Items : new = Modified(map, Wrapped(order, u, map, i))
  <2>1. PICK i \in Items : new = Modified(map, Wrapped(order, u, map, i))
    BY <1>7
  <2>2. DOMAIN new \subseteq {order.meta, i}
    BY <2>1 DEF Modified, Wrapped
  <2> QED BY <1>7, <2>2, OrderType, KeysAssumption
<1>8. CASE /\ mutation = "unwrap" /\ order.kind \in {"wrap", "unwrap"}
           /\ \E i \in ItemsOf(map, order.meta) : new = Modified(map, Unwrapped(order, i))
  <2>1. PICK i \in Items : new = Modified(map, Unwrapped(order, i))
    BY <1>8 DEF ItemsOf
  <2>2. DOMAIN new \subseteq {order.meta, i}
    BY <2>1 DEF Modified, Unwrapped
  <2> QED BY <1>8, <2>2, OrderType, KeysAssumption
<1>9. CASE mutation = "convert" /\ new = <<>>
  BY <1>9
<1> QED BY <1>2, <1>3, <1>4, <1>5, <1>6, <1>7, <1>8, <1>9 DEF Written

\* The document that any two sends of one user with one order write: the user, the
\* metadata, or the vault while it is a number.
LEMMA WrittenKey ==
  ASSUME NEW order \in Orders, NEW u \in Users, NEW map, Documents(map),
         NEW mutation, NEW new, Written(mutation, order, u, map, new), DOMAIN new # {}
  PROVE  /\ order.kind \in {"selection", "ship"} => u \in DOMAIN new
         /\ order.kind \in {"wrap", "unwrap"} => order.meta \in DOMAIN new
         /\ order.kind \in {"boxes", "convert"} =>
              IF map[Vault].tokenLocked = NaN THEN u \in DOMAIN new ELSE Vault \in DOMAIN new
         /\ order.kind = "ship" <=> mutation = "ship"
<1>1. /\ map[u] \in UserDocuments /\ u # Vault /\ map[u].tCIFARM \in Nat
      /\ map[Vault] \in [tokenLocked : Int \cup {NaN}]
  BY KeysAssumption DEF Documents, UserDocuments
<1>2. CASE /\ mutation \in {"golds", "energy", "land"} /\ order.kind = "selection"
           /\ \/ new = Modified(map, GoldsBought(order, u, map))
              \/ new = Modified(map, EnergyBought(order, u, map))
              \/ new = Modified(map, LandBought(order, u, map))
  <2>1. DOMAIN new \subseteq {u}
    BY <1>2 DEF Modified, GoldsBought, EnergyBought, LandBought
  <2> QED BY <1>2, <2>1
<1>3. CASE /\ mutation = "boxes" /\ order.kind \in {"boxes", "convert"}
           /\ new = Modified(map, BoxesBought(order, u, map))
  <2> DEFINE saved == BoxesBought(order, u, map)
             after == Plus(map[Vault].tokenLocked, TokenAmount(order))
  <2>1. DOMAIN saved = {u, Vault} /\ saved[Vault] = [tokenLocked |-> after]
    BY <1>1 DEF BoxesBought
  <2>2. CASE map[Vault].tokenLocked = NaN
    <3>1. after = NaN
      BY <2>2 DEF Plus
    <3> HIDE DEF saved, after
    <3>2. map[Vault] = [tokenLocked |-> NaN]
      BY <1>1, <2>2
    <3>3. Vault \notin DOMAIN new
      BY <1>3, <2>1, <3>1, <3>2 DEF Modified, saved
    <3> QED BY <1>3, <2>1, <2>2, <3>3 DEF Modified, saved
  <2>3. CASE map[Vault].tokenLocked # NaN
    <3>1. after # map[Vault].tokenLocked
      <4>1. TokenAmount(order) \in (Nat \ {0}) \cup {NaN}
        BY BoxesCost DEF TokenAmount
      <4> HIDE DEF after
      <4>2. CASE TokenAmount(order) = NaN
        BY <2>3, <4>2 DEF Plus, after
      <4>3. CASE TokenAmount(order) # NaN
        <5>1. after = map[Vault].tokenLocked + TokenAmount(order)
          BY <2>3, <4>3 DEF Plus, after
        <5>2. map[Vault].tokenLocked \in Int /\ TokenAmount(order) \in Nat \ {0}
          BY <1>1, <2>3, <4>1, <4>3
        <5> QED BY <5>1, <5>2
      <4> QED BY <4>2, <4>3
    <3> HIDE DEF saved, after
    <3>2. saved[Vault] # map[Vault]
      BY <1>1, <2>1, <3>1
    <3> QED BY <1>3, <2>1, <2>3, <3>2 DEF Modified, saved
  <2> QED BY <2>2, <2>3
<1>4. CASE /\ mutation = "ship" /\ order.kind = "ship"
           /\ new = Modified(map, BulkShipped(order, u, map))
  <2> DEFINE n == Cardinality(DOMAIN Bulk) * BulkTCIFARM
             saved == BulkShipped(order, u, map)
  <2>1. u \in DOMAIN saved /\ saved[u] = [map[u] EXCEPT !.tCIFARM = @ + n]
    BY <1>1 DEF BulkShipped
  <2>2. n \in Nat \ {0}
    <3>1. Worth(order).tCIFARM \in Nat \ {0} /\ Worth(order).tCIFARM = n
      BY <1>4, WorthType DEF Worth
    <3> QED BY <3>1
  <2> HIDE DEF n, saved
  <2>3. saved[u].tCIFARM = map[u].tCIFARM + n
    BY <1>1, <2>1 DEF UserDocuments
  <2>4. saved[u] # map[u]
    BY <1>1, <2>2, <2>3
  <2> QED BY <1>4, <2>1, <2>4 DEF Modified, saved
<1>5. CASE /\ mutation = "wrap" /\ order.kind \in {"wrap", "unwrap"}
           /\ map[order.meta] # Free /\ ~map[order.meta].validated
           /\ \E i \in Items : new = Modified(map, Wrapped(order, u, map, i))
  <2>1. PICK i \in Items : new = Modified(map, Wrapped(order, u, map, i))
    BY <1>5
  <2> DEFINE saved == Wrapped(order, u, map, i)
             m == order.meta
  <2>2. m \in Metas /\ m # i /\ map[m] \in MetaDocuments
    BY <1>5, OrderType, KeysAssumption DEF Documents
  <2>3. m \in DOMAIN saved /\ saved[m] = [map[m] EXCEPT !.validated = TRUE]
    BY <2>2 DEF Wrapped
  <2> HIDE DEF saved, m
  <2>4. saved[m].validated
    BY <2>2, <2>3 DEF MetaDocuments
  <2>5. saved[m] # map[m]
    BY <1>5, <2>4 DEF m
  <2> QED BY <1>5, <2>1, <2>3, <2>5 DEF Modified, saved, m
<1>6. CASE /\ mutation = "unwrap" /\ order.kind \in {"wrap", "unwrap"}
           /\ map[order.meta] # Free
           /\ \E i \in ItemsOf(map, order.meta) : new = Modified(map, Unwrapped(order, i))
  <2>1. PICK i \in Items : new = Modified(map, Unwrapped(order, i))
    BY <1>6 DEF ItemsOf
  <2>2. order.meta \in DOMAIN new
    BY <1>6, <2>1 DEF Modified, Unwrapped
  <2> QED BY <1>6, <2>2
<1>7. CASE mutation = "convert" /\ new = <<>>
  BY <1>7
<1> QED BY <1>2, <1>3, <1>4, <1>5, <1>6, <1>7 DEF Written

LEMMA TokensType == \A order \in Orders : TokensOf(order) \in Int
<1> SUFFICES ASSUME NEW order \in Orders PROVE TokensOf(order) \in Int
  OBVIOUS
<1>1. order.kind = "boxes" => order.quantity * (BoxPrice - BoxFee) \in Int
  BY BoxesCost
<1>2. order.kind = "ship" => -order.amount \in Int
  BY OrderType
<1> QED BY <1>1, <1>2 DEF TokensOf

\* A send adds its tokens to a vault that is a number, or, as boxes with a conversion,
\* spoils it.
LEMMA WrittenVault ==
  ASSUME NEW order \in Orders, NEW u \in Users, NEW map, Documents(map),
         NEW mutation, NEW new, Written(mutation, order, u, map, new)
  PROVE  /\ Vault \in DOMAIN new =>
              /\ map[Vault].tokenLocked # NaN
              /\ new[Vault] = [tokenLocked |->
                   IF order.kind = "convert" THEN NaN
                                             ELSE map[Vault].tokenLocked + TokensOf(order)]
         /\ Vault \notin DOMAIN new /\ DOMAIN new # {} /\ map[Vault].tokenLocked # NaN =>
              order.kind # "convert" /\ TokensOf(order) = 0
<1>1. /\ u # Vault /\ map[Vault] \in [tokenLocked : Int \cup {NaN}] /\ TokensOf(order) \in Int
      /\ NaN \notin Int
  BY KeysAssumption, TokensType, StartDocsAssumption DEF Documents
<1>2. CASE /\ mutation \in {"golds", "energy", "land"} /\ order.kind = "selection"
           /\ \/ new = Modified(map, GoldsBought(order, u, map))
              \/ new = Modified(map, EnergyBought(order, u, map))
              \/ new = Modified(map, LandBought(order, u, map))
  <2>1. DOMAIN new \subseteq {u}
    BY <1>2 DEF Modified, GoldsBought, EnergyBought, LandBought
  <2> QED BY <1>1, <1>2, <2>1 DEF TokensOf
<1>3. ASSUME NEW saved, new = Modified(map, saved), Vault \in DOMAIN saved,
             saved[Vault] = [tokenLocked |->
               IF order.kind = "convert"
                 THEN NaN ELSE Plus(map[Vault].tokenLocked, TokensOf(order))]
      PROVE  /\ Vault \in DOMAIN new =>
                  /\ map[Vault].tokenLocked # NaN
                  /\ new[Vault] = [tokenLocked |->
                       IF order.kind = "convert"
                         THEN NaN ELSE map[Vault].tokenLocked + TokensOf(order)]
             /\ Vault \notin DOMAIN new /\ map[Vault].tokenLocked # NaN =>
                  order.kind # "convert" /\ TokensOf(order) = 0
  <2>1. Vault \in DOMAIN new <=> saved[Vault] # map[Vault]
    BY <1>3 DEF Modified
  <2>2. Vault \in DOMAIN new => new[Vault] = saved[Vault]
    BY <1>3 DEF Modified
  <2>3. map[Vault] = [tokenLocked |-> map[Vault].tokenLocked]
    BY <1>1
  <2>4. CASE map[Vault].tokenLocked = NaN
    <3>1. saved[Vault] = [tokenLocked |-> NaN]
      BY <1>3, <2>4 DEF Plus
    <3> QED BY <2>1, <2>3, <2>4, <3>1
  <2>5. CASE map[Vault].tokenLocked # NaN
    <3>1. /\ map[Vault].tokenLocked \in Int
          /\ Plus(map[Vault].tokenLocked, TokensOf(order))
               = map[Vault].tokenLocked + TokensOf(order)
      BY <1>1, <2>5 DEF Plus
    <3>2. saved[Vault] = map[Vault] => order.kind # "convert" /\ TokensOf(order) = 0
      <4>1. ASSUME saved[Vault] = map[Vault]
            PROVE  saved[Vault].tokenLocked = map[Vault].tokenLocked
        BY <4>1
      <4> QED BY <1>1, <1>3, <2>5, <3>1, <4>1
    <3> QED BY <1>3, <2>1, <2>2, <2>5, <3>1, <3>2
  <2> QED BY <2>4, <2>5
<1>4. CASE /\ mutation = "boxes" /\ order.kind \in {"boxes", "convert"}
           /\ new = Modified(map, BoxesBought(order, u, map))
  <2> DEFINE saved == BoxesBought(order, u, map)
  <2>1. /\ Vault \in DOMAIN saved
        /\ saved[Vault] = [tokenLocked |-> Plus(map[Vault].tokenLocked, TokenAmount(order))]
    BY <1>1 DEF BoxesBought
  <2>2. /\ order.kind = "convert" => TokenAmount(order) = NaN
        /\ order.kind = "boxes" => TokenAmount(order) = TokensOf(order)
    BY DEF TokenAmount, TokensOf
  <2>3. order.kind = "convert" => Plus(map[Vault].tokenLocked, TokenAmount(order)) = NaN
    BY <2>2 DEF Plus
  <2>4. saved[Vault] = [tokenLocked |->
          IF order.kind = "convert"
            THEN NaN ELSE Plus(map[Vault].tokenLocked, TokensOf(order))]
    BY <1>4, <2>1, <2>2, <2>3
  <2> HIDE DEF saved
  <2> QED BY <1>3, <1>4, <2>1, <2>4 DEF saved
<1>5. CASE /\ mutation = "ship" /\ order.kind = "ship"
           /\ new = Modified(map, BulkShipped(order, u, map))
  <2> DEFINE saved == BulkShipped(order, u, map)
  <2>1. /\ Vault \in DOMAIN saved
        /\ saved[Vault] = [tokenLocked |-> Plus(map[Vault].tokenLocked, -order.amount)]
    BY <1>1 DEF BulkShipped
  <2>2. TokensOf(order) = -order.amount
    BY <1>5 DEF TokensOf
  <2> HIDE DEF saved
  <2> QED BY <1>3, <1>5, <2>1, <2>2 DEF saved
<1>6. CASE /\ mutation = "wrap" /\ order.kind \in {"wrap", "unwrap"}
           /\ \E i \in Items : new = Modified(map, Wrapped(order, u, map, i))
  <2>1. PICK i \in Items : new = Modified(map, Wrapped(order, u, map, i))
    BY <1>6
  <2>2. DOMAIN new \subseteq {order.meta, i}
    BY <2>1 DEF Modified, Wrapped
  <2> QED BY <1>6, <2>2, OrderType, KeysAssumption DEF TokensOf
<1>7. CASE /\ mutation = "unwrap" /\ order.kind \in {"wrap", "unwrap"}
           /\ \E i \in ItemsOf(map, order.meta) : new = Modified(map, Unwrapped(order, i))
  <2>1. PICK i \in Items : new = Modified(map, Unwrapped(order, i))
    BY <1>7 DEF ItemsOf
  <2>2. DOMAIN new \subseteq {order.meta, i}
    BY <2>1 DEF Modified, Unwrapped
  <2> QED BY <1>7, <2>2, OrderType, KeysAssumption DEF TokensOf
<1>8. CASE mutation = "convert" /\ new = <<>>
  BY <1>8
<1> QED BY <1>2, <1>4, <1>5, <1>6, <1>7, <1>8 DEF Written

\* An item is made and its metadata validated, or both are deleted.
Paired(map, new, m, i) ==
  /\ DOMAIN new = {m, i} /\ map[m] # Free
  /\ \/ /\ ~map[m].validated /\ map[i] = Free
        /\ new[i] \in ItemDocuments /\ new[i].meta = m
        /\ new[m] \in MetaDocuments /\ new[m].validated
     \/ /\ map[i] # Free /\ map[i].meta = m
        /\ new[i] = Free /\ new[m] = Free

\* Metadata and items are written by who wraps and unwraps: one of each, in one
\* transaction.
LEMMA WrittenNFTs ==
  ASSUME NEW order \in Orders, NEW u \in Users, NEW map, Documents(map),
         NEW mutation, NEW new, Written(mutation, order, u, map, new)
  PROVE  /\ DOMAIN new \subseteq Keys
         /\ \/ DOMAIN new \cap (Metas \cup Items) = {}
            \/ /\ order.meta \in Metas
               /\ \E i \in Items : Paired(map, new, order.meta, i)
<1>1. CASE /\ mutation \in {"golds", "energy", "land", "boxes"}
           /\ \/ new = Modified(map, GoldsBought(order, u, map))
              \/ new = Modified(map, EnergyBought(order, u, map))
              \/ new = Modified(map, LandBought(order, u, map))
              \/ new = Modified(map, BoxesBought(order, u, map))
  <2>1. DOMAIN new \subseteq {u, Vault}
    BY <1>1 DEF Modified, GoldsBought, EnergyBought, LandBought, BoxesBought
  <2> QED BY <2>1, KeysAssumption DEF Keys
<1>2. CASE mutation = "ship" /\ new = Modified(map, BulkShipped(order, u, map))
  <2>1. DOMAIN new \subseteq {u, Vault} \cup UNION {Cut(map, u, product) : product \in DOMAIN Bulk}
    BY <1>2 DEF Modified, BulkShipped
  <2>2. UNION {Cut(map, u, product) : product \in DOMAIN Bulk} \subseteq Inventories
    BY DEF Cut
  <2> QED BY <2>1, <2>2, KeysAssumption DEF Keys
<1>3. CASE /\ mutation = "wrap" /\ order.kind \in {"wrap", "unwrap"}
           /\ map[order.meta] # Free /\ ~map[order.meta].validated
           /\ \E i \in Items : map[i] = Free /\ new = Modified(map, Wrapped(order, u, map, i))
  <2>1. PICK i \in Items : map[i] = Free /\ new = Modified(map, Wrapped(order, u, map, i))
    BY <1>3
  <2> DEFINE saved == Wrapped(order, u, map, i)
             m == order.meta
  <2>2. m \in Metas /\ m # i /\ map[m] \in MetaDocuments /\ Free \notin ItemDocuments
    BY <1>3, OrderType, KeysAssumption, StartDocsAssumption DEF Documents
  <2>3. /\ DOMAIN saved = {m, i} /\ saved[i] = [meta |-> m, user |-> u]
        /\ saved[m] = [map[m] EXCEPT !.validated = TRUE]
    BY <2>2 DEF Wrapped
  <2> HIDE DEF saved, m
  <2>4. /\ saved[i] \in ItemDocuments /\ saved[i].meta = m
        /\ saved[m] \in MetaDocuments /\ saved[m].validated
    <3>1. saved[i] \in ItemDocuments /\ saved[i].meta = m
      BY <2>2, <2>3 DEF ItemDocuments
    <3>2. saved[m] \in MetaDocuments /\ saved[m].validated
      BY <2>2, <2>3 DEF MetaDocuments
    <3> QED BY <3>1, <3>2
  <2>5. saved[i] # map[i] /\ saved[m] # map[m]
    BY <1>3, <2>1, <2>2, <2>4 DEF m
  <2>6. /\ DOMAIN new = {m, i} /\ new[m] = saved[m] /\ new[i] = saved[i]
    BY <2>1, <2>3, <2>5 DEF Modified, saved
  <2>7. Paired(map, new, m, i)
    BY <1>3, <2>1, <2>4, <2>6 DEF Paired, m
  <2> QED BY <2>2, <2>6, <2>7 DEF Keys, m
<1>4. CASE /\ mutation = "unwrap" /\ order.kind \in {"wrap", "unwrap"}
           /\ map[order.meta] # Free
           /\ \E i \in ItemsOf(map, order.meta) : new = Modified(map, Unwrapped(order, i))
  <2>1. PICK i \in Items : /\ map[i] # Free /\ map[i].meta = order.meta
                           /\ new = Modified(map, Unwrapped(order, i))
    BY <1>4 DEF ItemsOf
  <2>2. order.meta \in Metas
    BY <1>4, OrderType
  <2>3. DOMAIN new = {order.meta, i} /\ new[i] = Free /\ new[order.meta] = Free
    BY <1>4, <2>1 DEF Modified, Unwrapped
  <2>4. Paired(map, new, order.meta, i)
    BY <1>4, <2>1, <2>3 DEF Paired
  <2> QED BY <2>2, <2>3, <2>4 DEF Keys
<1>5. CASE mutation = "convert" /\ new = <<>>
  BY <1>5
<1> QED BY <1>1, <1>2, <1>3, <1>4, <1>5 DEF Written

\* A commit of what was written on top of what is still there leaves documents, and
\* items with their metadata.
LEMMA CommitOfWritten ==
  ASSUME NEW order \in Orders, NEW u \in Users, NEW map, Documents(map),
         NEW mutation, NEW new, Written(mutation, order, u, map, new),
         NEW cur, Documents(cur), Itemized(cur),
         \A key \in DOMAIN new \ Inventories : cur[key] = map[key]
  PROVE  Documents(Saved(cur, new)) /\ Itemized(Saved(cur, new))
<1> DEFINE after == Saved(cur, new)
<1>1. /\ after = [key \in Keys |-> after[key]]
      /\ \A key \in Keys : after[key] = IF key \in DOMAIN new THEN new[key] ELSE cur[key]
  BY DEF Saved
<1> HIDE DEF after
<1>2. /\ \A key \in Users \cup {Vault} \cup Metas \cup Items : key \in Keys
      /\ \A key \in Metas \cup Items : key \in DOMAIN new => cur[key] = map[key]
  BY KeysAssumption DEF Keys
<1>3. \A v \in Users : after[v] \in UserDocuments
  BY <1>1, <1>2, WrittenUsers DEF Documents
<1>4. after[Vault] \in [tokenLocked : Int \cup {NaN}]
  <2>1. Vault \in DOMAIN new =>
          /\ map[Vault].tokenLocked # NaN
          /\ new[Vault] = [tokenLocked |->
               IF order.kind = "convert" THEN NaN
                                         ELSE map[Vault].tokenLocked + TokensOf(order)]
    BY WrittenVault
  <2>2. map[Vault].tokenLocked \in Int \cup {NaN} /\ TokensOf(order) \in Int
    BY TokensType DEF Documents
  <2>3. cur[Vault] \in [tokenLocked : Int \cup {NaN}]
    BY DEF Documents
  <2>4. Vault \in DOMAIN new => new[Vault] \in [tokenLocked : Int \cup {NaN}]
    <3>1. map[Vault].tokenLocked # NaN => map[Vault].tokenLocked + TokensOf(order) \in Int
      BY <2>2
    <3> QED BY <2>1, <3>1
  <2> QED BY <1>1, <1>2, <2>3, <2>4
<1>5. CASE DOMAIN new \cap (Metas \cup Items) = {}
  <2>1. \A key \in Metas \cup Items : after[key] = cur[key]
    BY <1>1, <1>2, <1>5
  <2>2. Documents(after)
    BY <1>1, <1>3, <1>4, <2>1 DEF Documents
  <2>3. \A i \in Items : cur[i] # Free => cur[i].meta \in Metas
    BY DEF Documents, ItemDocuments
  <2>4. \A m \in Metas : ItemsOf(after, m) = ItemsOf(cur, m)
    BY <2>1 DEF ItemsOf
  <2>5. Itemized(after)
    BY <2>1, <2>3, <2>4 DEF Itemized
  <2> QED BY <2>2, <2>5 DEF after
<1>6. CASE DOMAIN new \cap (Metas \cup Items) # {}
  <2> DEFINE m == order.meta
  <2>0. m \in Metas /\ \E i \in Items : Paired(map, new, m, i)
    BY <1>6, WrittenNFTs
  <2>1. PICK i \in Items :
          /\ m \in Metas /\ map[m] # Free /\ DOMAIN new = {m, i}
          /\ \/ /\ ~map[m].validated /\ map[i] = Free
                /\ new[i] \in ItemDocuments /\ new[i].meta = m
                /\ new[m] \in MetaDocuments /\ new[m].validated
             \/ /\ map[i] # Free /\ map[i].meta = m
                /\ new[i] = Free /\ new[m] = Free
    BY <2>0 DEF Paired
  <2> HIDE DEF m
  <2>2. cur[m] = map[m] /\ cur[i] = map[i] /\ m # i
    BY <1>2, <2>1, KeysAssumption
  <2>3. /\ after[m] = new[m] /\ after[i] = new[i]
        /\ \A key \in (Metas \cup Items) \ {m, i} : after[key] = cur[key]
    BY <1>1, <1>2, <2>1
  <2>4. /\ \A k \in Metas : after[k] \in MetaDocuments \cup {Free}
        /\ \A k \in Items : after[k] \in ItemDocuments \cup {Free}
    BY <2>1, <2>3, KeysAssumption DEF Documents
  <2>5. Documents(after)
    BY <1>1, <1>3, <1>4, <2>4 DEF Documents
  <2>6. /\ \A k \in Items : cur[k] # Free => cur[k].meta \in Metas
        /\ Free \notin ItemDocuments /\ Free \notin MetaDocuments
    BY StartDocsAssumption DEF Documents, ItemDocuments
  <2>7. ASSUME NEW k \in Items \ {i}, cur[k] # Free PROVE cur[k].meta # m
    BY <2>1, <2>2, <2>7 DEF Itemized, ItemsOf
  <2>8. \A j \in Items \ {i} : after[j] = cur[j]
    BY <2>1, <2>3, KeysAssumption
  <2>9. ASSUME NEW k \in Items, after[k] # Free
        PROVE  /\ after[after[k].meta] # Free /\ after[after[k].meta].validated
               /\ ItemsOf(after, after[k].meta) = {k}
    <3>1. CASE k = i
      <4>1. after[k].meta = m /\ after[m] # Free /\ after[m].validated
        BY <2>1, <2>3, <2>6, <2>9, <3>1
      <4>2. \A j \in Items \ {i} : after[j] # Free => after[j].meta # m
        BY <2>7, <2>8
      <4>3. ItemsOf(after, m) = {k}
        BY <2>9, <3>1, <4>1, <4>2 DEF ItemsOf
      <4> QED BY <4>1, <4>3
    <3>2. CASE k # i
      <4>1. after[k] = cur[k] /\ cur[k].meta # m /\ cur[k].meta \in Metas
        BY <2>6, <2>7, <2>8, <2>9, <3>2
      <4>2. after[cur[k].meta] = cur[cur[k].meta]
        BY <2>3, <4>1, KeysAssumption
      <4>3. ItemsOf(cur, cur[k].meta) = {k}
        BY <2>9, <4>1 DEF Itemized
      <4>4. after[i] = Free \/ after[i].meta = m
        BY <2>1, <2>3
      <4>5. ItemsOf(after, cur[k].meta) = {k}
        BY <2>8, <2>9, <3>2, <4>1, <4>3, <4>4 DEF ItemsOf
      <4> QED BY <2>9, <4>1, <4>2, <4>5 DEF Itemized
    <3> QED BY <3>1, <3>2
  <2>10. Itemized(after)
    BY <2>9 DEF Itemized
  <2> QED BY <2>5, <2>10 DEF after
<1> QED BY <1>5, <1>6

\* The writes that prepare an order: a vector drawn, or metadata made for an NFT.
Drafted(map, new) ==
  \/ new = <<>>
  \/ \E u \in Users, vector \in Nat :
       /\ map[u].nftBoxVector = NoVector
       /\ new = [key \in {u} |-> [map[key] EXCEPT !.nftBoxVector = vector]]
  \/ \E m \in Metas, n \in NFTs :
       /\ map[m] = Free
       /\ new = [key \in {m} |-> [nft |-> n, validated |-> FALSE]]

\* They leave documents, and what a user owns, as they were.
LEMMA CommitOfDraft ==
  ASSUME NEW map, Documents(map), NEW new, Drafted(map, new),
         NEW cur, Documents(cur), Itemized(cur), \A key \in DOMAIN new : cur[key] = map[key]
  PROVE  /\ Documents(Saved(cur, new)) /\ Itemized(Saved(cur, new))
         /\ Saved(cur, new)[Vault] = cur[Vault]
         /\ \A u \in Users :
              /\ Saved(cur, new)[u].golds = cur[u].golds
              /\ Saved(cur, new)[u].tCIFARM = cur[u].tCIFARM
              /\ cur[u].nftBoxVector # NoVector =>
                   Saved(cur, new)[u].nftBoxVector = cur[u].nftBoxVector
<1> DEFINE after == Saved(cur, new)
<1>1. /\ after = [key \in Keys |-> after[key]]
      /\ \A key \in Keys : after[key] = IF key \in DOMAIN new THEN new[key] ELSE cur[key]
  BY DEF Saved
<1> HIDE DEF after
<1>2. \A key \in Users \cup {Vault} \cup Metas \cup Items : key \in Keys
  BY DEF Keys
<1>3. CASE new = <<>>
  <2>1. after = cur
    BY <1>1, <1>3 DEF Documents
  <2> QED BY <2>1 DEF after
<1>4. ASSUME NEW u \in Users, NEW vector \in Nat, map[u].nftBoxVector = NoVector,
             new = [key \in {u} |-> [map[key] EXCEPT !.nftBoxVector = vector]]
      PROVE  /\ Documents(after) /\ Itemized(after) /\ after[Vault] = cur[Vault]
             /\ \A w \in Users :
                  /\ after[w].golds = cur[w].golds /\ after[w].tCIFARM = cur[w].tCIFARM
                  /\ cur[w].nftBoxVector # NoVector => after[w].nftBoxVector = cur[w].nftBoxVector
  <2>1. /\ cur[u] = map[u] /\ cur[u] \in UserDocuments
        /\ after[u] = [cur[u] EXCEPT !.nftBoxVector = vector]
    BY <1>1, <1>2, <1>4 DEF Documents
  <2>2. \A key \in (Users \cup {Vault} \cup Metas \cup Items) \ {u} : after[key] = cur[key]
    BY <1>1, <1>2, <1>4
  <2>3. after[u] \in UserDocuments
    BY <2>1 DEF UserDocuments
  <2>4. u \notin Metas \cup Items \cup {Vault}
    BY KeysAssumption
  <2>5. Documents(after)
    BY <1>1, <2>2, <2>3, <2>4 DEF Documents
  <2>6. \A i \in Items : cur[i] # Free => cur[i].meta \in Metas
    BY DEF Documents, ItemDocuments
  <2>7. \A m \in Metas : ItemsOf(after, m) = ItemsOf(cur, m)
    BY <2>2, <2>4 DEF ItemsOf
  <2>8. Itemized(after)
    BY <2>2, <2>4, <2>6, <2>7 DEF Itemized
  <2>9. after[u].golds = cur[u].golds /\ after[u].tCIFARM = cur[u].tCIFARM
    BY <2>1 DEF UserDocuments
  <2> QED BY <1>4, <2>1, <2>2, <2>4, <2>5, <2>8, <2>9
<1>5. ASSUME NEW m \in Metas, NEW n \in NFTs, map[m] = Free,
             new = [key \in {m} |-> [nft |-> n, validated |-> FALSE]]
      PROVE  /\ Documents(after) /\ Itemized(after)
             /\ \A key \in Users \cup {Vault} : after[key] = cur[key]
  <2>1. cur[m] = Free /\ after[m] = [nft |-> n, validated |-> FALSE]
    BY <1>1, <1>2, <1>5
  <2>2. m \notin Users \cup Items \cup {Vault}
    BY KeysAssumption
  <2>3. \A key \in (Users \cup {Vault} \cup Metas \cup Items) \ {m} : after[key] = cur[key]
    BY <1>1, <1>2, <1>5
  <2>4. after[m] \in MetaDocuments
    BY <2>1 DEF MetaDocuments
  <2>5. Documents(after)
    BY <1>1, <2>2, <2>3, <2>4 DEF Documents
  <2>6. \A i \in Items : cur[i] # Free => cur[i].meta \in Metas \ {m}
    BY <2>1 DEF Documents, ItemDocuments, Itemized
  <2>7. \A k \in Metas : ItemsOf(after, k) = ItemsOf(cur, k)
    BY <2>2, <2>3 DEF ItemsOf
  <2>8. Itemized(after)
    BY <2>2, <2>3, <2>6, <2>7 DEF Itemized
  <2> QED BY <2>2, <2>3, <2>5, <2>8
<1> QED BY <1>3, <1>4, <1>5 DEF Drafted, after

-----------------------------------------------------------------------------
(***************************************************************************)
(* What a step leaves alone                                                *)
(***************************************************************************)

\* An order in the cache stays, and so does a transaction that has landed or is final.
OrdersStay ==
  /\ \A t \in Txs : prepared[t] # NoTx => prepared'[t] = prepared[t]
  /\ \A t \in Txs : chain[t].final => chain'[t].final
  /\ \A t \in Txs : Landed(t) => Landed(t)'

LEMMA HandlerStays ==
  ASSUME NEW g \in Handlers, HandlerInv(g), OrdersStay, handler'[g] = handler[g]
  PROVE  HandlerInv(g)'
<1>1. Seen(g)' = Seen(g) /\ Sending(g)' = Sending(g) /\ Caller(g)' = Caller(g)
  BY DEF Seen, Sending, Caller
<1>2. CASE handler[g] = Idle
  BY <1>2 DEF HandlerInv, Idle
<1>3. CASE Creating(g)
  BY <1>1, <1>3 DEF HandlerInv, Creating
<1>4. CASE SendsOrder(g)
  <2>1. Tx(g)' = Tx(g)
    BY <1>4, OrderType DEF SendsOrder, OrdersStay, Tx
  <2>2. SendsOrder(g)'
    <3>1. handler[g].pc \in {"book", "commit"} =>
            /\ chain'[handler[g].tx].final
            /\ handler[g].mutation # "convert" => Landed(handler[g].tx)'
      BY <1>4 DEF SendsOrder, OrdersStay
    <3> QED BY <1>1, <1>4, <2>1, <3>1 DEF SendsOrder, Busy
  <2> QED BY <2>2 DEF HandlerInv
<1> QED BY <1>2, <1>3, <1>4 DEF HandlerInv

LEMMA OnceStays ==
  ASSUME NEW g \in Handlers, HandlerInv(g), OnceInv(g), OrdersStay, handler'[g] = handler[g],
         credited' = credited, \A u \in Users : docs'[u].tCIFARM = docs[u].tCIFARM,
         docs'[Vault] = docs[Vault]
  PROVE  OnceInv(g)'
<1>1. Seen(g)' = Seen(g) /\ Caller(g)' = Caller(g)
  BY DEF Seen, Caller
<1>2. CASE Sending(g)
  <2>1. Tx(g)' = Tx(g) /\ Caller(g) \in Users
    BY <1>2, OrderType DEF HandlerInv, Idle, Creating, SendsOrder, OrdersStay, Tx, Sending
  <2> QED BY <1>1, <2>1 DEF OnceInv, Busy
<1>3. CASE ~Sending(g)
  BY <1>1, <1>3 DEF OnceInv, Sending, Busy
<1> QED BY <1>2, <1>3

LEMMA LocksStep ==
  ASSUME LockInv, NEW h \in Handlers, \A g \in Handlers \ {h} : handler'[g] = handler[g],
         \A key \in Locks(h)' : key \in Locks(h) \/ ~Locked(key, h),
         \A g \in Handlers, key \in Keys \ Inventories :
           key \in Locks(g)' => docs'[key] = Seen(g)'[key]
  PROVE  LockInv'
<1>1. \A g \in Handlers \ {h} : Locks(g)' = Locks(g)
  BY DEF Locks, Busy
<1>2. \A g \in Handlers \ {h} : \A key \in Locks(g) : Locked(key, h)
  BY DEF Locks, Locked, Busy
<1>3. ASSUME NEW g \in Handlers, NEW k \in Handlers, g # k
      PROVE  (Locks(g) \cap Locks(k) = {})'
  BY <1>1, <1>2, <1>3 DEF LockInv
<1> QED BY <1>3 DEF LockInv

\* What a transaction called by a user adds to the vault.
Share(p) == IF prepared[p[1]] = NoTx THEN 0 ELSE credited[p] * TokensOf(prepared[p[1]])

LEMMA LedgerStays ==
  ASSUME ChainInv, ChainInv', VaultLedger, OrdersStay, credited' = credited,
         docs'[Vault] = docs[Vault]
  PROVE  VaultLedger'
<1>1. ASSUME NEW p \in Txs \X Users PROVE Share(p)' = Share(p)
  <2>1. PICK t \in Txs, u \in Users : p = <<t, u>>
    OBVIOUS
  <2>2. CASE prepared[t] = NoTx
    <3>1. credited[p] = 0
      BY <2>1, <2>2 DEF ChainInv, Landed
    <3>2. prepared'[t] # NoTx => TokensOf(prepared'[t]) \in Int
      BY TokensType DEF ChainInv
    <3>3. p[1] = t
      BY <2>1
    <3> HIDE <2>1
    <3> QED BY <2>2, <3>1, <3>2, <3>3 DEF Share
  <2>3. CASE prepared[t] # NoTx
    <3>1. prepared'[p[1]] = prepared[p[1]]
      BY <2>1, <2>3 DEF OrdersStay
    <3> QED BY <3>1 DEF Share
  <2> QED BY <2>2, <2>3
<1>2. [p \in Txs \X Users |-> Share(p)]' = [p \in Txs \X Users |-> Share(p)]
  BY <1>1
<1>3. Spoilt' = Spoilt
  <2>1. ASSUME NEW t \in Txs, NEW u \in Users, credited[<<t, u>>] > 0
        PROVE  prepared'[t] = prepared[t]
    <3>1. credited[<<t, u>>] # 0
      BY <2>1 DEF ChainInv
    <3> QED BY <3>1 DEF ChainInv, Landed, OrdersStay
  <2> QED BY <2>1 DEF Spoilt
<1>4. VaultLedger <=> docs[Vault].tokenLocked =
                        IF Spoilt THEN NaN
                                  ELSE StartDocs[Vault].tokenLocked
                                         + SumFunction([p \in Txs \X Users |-> Share(p)])
  BY DEF VaultLedger, Share
<1>5. VaultLedger' <=> docs'[Vault].tokenLocked =
                         IF Spoilt' THEN NaN
                                    ELSE StartDocs[Vault].tokenLocked
                                           + SumFunction([p \in Txs \X Users |-> Share(p)]')
  BY DEF VaultLedger, Share
<1> QED BY <1>2, <1>3, <1>4, <1>5

\* What happens to a transaction on the chain.
LEMMA OnChainStep ==
  ASSUME NEW c \in OnChain
  PROVE  /\ [c EXCEPT !.submitted = TRUE] \in OnChain
         /\ [c EXCEPT !.landed = @ + 1] \in OnChain
         /\ [c EXCEPT !.landed = @ + 1, !.failed = TRUE] \in OnChain
         /\ [c EXCEPT !.final = TRUE] \in OnChain
<1>1. ASSUME NEW d, d = [x \in DOMAIN d |-> d[x]],
             DOMAIN d = {"submitted", "landed", "failed", "final"},
             d.submitted \in BOOLEAN, d.landed \in Nat, d.failed \in BOOLEAN,
             d.final \in BOOLEAN
      PROVE  d \in OnChain
  BY <1>1 DEF OnChain
<1>2. [c EXCEPT !.submitted = TRUE] \in OnChain
  <2> DEFINE d == [c EXCEPT !.submitted = TRUE]
  <2>1. /\ d = [x \in DOMAIN d |-> d[x]]
        /\ DOMAIN d = {"submitted", "landed", "failed", "final"}
        /\ d.submitted \in BOOLEAN /\ d.landed \in Nat /\ d.failed \in BOOLEAN
        /\ d.final \in BOOLEAN
    BY DEF OnChain
  <2> HIDE DEF d
  <2> QED BY <1>1, <2>1 DEF d
<1>3. [c EXCEPT !.landed = @ + 1] \in OnChain
  <2> DEFINE d == [c EXCEPT !.landed = @ + 1]
  <2>1. /\ d = [x \in DOMAIN d |-> d[x]]
        /\ DOMAIN d = {"submitted", "landed", "failed", "final"}
        /\ d.submitted \in BOOLEAN /\ d.landed \in Nat /\ d.failed \in BOOLEAN
        /\ d.final \in BOOLEAN
    BY DEF OnChain
  <2> HIDE DEF d
  <2> QED BY <1>1, <2>1 DEF d
<1>4. [c EXCEPT !.landed = @ + 1, !.failed = TRUE] \in OnChain
  <2> DEFINE b == [c EXCEPT !.landed = @ + 1]
             d == [b EXCEPT !.failed = TRUE]
  <2>1. b \in OnChain
    BY <1>3
  <2>2. [c EXCEPT !.landed = @ + 1, !.failed = TRUE] = d
    OBVIOUS
  <2> HIDE DEF b
  <2>3. d \in OnChain
    BY <2>1 DEF OnChain
  <2> QED BY <2>2, <2>3
<1>5. [c EXCEPT !.final = TRUE] \in OnChain
  <2> DEFINE d == [c EXCEPT !.final = TRUE]
  <2>1. /\ d = [x \in DOMAIN d |-> d[x]]
        /\ DOMAIN d = {"submitted", "landed", "failed", "final"}
        /\ d.submitted \in BOOLEAN /\ d.landed \in Nat /\ d.failed \in BOOLEAN
        /\ d.final \in BOOLEAN
    BY DEF OnChain
  <2> HIDE DEF d
  <2> QED BY <1>1, <2>1 DEF d
<1> QED BY <1>2, <1>3, <1>4, <1>5

\* A step of one handler that touches neither documents nor what was committed.
LEMMA HandlerMoves ==
  ASSUME PurchasesInv, NEW h \in Handlers, ChainInv', OrdersStay,
         docs' = docs, credited' = credited,
         handler' = [handler EXCEPT ![h] = handler'[h]],
         HandlerInv(h)', OnceInv(h)',
         \A key \in Locks(h)' : key \in Locks(h) \/ ~Locked(key, h),
         \A key \in Keys \ Inventories : key \in Locks(h)' => docs[key] = Seen(h)'[key]
  PROVE  PurchasesInv'
<1>1. \A g \in Handlers \ {h} : handler'[g] = handler[g]
  BY DEF PurchasesInv
<1>2. ASSUME NEW g \in Handlers PROVE HandlerInv(g)' /\ OnceInv(g)'
  BY <1>1, HandlerStays, OnceStays DEF PurchasesInv
<1>3. LockInv'
  <2>1. ASSUME NEW g \in Handlers \ {h}, NEW key \in Keys \ Inventories, key \in Locks(g)'
        PROVE  docs'[key] = Seen(g)'[key]
    BY <1>1, <2>1 DEF PurchasesInv, LockInv, Locks, Busy, Seen
  <2> QED BY <1>1, <2>1, LocksStep DEF PurchasesInv
<1>4. VaultLedger'
  BY LedgerStays DEF PurchasesInv
<1>5. (handler = [g \in Handlers |-> handler[g]])'
  BY DEF PurchasesInv
<1> QED BY <1>2, <1>3, <1>4, <1>5 DEF PurchasesInv

LEMMA InitInv == Init => PurchasesInv
<1> SUFFICES ASSUME Init PROVE PurchasesInv
  OBVIOUS
<1>1. Documents(docs) /\ Itemized(docs)
  BY StartDocsAssumption DEF Init
<1>2. ChainInv
  <2>1. \A t \in Txs, u \in Users : credited[<<t, u>>] = 0
    BY DEF Init
  <2> QED BY <2>1 DEF Init, ChainInv, Landed, OnChain
<1>3. /\ handler = [h \in Handlers |-> handler[h]]
      /\ \A h \in Handlers : handler[h] = Idle
  BY DEF Init
<1>4. \A h \in Handlers : HandlerInv(h) /\ OnceInv(h)
  BY <1>3 DEF HandlerInv, OnceInv, Idle, Busy
<1>5. LockInv
  BY <1>3 DEF LockInv, Locks, Idle, Busy
<1>6. VaultLedger
  <2> DEFINE f == [p \in Txs \X Users |-> IF prepared[p[1]] = NoTx
                     THEN 0 ELSE credited[p] * TokensOf(prepared[p[1]])]
  <2>1. f = [p \in Txs \X Users |-> 0]
    BY DEF Init
  <2>2. SumFunction(f) = 0
    BY <2>1, SumZero, FS_Product, PurchasesAssumption
  <2>3. StartDocs[Vault].tokenLocked \in Int
    BY StartDocsAssumption DEF Documents
  <2>4. ~Spoilt
    BY DEF Init, Spoilt
  <2> HIDE DEF f
  <2>5. StartDocs[Vault].tokenLocked = StartDocs[Vault].tokenLocked + SumFunction(f)
    BY <2>2, <2>3
  <2> QED BY <2>4, <2>5 DEF f, Init, VaultLedger
<1> QED BY <1>1, <1>2, <1>3, <1>4, <1>5, <1>6 DEF PurchasesInv

LEMMA OpenCreateStep ==
  ASSUME PurchasesInv, NEW h \in Handlers, OpenCreate(h) PROVE PurchasesInv'
<1>1. /\ handler'[h] = [pc |-> "create", seen |-> docs, new |-> <<>>]
      /\ handler' = [handler EXCEPT ![h] = handler'[h]]
      /\ docs' = docs /\ credited' = credited /\ prepared' = prepared /\ chain' = chain
  BY DEF OpenCreate, PurchasesInv
<1>2. ChainInv' /\ OrdersStay
  BY DEF OpenCreate, PurchasesInv, ChainInv, Landed, OrdersStay
<1>3. HandlerInv(h)'
  BY <1>1 DEF PurchasesInv, HandlerInv, Creating, Seen
<1>4. OnceInv(h)'
  <2>1. \A u \in Users : docs[u].tCIFARM \in Nat
    BY DEF PurchasesInv, Documents, UserDocuments
  <2> QED BY <1>1, <2>1 DEF OnceInv, Seen, Busy
<1>5. Locks(h)' = {}
  BY <1>1 DEF Locks, Busy
<1> QED BY <1>1, <1>2, <1>3, <1>4, <1>5, HandlerMoves

LEMMA FailStep ==
  ASSUME PurchasesInv, NEW h \in Handlers, Fail(h) PROVE PurchasesInv'
<1>1. /\ handler'[h] = Idle
      /\ handler' = [handler EXCEPT ![h] = handler'[h]]
      /\ docs' = docs /\ credited' = credited /\ prepared' = prepared /\ chain' = chain
  BY DEF Fail, PurchasesInv
<1>2. ChainInv' /\ OrdersStay
  BY DEF Fail, PurchasesInv, ChainInv, Landed, OrdersStay
<1>3. HandlerInv(h)' /\ OnceInv(h)' /\ Locks(h)' = {}
  BY <1>1 DEF HandlerInv, OnceInv, Locks, Busy, Idle
<1> QED BY <1>1, <1>2, <1>3, HandlerMoves

LEMMA BeginStep ==
  ASSUME PurchasesInv, NEW h \in Handlers, NEW t \in Txs, NEW u \in Users, NEW mutation,
         Begin(h, t, u, mutation)
  PROVE  PurchasesInv'
<1>1. PICK pc \in {"send", "write"} :
        /\ pc = IF mutation \in {"ship", "convert"} THEN "send" ELSE "write"
        /\ handler'[h] = [pc |-> pc, tx |-> t, user |-> u, mutation |-> mutation,
                          seen |-> docs, new |-> <<>>]
        /\ handler' = [handler EXCEPT ![h] = handler'[h]]
        /\ docs' = docs /\ credited' = credited /\ prepared' = prepared /\ chain' = chain
        /\ prepared[t] # NoTx
  BY DEF Begin, PurchasesInv
<1>2. ChainInv' /\ OrdersStay
  BY DEF Begin, PurchasesInv, ChainInv, Landed, OrdersStay
<1>3. prepared[t] \in Orders /\ Tx(h)' = prepared[t] /\ Seen(h)' = docs /\ Caller(h)' = u
  BY <1>1, OrderType DEF PurchasesInv, ChainInv, Tx, Seen, Caller
<1>4. SendsOrder(h)'
  <2>1. CASE pc = "send"
    <3>1. HasWritten("send", mutation) => mutation = "convert"
      BY <1>1, <2>1 DEF HasWritten
    <3>2. mutation = "convert" => Written(mutation, prepared[t], u, docs, <<>>)
      BY DEF Written
    <3> QED BY <1>1, <1>3, <2>1, <3>1, <3>2
            DEF PurchasesInv, SendsOrder, Sending, Busy
  <2>2. CASE pc = "write"
    <3>1. ~HasWritten("write", mutation)
      BY DEF HasWritten
    <3> QED BY <1>1, <1>3, <2>2, <3>1 DEF PurchasesInv, SendsOrder, Sending, Busy
  <2> QED BY <2>1, <2>2
<1>5. OnceInv(h)'
  <2>1. \A v \in Users : docs[v].tCIFARM \in Nat
    BY DEF PurchasesInv, Documents, UserDocuments
  <2> QED BY <1>1, <1>3, <2>1 DEF OnceInv, Busy
<1>6. HandlerInv(h)' /\ Locks(h)' = {}
  BY <1>1, <1>4 DEF HandlerInv, Locks, Busy
<1> QED BY <1>1, <1>2, <1>5, <1>6, HandlerMoves

LEMMA SubmitStep ==
  ASSUME PurchasesInv, NEW h \in Handlers, Submit(h) PROVE PurchasesInv'
<1>1. SendsOrder(h)
  BY DEF PurchasesInv, HandlerInv, Submit, Busy, Idle, Creating
<1> DEFINE t == handler[h].tx
<1>2. /\ handler'[h] = [pc |-> "confirm", tx |-> t, user |-> Caller(h),
                       mutation |-> handler[h].mutation, seen |-> Seen(h),
                       new |-> handler[h].new]
      /\ handler' = [handler EXCEPT ![h] = handler'[h]]
      /\ docs' = docs /\ credited' = credited /\ prepared' = prepared
      /\ chain' = [chain EXCEPT ![t].submitted = TRUE]
      /\ ~chain[t].final /\ t \in Txs /\ Busy("send", h)
  BY <1>1 DEF Submit, PurchasesInv, SendsOrder
<1>3. /\ chain' \in [Txs -> OnChain]
      /\ \A r \in Txs : /\ chain'[r].landed = chain[r].landed
                        /\ chain'[r].final = chain[r].final
                        /\ r # t => chain'[r] = chain[r]
  <2>1. /\ chain \in [Txs -> OnChain]
        /\ chain' = [chain EXCEPT ![t] = [chain[t] EXCEPT !.submitted = TRUE]] /\ t \in Txs
    BY <1>2 DEF PurchasesInv, ChainInv
  <2> HIDE DEF t
  <2>2. chain[t] \in OnChain
    BY <2>1
  <2>3. [chain[t] EXCEPT !.submitted = TRUE] \in OnChain
    BY <2>2, OnChainStep
  <2>4. chain' \in [Txs -> OnChain]
    BY <2>1, <2>3
  <2>5. /\ chain'[t] = [chain[t] EXCEPT !.submitted = TRUE]
        /\ \A r \in Txs \ {t} : chain'[r] = chain[r]
    BY <2>1
  <2> QED BY <2>2, <2>4, <2>5 DEF OnChain
<1>4. prepared[t] # NoTx
  BY <1>1, OrderType DEF SendsOrder, Tx
<1>5. ChainInv' /\ OrdersStay
  BY <1>2, <1>3, <1>4 DEF Submit, PurchasesInv, ChainInv, Landed, OrdersStay
<1> HIDE DEF t
<1>6. Tx(h)' = Tx(h) /\ Seen(h)' = Seen(h) /\ Caller(h)' = Caller(h)
  BY <1>2 DEF Tx, Seen, Caller, t
<1>7. HasWritten("confirm", handler[h].mutation) = HasWritten("send", handler[h].mutation)
  BY DEF HasWritten
<1>8. HandlerInv(h)'
  <2>1. SendsOrder(h)'
    BY <1>1, <1>2, <1>6, <1>7 DEF SendsOrder, Sending, Busy, t
  <2> QED BY <2>1 DEF HandlerInv
<1>9. OnceInv(h)'
  <2>1. credited[<<t, Caller(h)>>] = 0
    BY <1>1, <1>2 DEF PurchasesInv, ChainInv, SendsOrder
  <2> QED BY <1>2, <1>6, <2>1 DEF PurchasesInv, OnceInv, Busy, t
<1>10. Locks(h)' = Locks(h)
  BY <1>2 DEF Locks, Busy
<1>11. \A key \in Keys \ Inventories : key \in Locks(h)' => docs[key] = Seen(h)'[key]
  BY <1>6, <1>10 DEF PurchasesInv, LockInv
<1> QED BY <1>2, <1>5, <1>8, <1>9, <1>10, <1>11, HandlerMoves

LEMMA ConfirmStep ==
  ASSUME PurchasesInv, NEW h \in Handlers, Confirm(h) PROVE PurchasesInv'
<1>1. SendsOrder(h)
  BY DEF PurchasesInv, HandlerInv, Confirm, Busy, Idle, Creating
<1> DEFINE t == handler[h].tx
<1>2. PICK pc \in {"book", "commit"} :
        /\ pc = IF handler[h].mutation = "ship" THEN "book" ELSE "commit"
        /\ handler'[h] = [pc |-> pc, tx |-> t, user |-> Caller(h),
                          mutation |-> handler[h].mutation, seen |-> Seen(h),
                          new |-> handler[h].new]
        /\ handler' = [handler EXCEPT ![h] = handler'[h]]
        /\ docs' = docs /\ credited' = credited /\ prepared' = prepared
        /\ chain' = [chain EXCEPT ![t].final = TRUE]
        /\ handler[h].mutation # "convert" => Landed(t)
        /\ t \in Txs /\ Busy("confirm", h)
  BY <1>1 DEF Confirm, Confirmed, PurchasesInv, SendsOrder
<1>3. /\ chain' \in [Txs -> OnChain]
      /\ \A r \in Txs : /\ chain'[r].landed = chain[r].landed
                        /\ chain'[r].submitted = chain[r].submitted
                        /\ r # t => chain'[r] = chain[r]
      /\ chain'[t].final
  <2>1. /\ chain \in [Txs -> OnChain]
        /\ chain' = [chain EXCEPT ![t] = [chain[t] EXCEPT !.final = TRUE]] /\ t \in Txs
    BY <1>2 DEF PurchasesInv, ChainInv
  <2> HIDE DEF t
  <2>2. chain[t] \in OnChain
    BY <2>1
  <2>3. [chain[t] EXCEPT !.final = TRUE] \in OnChain
    BY <2>2, OnChainStep
  <2>4. chain' \in [Txs -> OnChain]
    BY <2>1, <2>3
  <2>5. chain'[t] = [chain[t] EXCEPT !.final = TRUE] /\ \A r \in Txs \ {t} : chain'[r] = chain[r]
    BY <2>1
  <2> QED BY <2>2, <2>4, <2>5 DEF OnChain
<1>4. \A r \in Txs : Landed(r)' = Landed(r)
  BY <1>2, <1>3 DEF Landed
<1>5. ChainInv' /\ OrdersStay
  BY <1>2, <1>3, <1>4 DEF Confirm, PurchasesInv, ChainInv, OrdersStay
<1> HIDE DEF t
<1>6. Tx(h)' = Tx(h) /\ Seen(h)' = Seen(h) /\ Caller(h)' = Caller(h)
  BY <1>2 DEF Tx, Seen, Caller, t
<1>7. HasWritten(pc, handler[h].mutation) = HasWritten("confirm", handler[h].mutation)
  BY <1>2 DEF HasWritten
<1>8. HandlerInv(h)'
  <2>1. SendsOrder(h)'
    BY <1>1, <1>2, <1>3, <1>4, <1>6, <1>7 DEF SendsOrder, Sending, Busy, t
  <2> QED BY <2>1 DEF HandlerInv
<1>9. OnceInv(h)'
  BY <1>2, <1>6 DEF PurchasesInv, OnceInv, Busy, t
<1>10. Locks(h)' = Locks(h)
  BY <1>2 DEF Locks, Busy
<1>11. \A key \in Keys \ Inventories : key \in Locks(h)' => docs[key] = Seen(h)'[key]
  BY <1>6, <1>10 DEF PurchasesInv, LockInv
<1> QED BY <1>2, <1>5, <1>8, <1>9, <1>10, <1>11, HandlerMoves

LEMMA ExecuteStep ==
  ASSUME PurchasesInv, NEW t \in Txs, Execute(t) PROVE PurchasesInv'
<1>1. /\ chain \in [Txs -> OnChain]
      /\ \/ chain' = [chain EXCEPT ![t] = [chain[t] EXCEPT !.landed = @ + 1]]
         \/ chain' = [chain EXCEPT ![t] = [chain[t] EXCEPT !.landed = @ + 1, !.failed = TRUE]]
      /\ prepared' = prepared /\ credited' = credited /\ docs' = docs /\ handler' = handler
      /\ draws' = draws /\ bulkPaid' = bulkPaid
      /\ chain[t].submitted /\ ~Landed(t)
  BY DEF PurchasesInv, ChainInv, Execute
<1>2. /\ chain' \in [Txs -> OnChain]
      /\ \A r \in Txs \ {t} : chain'[r] = chain[r]
      /\ chain'[t].final = chain[t].final /\ chain'[t].submitted = chain[t].submitted
  <2>1. chain[t] \in OnChain
    BY <1>1
  <2>2. /\ [chain[t] EXCEPT !.landed = @ + 1] \in OnChain
        /\ [chain[t] EXCEPT !.landed = @ + 1, !.failed = TRUE] \in OnChain
    BY <2>1, OnChainStep
  <2>3. PICK c \in OnChain : /\ chain' = [chain EXCEPT ![t] = c]
                             /\ c.final = chain[t].final /\ c.submitted = chain[t].submitted
    <3>1. CASE chain' = [chain EXCEPT ![t] = [chain[t] EXCEPT !.landed = @ + 1]]
      BY <2>1, <2>2, <3>1 DEF OnChain
    <3>2. CASE chain' = [chain EXCEPT ![t] =
                           [chain[t] EXCEPT !.landed = @ + 1, !.failed = TRUE]]
      BY <2>1, <2>2, <3>2 DEF OnChain
    <3> QED BY <1>1, <3>1, <3>2
  <2> QED BY <1>1, <2>3
<1>3. prepared[t] # NoTx
  BY <1>1 DEF PurchasesInv, ChainInv
<1>4. ChainInv' /\ OrdersStay
  BY <1>1, <1>2, <1>3 DEF PurchasesInv, ChainInv, OrdersStay, Landed
<1>5. \A g \in Handlers : HandlerInv(g)' /\ OnceInv(g)'
  BY <1>1, <1>4, HandlerStays, OnceStays DEF PurchasesInv
<1>6. LockInv' /\ VaultLedger'
  BY <1>1, <1>4, LedgerStays DEF PurchasesInv, LockInv, Locks, Busy, Seen
<1> QED BY <1>1, <1>4, <1>5, <1>6 DEF PurchasesInv

\* The writes of a handler.
LEMMA HandlerWrites ==
  ASSUME PurchasesInv, NEW h \in Handlers, SendsOrder(h), NEW saved, NEW pc,
         Write(h, saved, pc)
  PROVE  /\ handler'[h] = [pc |-> pc, tx |-> handler[h].tx, user |-> Caller(h),
                           mutation |-> handler[h].mutation, seen |-> Seen(h),
                           new |-> Modified(Seen(h), saved)]
         /\ handler' = [handler EXCEPT ![h] = handler'[h]]
         /\ NoConflict(h, DOMAIN Modified(Seen(h), saved))
<1> DEFINE t == handler[h].tx
           new == Modified(Seen(h), saved)
<1>1. /\ NoConflict(h, DOMAIN new)
      /\ handler' = [handler EXCEPT ![h] = [@ EXCEPT !.pc = pc, !.new = new]]
  BY DEF Write
<1> HIDE DEF new
<1>2. /\ handler'[h] = [handler[h] EXCEPT !.pc = pc, !.new = new]
      /\ handler' = [handler EXCEPT ![h] = handler'[h]]
  BY <1>1 DEF PurchasesInv
<1>3. handler[h] = [pc |-> handler[h].pc, tx |-> t, user |-> Caller(h),
                    mutation |-> handler[h].mutation, seen |-> Seen(h),
                    new |-> handler[h].new]
  BY DEF SendsOrder
<1>4. handler'[h] = [pc |-> pc, tx |-> t, user |-> Caller(h),
                     mutation |-> handler[h].mutation, seen |-> Seen(h), new |-> new]
  <2> DEFINE old == handler[h]
             now == [old EXCEPT !.pc = pc, !.new = new]
  <2>1. /\ DOMAIN old = {"pc", "tx", "user", "mutation", "seen", "new"}
        /\ old.tx = t /\ old.user = Caller(h) /\ old.seen = Seen(h)
    BY <1>3 DEF t, Caller, Seen
  <2> HIDE DEF old
  <2>2. /\ now = [x \in DOMAIN now |-> now[x]]
        /\ DOMAIN now = {"pc", "tx", "user", "mutation", "seen", "new"}
        /\ now.pc = pc /\ now.tx = t /\ now.user = Caller(h)
        /\ now.mutation = old.mutation /\ now.seen = Seen(h) /\ now.new = new
    BY <2>1
  <2> HIDE DEF now
  <2>3. now = [pc |-> pc, tx |-> t, user |-> Caller(h), mutation |-> old.mutation,
               seen |-> Seen(h), new |-> new]
    BY <2>2
  <2> QED BY <1>2, <2>3 DEF now, old
<1> QED BY <1>1, <1>2, <1>4 DEF t, new

\* What comes before the chain: the handler reads nothing anew and writes its documents.
LEMMA WriteStep ==
  ASSUME PurchasesInv, NEW h \in Handlers, Busy("write", h), NEW saved,
         Written(handler[h].mutation, Tx(h), Caller(h), Seen(h), Modified(Seen(h), saved)),
         Write(h, saved, "send"),
         UNCHANGED <<docs, bulkPaid, draws, prepared, chain, nft, credited>>
  PROVE  PurchasesInv'
<1>1. SendsOrder(h)
  BY DEF PurchasesInv, HandlerInv, Busy, Idle, Creating
<1> DEFINE t == handler[h].tx
           new == Modified(Seen(h), saved)
<1>2. /\ handler'[h] = [pc |-> "send", tx |-> t, user |-> Caller(h),
                       mutation |-> handler[h].mutation, seen |-> Seen(h), new |-> new]
      /\ handler' = [handler EXCEPT ![h] = handler'[h]]
      /\ t \in Txs /\ NoConflict(h, DOMAIN new)
  BY <1>1, HandlerWrites DEF SendsOrder
<1>3. ChainInv' /\ OrdersStay
  BY DEF PurchasesInv, ChainInv, Landed, OrdersStay
<1> HIDE DEF t, new
<1>4. Tx(h)' = Tx(h) /\ Seen(h)' = Seen(h) /\ Caller(h)' = Caller(h)
  BY <1>2 DEF Tx, Seen, Caller, t
<1>5. handler[h].mutation \notin {"ship", "convert"} => HasWritten("send", handler[h].mutation)
  BY DEF HasWritten
<1>6. HandlerInv(h)'
  <2>1. Written(handler[h].mutation, Tx(h), Caller(h), Seen(h), new)
    BY DEF new
  <2>2. SendsOrder(h)'
    BY <1>1, <1>2, <1>4, <1>5, <2>1 DEF SendsOrder, Sending, Busy, t
  <2> QED BY <2>2 DEF HandlerInv
<1>7. OnceInv(h)'
  <2>1. handler'[h].pc = "send" /\ docs' = docs
    BY <1>2
  <2> QED BY <1>4, <2>1 DEF PurchasesInv, OnceInv, Busy
<1>8. Locks(h)' = DOMAIN new
  BY <1>2 DEF Locks, Busy
<1> QED BY <1>2, <1>3, <1>4, <1>6, <1>7, <1>8, HandlerMoves DEF NoConflict

LEMMA WritesStep ==
  ASSUME PurchasesInv, NEW h \in Handlers,
         BuyGolds(h) \/ BuyEnergy(h) \/ ExpandLand(h) \/ PurchaseBoxes(h) \/ Wrap(h) \/ Unwrap(h)
  PROVE  PurchasesInv'
<1> DEFINE Writing(saved) ==
             Written(handler[h].mutation, Tx(h), Caller(h), Seen(h), Modified(Seen(h), saved))
<1>1. CASE BuyGolds(h)
  <2>1. Writing(GoldsBought(Tx(h), Caller(h), Seen(h)))
    BY <1>1 DEF BuyGolds, Writes, Written
  <2> QED BY <1>1, <2>1, WriteStep DEF BuyGolds, Writes
<1>2. CASE BuyEnergy(h)
  <2>1. Writing(EnergyBought(Tx(h), Caller(h), Seen(h)))
    BY <1>2 DEF BuyEnergy, Writes, Written
  <2> QED BY <1>2, <2>1, WriteStep DEF BuyEnergy, Writes
<1>3. CASE ExpandLand(h)
  <2>1. Writing(LandBought(Tx(h), Caller(h), Seen(h)))
    BY <1>3 DEF ExpandLand, Writes, Written
  <2> QED BY <1>3, <2>1, WriteStep DEF ExpandLand, Writes
<1>4. CASE PurchaseBoxes(h)
  <2>1. Writing(BoxesBought(Tx(h), Caller(h), Seen(h)))
    BY <1>4 DEF PurchaseBoxes, Writes, Written
  <2> QED BY <1>4, <2>1, WriteStep DEF PurchaseBoxes, Writes
<1>5. CASE Wrap(h)
  <2>1. PICK i \in Items :
          Seen(h)[i] = Free /\ Write(h, Wrapped(Tx(h), Caller(h), Seen(h), i), "send")
    BY <1>5 DEF Wrap
  <2>2. Writing(Wrapped(Tx(h), Caller(h), Seen(h), i))
    BY <1>5, <2>1 DEF Wrap, Writes, Written
  <2> QED BY <1>5, <2>1, <2>2, WriteStep DEF Wrap, Writes
<1>6. CASE Unwrap(h)
  <2>1. PICK i \in ItemsOf(Seen(h), Tx(h).meta) : Write(h, Unwrapped(Tx(h), i), "send")
    BY <1>6 DEF Unwrap
  <2>2. Writing(Unwrapped(Tx(h), i))
    BY <1>6, <2>1 DEF Unwrap, Writes, Written
  <2> QED BY <1>6, <2>1, <2>2, WriteStep DEF Unwrap, Writes
<1> QED BY <1>1, <1>2, <1>3, <1>4, <1>5, <1>6

LEMMA SellStep ==
  ASSUME PurchasesInv, Sell PROVE PurchasesInv'
<1>1. PICK i \in Items :
        /\ \A h \in Handlers : i \notin Locks(h)
        /\ docs' = [docs EXCEPT ![i] = Free]
        /\ prepared' = prepared /\ credited' = credited /\ chain' = chain
        /\ handler' = handler /\ draws' = draws /\ bulkPaid' = bulkPaid
  BY DEF Sell
<1>2. /\ i \notin Users \cup {Vault} \cup Metas
      /\ \A key \in Users \cup {Vault} \cup Metas \cup Items : key \in Keys
  BY KeysAssumption DEF Keys
<1>3. /\ docs'[i] = Free /\ \A key \in Keys \ {i} : docs'[key] = docs[key]
      /\ (docs = [key \in Keys |-> docs[key]])'
  BY <1>1, <1>2 DEF PurchasesInv, Documents
<1>4. Documents(docs)'
  BY <1>2, <1>3 DEF PurchasesInv, Documents
<1>5. Itemized(docs)'
  <2>1. \A k \in Items : docs[k] # Free => docs[k].meta \in Metas
    BY DEF PurchasesInv, Documents, ItemDocuments
  <2> QED BY <1>2, <1>3, <2>1 DEF PurchasesInv, Itemized, ItemsOf
<1>6. ChainInv' /\ OrdersStay
  BY <1>1 DEF PurchasesInv, ChainInv, Landed, OrdersStay
<1>7. \A g \in Handlers : HandlerInv(g)' /\ OnceInv(g)'
  BY <1>1, <1>2, <1>3, <1>6, HandlerStays, OnceStays DEF PurchasesInv
<1>8. LockInv'
  BY <1>1, <1>3 DEF PurchasesInv, LockInv, Locks, Busy, Seen
<1>9. VaultLedger'
  BY <1>1, <1>2, <1>3, <1>6, LedgerStays DEF PurchasesInv
<1> QED BY <1>1, <1>4, <1>5, <1>6, <1>7, <1>8, <1>9 DEF PurchasesInv

-----------------------------------------------------------------------------
(***************************************************************************)
(* Steps that write documents                                              *)
(***************************************************************************)

LEMMA StacksDoNotMatter ==
  ASSUME NEW cur, Documents(cur), Itemized(cur), NEW after, after = [key \in Keys |-> after[key]],
         \A key \in Keys \ Inventories : after[key] = cur[key]
  PROVE  Documents(after) /\ Itemized(after)
<1>1. \A key \in Users \cup {Vault} \cup Metas \cup Items : key \in Keys /\ key \notin Inventories
  BY KeysAssumption DEF Keys
<1>2. Documents(after)
  BY <1>1 DEF Documents
<1>3. \A i \in Items : cur[i] # Free => cur[i].meta \in Metas
  BY DEF Documents, ItemDocuments
<1>4. \A m \in Metas : ItemsOf(after, m) = ItemsOf(cur, m)
  BY <1>1 DEF ItemsOf
<1>5. Itemized(after)
  BY <1>1, <1>3, <1>4 DEF Itemized
<1> QED BY <1>2, <1>5

LEMMA ShipStep ==
  ASSUME PurchasesInv, NEW h \in Handlers, Ship(h) PROVE PurchasesInv'
<1>1. SendsOrder(h) /\ Busy("book", h)
  BY DEF PurchasesInv, HandlerInv, Ship, Busy, Idle, Creating
<1> DEFINE t == handler[h].tx
           u == Caller(h)
           new == Modified(Seen(h), BulkShipped(Tx(h), u, Seen(h)))
           gone == UNION {Removed(Seen(h), u, product) : product \in DOMAIN Bulk}
<1>2. /\ handler'[h] = [pc |-> "commit", tx |-> t, user |-> u,
                       mutation |-> handler[h].mutation, seen |-> Seen(h), new |-> new]
      /\ handler' = [handler EXCEPT ![h] = handler'[h]]
      /\ NoConflict(h, DOMAIN new)
      /\ t \in Txs /\ Tx(h) \in Orders /\ Tx(h).kind = "ship" /\ u \in Users
      /\ handler[h].mutation = "ship" /\ Documents(Seen(h)) /\ chain[t].final /\ Landed(t)
  BY <1>1, HandlerWrites DEF Ship, SendsOrder, Busy
<1>3. /\ gone \subseteq Inventories /\ \A s \in gone : ~Locked(s, h)
      /\ docs' = [key \in Keys |-> IF key \in gone THEN Free ELSE docs[key]]
  BY DEF Ship, Removed
<1>4. NoConflict(h, DOMAIN new)
  BY <1>2
<1>5. Written("ship", Tx(h), u, Seen(h), new)
  BY <1>2 DEF Written
<1>6. DOMAIN new # {} => u \in DOMAIN new
  <2> HIDE DEF new, u, t
  <2> QED BY <1>2, <1>5, WrittenKey
<1> HIDE DEF t, u, new, gone
<1>7. \A key \in Keys \ Inventories : docs'[key] = docs[key]
  BY <1>3
<1>8. Documents(docs)' /\ Itemized(docs)'
  <2>1. docs' = [key \in Keys |-> docs'[key]]
    BY <1>3
  <2> QED BY <1>7, <2>1, StacksDoNotMatter DEF PurchasesInv
<1>9. /\ prepared' = prepared /\ chain' = chain /\ credited' = credited
      /\ ChainInv' /\ OrdersStay
  <2> DEFINE off == 100 - ((100 - bulkPaid.decrement) * (100 - DecrementPercentage)) \div 100
  <2>1. bulkPaid.count \in Nat /\ bulkPaid.decrement \in Int
    BY DEF PurchasesInv, ChainInv
  <2>2. (100 - bulkPaid.decrement) * (100 - DecrementPercentage) \in Int
    BY <2>1, PurchasesAssumption
  <2>3. \A n \in Int : 100 - n \div 100 \in Int
    OBVIOUS
  <2>4. off \in Int
    BY <2>2, <2>3
  <2> HIDE DEF off
  <2>5. bulkPaid' = [count |-> bulkPaid.count + 1, decrement |-> off]
    BY DEF Ship, off
  <2>6. bulkPaid' \in [count : Nat, decrement : Int]
    BY <2>1, <2>4, <2>5
  <2> QED BY <2>6 DEF Ship, PurchasesInv, ChainInv, Landed, OrdersStay
<1>10. Tx(h)' = Tx(h) /\ Seen(h)' = Seen(h) /\ Caller(h)' = Caller(h)
  BY <1>2, <1>9 DEF Tx, Seen, Caller, t, u
<1>11. \A g \in Handlers \ {h} : handler'[g] = handler[g]
  BY <1>2 DEF PurchasesInv
<1>12. \A v \in Users : docs'[v] = docs[v]
  BY <1>7, KeysAssumption DEF Keys
<1>13. docs'[Vault] = docs[Vault]
  BY <1>7, KeysAssumption DEF Keys
<1>14. DOMAIN new # {} => credited[<<t, u>>] = 0
  <2>1. DOMAIN new # {} => docs[u] = Seen(h)[u]
    BY <1>4, <1>6 DEF NoConflict
  <2>2. docs[u].tCIFARM \in Nat
    BY <1>2 DEF PurchasesInv, Documents, UserDocuments
  <2> QED BY <1>1, <1>2, <2>1, <2>2 DEF PurchasesInv, OnceInv, Busy, t, u
<1>15. ASSUME NEW g \in Handlers PROVE HandlerInv(g)' /\ OnceInv(g)'
  <2>1. CASE g # h
    BY <1>9, <1>11, <1>12, <1>13, <2>1, HandlerStays, OnceStays DEF PurchasesInv
  <2>2. CASE g = h
    <3>1. HasWritten("commit", "ship")
      BY DEF HasWritten
    <3>2. SendsOrder(h)'
      <4>1. t' = t
        BY <1>2 DEF t
      <4>2. Landed(t)'
        BY <1>2, <1>9, <4>1 DEF Landed
      <4> QED BY <1>1, <1>2, <1>5, <1>9, <1>10, <3>1, <4>2 DEF SendsOrder, Sending, Busy, t, u
    <3>3. OnceInv(h)'
      BY <1>1, <1>2, <1>9, <1>10, <1>12, <1>13, <1>14 DEF PurchasesInv, OnceInv, Busy, t, u
    <3> QED BY <2>2, <3>2, <3>3 DEF HandlerInv
  <2> QED BY <2>1, <2>2
<1>16. LockInv'
  <2>1. \A g \in Handlers \ {h} : Locks(g)' = Locks(g) /\ Seen(g)' = Seen(g)
    BY <1>11 DEF Locks, Busy, Seen
  <2>2. Locks(h)' = DOMAIN new
    BY <1>2 DEF Locks, Busy
  <2>3. ASSUME NEW g \in Handlers, NEW key \in Keys \ Inventories, key \in Locks(g)'
        PROVE  docs'[key] = Seen(g)'[key]
    BY <1>4, <1>7, <1>10, <2>1, <2>2, <2>3 DEF PurchasesInv, LockInv, NoConflict
  <2> QED BY <1>4, <1>11, <2>2, <2>3, LocksStep DEF PurchasesInv, NoConflict
<1>17. VaultLedger'
  BY <1>9, <1>13, LedgerStays DEF PurchasesInv
<1>18. (handler = [g \in Handlers |-> handler[g]])'
  BY <1>2 DEF PurchasesInv
<1> QED BY <1>8, <1>9, <1>15, <1>16, <1>17, <1>18 DEF PurchasesInv

\* What a create-... does: an order for the cache, or for Sui none, and a draft.
Drafts(h, new) ==
  /\ Busy("create", h)
  /\ NoConflict(h, DOMAIN new)
  /\ Drafted(Seen(h), new)
  /\ docs' = Saved(docs, new)
  /\ handler' = [handler EXCEPT ![h] = Idle]
  /\ draws' \in Nat
  /\ UNCHANGED <<bulkPaid, chain, nft, credited>>

LEMMA DraftsKeep ==
  ASSUME PurchasesInv, NEW h \in Handlers, NEW new, Drafts(h, new)
  PROVE  /\ Documents(docs)' /\ Itemized(docs)' /\ docs'[Vault] = docs[Vault]
         /\ \A u \in Users :
              /\ docs'[u].golds = docs[u].golds /\ docs'[u].tCIFARM = docs[u].tCIFARM
              /\ docs[u].nftBoxVector # NoVector =>
                   docs'[u].nftBoxVector = docs[u].nftBoxVector
<1>1. Documents(Seen(h))
  BY DEF PurchasesInv, HandlerInv, Drafts, Busy, Idle, Creating, SendsOrder, Sending
<1> QED BY <1>1, CommitOfDraft DEF PurchasesInv, Drafts, NoConflict

LEMMA DraftStep ==
  ASSUME PurchasesInv, NEW h \in Handlers, NEW new, Drafts(h, new),
         \/ prepared' = prepared
         \/ \E t \in Txs, order \in Orders :
              prepared[t] = NoTx /\ prepared' = [prepared EXCEPT ![t] = order]
  PROVE  PurchasesInv'
<1>1. /\ handler'[h] = Idle /\ \A g \in Handlers \ {h} : handler'[g] = handler[g]
      /\ chain' = chain /\ credited' = credited
  BY DEF Drafts, PurchasesInv
<1>2. ChainInv' /\ OrdersStay
  <2>1. CASE prepared' = prepared
    BY <2>1 DEF Drafts, PurchasesInv, ChainInv, Landed, OrdersStay
  <2>2. ASSUME NEW t \in Txs, NEW order \in Orders, prepared[t] = NoTx,
               prepared' = [prepared EXCEPT ![t] = order]
        PROVE  ChainInv' /\ OrdersStay
    <3>1. /\ prepared' \in [Txs -> Orders \cup {NoTx}] /\ prepared'[t] = order
          /\ \A r \in Txs \ {t} : prepared'[r] = prepared[r]
      BY <2>2 DEF PurchasesInv, ChainInv
    <3>2. \A u \in Users : credited[<<t, u>>] = 0
      BY <2>2 DEF PurchasesInv, ChainInv, Landed
    <3>3. \A r \in Txs \ {t} : Landed(r)' = Landed(r)
      BY <1>1, <3>1 DEF Landed
    <3>4. order # NoTx
      BY OrderType
    <3>5. ~Landed(t)
      BY <2>2 DEF Landed
    <3> QED BY <1>1, <2>2, <3>1, <3>2, <3>3, <3>4, <3>5
            DEF Drafts, PurchasesInv, ChainInv, OrdersStay
  <2> QED BY <2>1, <2>2
<1>3. ASSUME NEW g \in Handlers PROVE HandlerInv(g)' /\ OnceInv(g)'
  <2>1. CASE g # h
    BY <1>1, <1>2, <2>1, DraftsKeep, HandlerStays, OnceStays DEF PurchasesInv
  <2>2. CASE g = h
    BY <1>1, <2>2 DEF HandlerInv, OnceInv, Busy, Idle
  <2> QED BY <2>1, <2>2
<1>4. LockInv'
  <2>1. \A g \in Handlers \ {h} : Locks(g)' = Locks(g) /\ Seen(g)' = Seen(g)
    BY <1>1 DEF Locks, Busy, Seen
  <2>2. Locks(h)' = {}
    BY <1>1 DEF Locks, Busy, Idle
  <2>3. ASSUME NEW g \in Handlers, NEW key \in Keys \ Inventories, key \in Locks(g)'
        PROVE  docs'[key] = Seen(g)'[key]
    <3>1. g # h /\ key \in Locks(g)
      BY <2>1, <2>2, <2>3
    <3>2. key \notin DOMAIN new
      BY <3>1 DEF Drafts, NoConflict, Locked
    <3>3. docs'[key] = docs[key]
      BY <3>2 DEF Drafts, Saved
    <3> QED BY <2>1, <3>1, <3>3 DEF PurchasesInv, LockInv
  <2> QED BY <1>1, <2>2, <2>3, LocksStep DEF PurchasesInv
<1>5. VaultLedger'
  BY <1>1, <1>2, DraftsKeep, LedgerStays DEF PurchasesInv
<1>6. (handler = [g \in Handlers |-> handler[g]])'
  BY DEF Drafts, PurchasesInv
<1> QED BY <1>2, <1>3, <1>4, <1>5, <1>6, DraftsKeep DEF PurchasesInv

Preparing(h, t) ==
  \/ PrepareGolds(h, t) \/ PrepareEnergy(h, t) \/ PrepareLand(h, t) \/ PrepareBoxes(h, t)
  \/ PrepareShip(h, t) \/ PrepareWrap(h, t) \/ PrepareUnwrap(h, t) \/ PrepareConvert(h, t)

LEMMA VectorsDrawn ==
  ASSUME PurchasesInv, NEW h \in Handlers, Busy("create", h), NEW u \in Users, DrawsFor(h, u)
  PROVE  /\ VectorFor(Seen(h)[u]) \in Nat /\ draws' \in Nat
         /\ Drafted(Seen(h), Drawn(h, u))
<1>1. Documents(Seen(h)) /\ draws \in Nat
  BY DEF PurchasesInv, ChainInv, HandlerInv, Busy, Idle, Creating, SendsOrder, Sending
<1>2. Seen(h)[u].nftBoxVector \in Nat \cup {NoVector}
  BY <1>1 DEF Documents, UserDocuments
<1> DEFINE vector == VectorFor(Seen(h)[u])
<1>3. vector \in Nat /\ draws' \in Nat
  BY <1>1, <1>2 DEF VectorFor, DrawsFor
<1>4. CASE vector = Seen(h)[u].nftBoxVector
  BY <1>3, <1>4 DEF Drawn, Drafted
<1>5. CASE vector # Seen(h)[u].nftBoxVector
  <2>1. Seen(h)[u].nftBoxVector = NoVector
    BY <1>5 DEF VectorFor
  <2>2. Drawn(h, u) = [key \in {u} |-> [Seen(h)[key] EXCEPT !.nftBoxVector = vector]]
    BY <1>5 DEF Drawn
  <2> HIDE DEF vector
  <2> QED BY <1>3, <2>1, <2>2 DEF Drafted, vector
<1> QED BY <1>3, <1>4, <1>5

\* What is cached for a transaction is an order.
LEMMA OrdersPrepared ==
  ASSUME PurchasesInv, NEW h \in Handlers, NEW t \in Txs, Preparing(h, t)
  PROVE  \E order \in Orders : \E new : Prepare(h, t, order, new) /\ Drafts(h, new)
<1>1. ASSUME NEW order, NEW new, Prepare(h, t, order, new), Drafted(Seen(h), new), draws' \in Nat
      PROVE  Drafts(h, new)
  BY <1>1 DEF Prepare, Drafts
<1>2. draws \in Nat /\ (UNCHANGED draws => draws' \in Nat) /\ \A map : Drafted(map, <<>>)
  BY DEF PurchasesInv, ChainInv, Drafted
<1>3. CASE PrepareGolds(h, t)
  <2>1. PICK option \in DOMAIN GoldOptions :
          Prepare(h, t, [kind |-> "selection", index |-> option], <<>>)
    BY <1>3 DEF PrepareGolds
  <2>2. [kind |-> "selection", index |-> option] \in Orders
    BY DEF Orders
  <2> QED BY <1>1, <1>2, <1>3, <2>1, <2>2 DEF PrepareGolds
<1>4. CASE PrepareEnergy(h, t)
  <2>1. PICK option \in DOMAIN EnergyOptions :
          Prepare(h, t, [kind |-> "selection", index |-> option], <<>>)
    BY <1>4 DEF PrepareEnergy
  <2>2. [kind |-> "selection", index |-> option] \in Orders
    BY DEF Orders
  <2> QED BY <1>1, <1>2, <1>4, <2>1, <2>2 DEF PrepareEnergy
<1>5. CASE PrepareLand(h, t)
  <2>1. PICK index \in LandLimits :
          Prepare(h, t, [kind |-> "selection", index |-> index], <<>>)
    BY <1>5 DEF PrepareLand
  <2>2. [kind |-> "selection", index |-> index] \in Orders
    BY DEF Orders
  <2> QED BY <1>1, <1>2, <1>5, <2>1, <2>2 DEF PrepareLand
<1>6. CASE PrepareBoxes(h, t)
  <2>1. PICK u \in Users, quantity \in Quantities :
          /\ DrawsFor(h, u)
          /\ Prepare(h, t, [kind |-> "boxes", quantity |-> quantity], Drawn(h, u))
    BY <1>6 DEF PrepareBoxes
  <2>2. draws' \in Nat /\ Drafted(Seen(h), Drawn(h, u))
    BY <1>6, <2>1, VectorsDrawn DEF PrepareBoxes
  <2>3. [kind |-> "boxes", quantity |-> quantity] \in Orders
    BY DEF Orders
  <2> QED BY <1>1, <2>1, <2>2, <2>3
<1>7. CASE PrepareShip(h, t)
  <2>1. Prepare(h, t, [kind |-> "ship", amount |-> PaidAmount], <<>>)
    BY <1>7 DEF PrepareShip
  <2>2. PaidAmount \in Int
    <3>1. docs[Vault].tokenLocked \in Int /\ bulkPaid.decrement \in Int
      BY <1>7, KeysAssumption DEF PrepareShip, PurchasesInv, ChainInv, Documents
    <3>2. docs[Vault].tokenLocked * MaxPaidPercentage \in Int
      BY <3>1, PurchasesAssumption
    <3>3. \A n \in Int : n \div 100 \in Int
      OBVIOUS
    <3> DEFINE part == (docs[Vault].tokenLocked * MaxPaidPercentage) \div 100
               least == Lesser(part, MaxPaidAmount)
    <3>4. part \in Int
      BY <3>2, <3>3
    <3> HIDE DEF part
    <3>5. least \in Int
      BY <3>4, PurchasesAssumption DEF Lesser
    <3> HIDE DEF least
    <3>6. least * (100 - bulkPaid.decrement) \in Int
      BY <3>1, <3>5
    <3>7. PaidAmount = (least * (100 - bulkPaid.decrement)) \div 100
      BY DEF PaidAmount, least, part
    <3> QED BY <3>3, <3>6, <3>7
  <2>3. [kind |-> "ship", amount |-> PaidAmount] \in Orders
    BY <2>2 DEF Orders
  <2> QED BY <1>1, <1>2, <1>7, <2>1, <2>3 DEF PrepareShip
<1>8. CASE PrepareWrap(h, t)
  <2>1. PICK n \in NFTs, m \in Metas :
          \/ Prepare(h, t, [kind |-> "wrap", nft |-> n, meta |-> m], <<>>)
          \/ /\ Seen(h)[m] = Free
             /\ Prepare(h, t, [kind |-> "wrap", nft |-> n, meta |-> m],
                        [key \in {m} |-> [nft |-> n, validated |-> FALSE]])
    BY <1>8 DEF PrepareWrap, MetasOf
  <2>2. [kind |-> "wrap", nft |-> n, meta |-> m] \in Orders
    BY DEF Orders
  <2>3. Seen(h)[m] = Free =>
          Drafted(Seen(h), [key \in {m} |-> [nft |-> n, validated |-> FALSE]])
    BY DEF Drafted
  <2> QED BY <1>1, <1>2, <1>8, <2>1, <2>2, <2>3 DEF PrepareWrap
<1>9. CASE PrepareUnwrap(h, t)
  <2>1. PICK n \in NFTs, m \in Metas :
          Prepare(h, t, [kind |-> "unwrap", nft |-> n, meta |-> m], <<>>)
    BY <1>9 DEF PrepareUnwrap, MetasOf
  <2>2. [kind |-> "unwrap", nft |-> n, meta |-> m] \in Orders
    BY DEF Orders
  <2> QED BY <1>1, <1>2, <1>9, <2>1, <2>2 DEF PrepareUnwrap
<1>10. CASE PrepareConvert(h, t)
  <2>1. Prepare(h, t, [kind |-> "convert", nfts |-> NFTs], <<>>)
    BY <1>10 DEF PrepareConvert
  <2>2. [kind |-> "convert", nfts |-> NFTs] \in Orders
    BY DEF Orders
  <2> QED BY <1>1, <1>2, <1>10, <2>1, <2>2 DEF PrepareConvert
<1> QED BY <1>3, <1>4, <1>5, <1>6, <1>7, <1>8, <1>9, <1>10 DEF Preparing

LEMMA PreparingStep ==
  ASSUME PurchasesInv, NEW h \in Handlers, NEW t \in Txs, Preparing(h, t) PROVE PurchasesInv'
<1>0. PICK order \in Orders : \E new : Prepare(h, t, order, new) /\ Drafts(h, new)
  BY OrdersPrepared
<1>1. PICK new : Prepare(h, t, order, new) /\ Drafts(h, new)
  BY <1>0
<1> QED BY <1>1, DraftStep DEF Prepare

LEMMA SuiDrafts ==
  ASSUME PurchasesInv, NEW h \in Handlers, PrepareSuiBoxes(h)
  PROVE  prepared' = prepared /\ \E new : Drafts(h, new)
<1>1. PICK u \in Users : /\ DrawsFor(h, u) /\ NoConflict(h, DOMAIN Drawn(h, u))
                         /\ docs' = Saved(docs, Drawn(h, u))
  BY DEF PrepareSuiBoxes
<1>2. Busy("create", h) /\ prepared' = prepared
  BY DEF PrepareSuiBoxes
<1> QED BY <1>1, <1>2, VectorsDrawn DEF PrepareSuiBoxes, Drafts

\* A commit that writes adds to what is there, of an order that has landed and that its
\* caller has not got yet.
LEMMA CommitDelivers ==
  ASSUME PurchasesInv, NEW h \in Handlers, Commit(h)
  PROVE  LET t == handler[h].tx
             u == Caller(h)
             new == handler[h].new
             mutation == handler[h].mutation
         IN  /\ SendsOrder(h) /\ chain[t].final /\ docs' = Saved(docs, new)
             /\ Written(mutation, Tx(h), u, Seen(h), new)
             /\ \A key \in DOMAIN new \ Inventories : docs[key] = Seen(h)[key]
             /\ DOMAIN new # {} =>
                  /\ Landed(t) /\ credited[<<t, u>>] = 0
                  /\ credited' = [credited EXCEPT ![<<t, u>>] = 1]
             /\ DOMAIN new = {} => credited' = credited
             /\ \A v \in Users :
                  IF v \in DOMAIN new
                    THEN /\ v = u /\ mutation \notin {"wrap", "unwrap", "convert"}
                         /\ \/ /\ docs'[v].golds = docs[v].golds + Worth(Tx(h)).golds
                               /\ docs'[v].tCIFARM = docs[v].tCIFARM + Worth(Tx(h)).tCIFARM
                            \/ /\ mutation # "ship"
                               /\ docs'[v].golds = docs[v].golds
                               /\ docs'[v].tCIFARM = docs[v].tCIFARM
                         /\ IF mutation = "boxes"
                              THEN docs'[v].nftBoxVector = NoVector
                              ELSE docs'[v].nftBoxVector = docs[v].nftBoxVector
                    ELSE docs'[v] = docs[v]
<1>1. SendsOrder(h) /\ Busy("commit", h)
  BY DEF PurchasesInv, HandlerInv, Commit, Busy, Idle, Creating
<1> DEFINE t == handler[h].tx
           u == Caller(h)
           new == handler[h].new
           mutation == handler[h].mutation
<1>2. /\ t \in Txs /\ u \in Users /\ Tx(h) \in Orders /\ Documents(Seen(h))
      /\ chain[t].final /\ (mutation # "convert" => Landed(t))
  BY <1>1 DEF SendsOrder, Busy
<1>3. Written(mutation, Tx(h), u, Seen(h), new)
  BY <1>1 DEF SendsOrder, Busy, HasWritten
<1>4. DOMAIN new \subseteq Keys /\ DOMAIN new = Locks(h)
  BY <1>1, <1>2, <1>3, WrittenNFTs DEF Locks, Busy
<1>5. \A key \in DOMAIN new \ Inventories : docs[key] = Seen(h)[key]
  BY <1>4 DEF PurchasesInv, LockInv
<1>6. docs' = Saved(docs, new)
  BY DEF Commit
<1>7. ASSUME DOMAIN new # {}
      PROVE  /\ Landed(t) /\ credited[<<t, u>>] = 0
             /\ credited' = [credited EXCEPT ![<<t, u>>] = 1]
  <2>1. credited[<<t, u>>] = 0
    BY <1>1, <1>7 DEF PurchasesInv, OnceInv, Busy
  <2>2. mutation # "convert"
    BY <1>3, <1>7 DEF Written
  <2> QED BY <1>2, <1>7, <2>1, <2>2 DEF Commit
<1>8. DOMAIN new = {} => credited' = credited
  BY DEF Commit
<1> HIDE DEF t, u, new, mutation
<1>9. ASSUME NEW v \in Users
      PROVE  IF v \in DOMAIN new
               THEN /\ v = u /\ mutation \notin {"wrap", "unwrap", "convert"}
                    /\ \/ /\ docs'[v].golds = docs[v].golds + Worth(Tx(h)).golds
                          /\ docs'[v].tCIFARM = docs[v].tCIFARM + Worth(Tx(h)).tCIFARM
                       \/ /\ mutation # "ship"
                          /\ docs'[v].golds = docs[v].golds
                          /\ docs'[v].tCIFARM = docs[v].tCIFARM
                    /\ IF mutation = "boxes"
                         THEN docs'[v].nftBoxVector = NoVector
                         ELSE docs'[v].nftBoxVector = docs[v].nftBoxVector
               ELSE docs'[v] = docs[v]
  <2>1. v \in Keys \ Inventories
    BY KeysAssumption DEF Keys
  <2>2. docs'[v] = IF v \in DOMAIN new THEN new[v] ELSE docs[v]
    BY <1>6, <2>1 DEF Saved
  <2> QED BY <1>2, <1>3, <1>5, <2>1, <2>2, WrittenUsers
<1> QED BY <1>1, <1>2, <1>3, <1>5, <1>6, <1>7, <1>8, <1>9 DEF t, u, new, mutation

\* Two sends of one user with one transaction do not both hold what they write: an order
\* tells a document that each of them locks, and boxes on a vault that is no number and
\* on one that is do not meet.
LEMMA OneWriter ==
  ASSUME PurchasesInv, NEW g \in Handlers, NEW h \in Handlers, g # h,
         SendsOrder(g), SendsOrder(h), handler[g].tx = handler[h].tx, Caller(g) = Caller(h),
         HasWritten(handler[g].pc, handler[g].mutation), DOMAIN handler[g].new # {},
         HasWritten(handler[h].pc, handler[h].mutation), DOMAIN handler[h].new # {}
  PROVE  FALSE
<1> DEFINE order == Tx(h)
           u == Caller(h)
<1>1. /\ order \in Orders /\ u \in Users /\ Tx(g) = order /\ Caller(g) = u
      /\ Documents(Seen(g)) /\ Documents(Seen(h))
      /\ Written(handler[g].mutation, order, u, Seen(g), handler[g].new)
      /\ Written(handler[h].mutation, order, u, Seen(h), handler[h].new)
  BY DEF SendsOrder, Tx
<1> HIDE DEF order, u
<1>2. /\ ~Busy("idle", g) /\ ~Busy("idle", h)
      /\ Locks(g) = DOMAIN handler[g].new /\ Locks(h) = DOMAIN handler[h].new
  BY DEF SendsOrder, Sending, Locks, Busy
<1>3. \A key : ~(key \in DOMAIN handler[g].new /\ key \in DOMAIN handler[h].new)
  BY <1>2 DEF PurchasesInv, LockInv
<1>4. CASE order.kind \in {"selection", "ship"}
  BY <1>1, <1>3, <1>4, WrittenKey
<1>5. CASE order.kind \in {"wrap", "unwrap"}
  BY <1>1, <1>3, <1>5, WrittenKey
<1>6. CASE order.kind \in {"boxes", "convert"}
  <2> DEFINE Spoils(k) == Seen(k)[Vault].tokenLocked = NaN
  <2>1. \A k \in {g, h} : IF Spoils(k) THEN u \in DOMAIN handler[k].new
                                       ELSE Vault \in DOMAIN handler[k].new
    BY <1>1, <1>6, WrittenKey
  <2>2. \A k \in {g, h} : Vault \in DOMAIN handler[k].new => docs[Vault] = Seen(k)[Vault]
    BY <1>2, KeysAssumption DEF PurchasesInv, LockInv, Keys
  <2>3. \A k \in {g, h} : Spoils(k) => docs[Vault].tokenLocked = NaN
    BY <1>2 DEF PurchasesInv, OnceInv
  <2> QED BY <1>3, <2>1, <2>2, <2>3
<1> QED BY <1>1, <1>4, <1>5, <1>6, OrderType

LEMMA CommitStep ==
  ASSUME PurchasesInv, NEW h \in Handlers, Commit(h) PROVE PurchasesInv'
<1>0. SendsOrder(h)
  BY CommitDelivers
<1> PICK t \in Txs, u \in Users : t = handler[h].tx /\ u = Caller(h)
  BY <1>0 DEF SendsOrder
<1> DEFINE new == handler[h].new
           mutation == handler[h].mutation
           order == Tx(h)
<1>1. /\ SendsOrder(h) /\ chain[t].final /\ docs' = Saved(docs, new)
      /\ Written(mutation, order, u, Seen(h), new)
      /\ \A key \in DOMAIN new \ Inventories : docs[key] = Seen(h)[key]
      /\ DOMAIN new # {} =>
           /\ Landed(t) /\ credited[<<t, u>>] = 0
           /\ credited' = [credited EXCEPT ![<<t, u>>] = 1]
      /\ DOMAIN new = {} => credited' = credited
      /\ \A v \in Users :
           IF v \in DOMAIN new
             THEN \/ docs'[v].tCIFARM = docs[v].tCIFARM + Worth(order).tCIFARM
                  \/ mutation # "ship" /\ docs'[v].tCIFARM = docs[v].tCIFARM
             ELSE docs'[v] = docs[v]
  BY CommitDelivers
<1>2. /\ t \in Txs /\ u \in Users /\ order \in Orders /\ Documents(Seen(h))
      /\ prepared[t] = order /\ Worth(order).tCIFARM \in Nat
  BY <1>1, WorthType DEF SendsOrder, Tx
<1>3. /\ handler'[h] = Idle /\ \A g \in Handlers \ {h} : handler'[g] = handler[g]
      /\ chain' = chain /\ prepared' = prepared /\ draws' = draws /\ bulkPaid' = bulkPaid
      /\ handler' = [handler EXCEPT ![h] = handler'[h]]
  BY DEF Commit, PurchasesInv
<1>4. DOMAIN new = Locks(h) /\ Busy("commit", h)
  BY <1>1 DEF Commit, Locks, Busy
<1> HIDE DEF new, mutation, order
<1>5. CASE DOMAIN new = {}
  <2>1. docs' = docs /\ credited' = credited
    BY <1>1, <1>5 DEF Saved, PurchasesInv, Documents
  <2>2. ChainInv' /\ OrdersStay
    BY <1>3, <2>1 DEF PurchasesInv, ChainInv, Landed, OrdersStay
  <2>3. HandlerInv(h)' /\ OnceInv(h)' /\ Locks(h)' = {}
    BY <1>3 DEF HandlerInv, OnceInv, Locks, Busy, Idle
  <2> QED BY <1>3, <2>1, <2>2, <2>3, HandlerMoves
<1>6. CASE DOMAIN new # {}
  <2>1. /\ Landed(t) /\ credited[<<t, u>>] = 0
        /\ credited' = [credited EXCEPT ![<<t, u>>] = 1]
        /\ credited \in [Txs \X Users -> Nat]
    BY <1>1, <1>6 DEF PurchasesInv, ChainInv
  <2>2. /\ credited' \in [Txs \X Users -> Nat] /\ credited'[<<t, u>>] = 1
        /\ \A r \in Txs, v \in Users :
             r # t \/ v # u => credited'[<<r, v>>] = credited[<<r, v>>]
    BY <1>2, <2>1
  <2>3. Documents(docs)' /\ Itemized(docs)'
    BY <1>1, <1>2, CommitOfWritten DEF PurchasesInv
  <2>4. ChainInv' /\ OrdersStay
    <3>1. \A r \in Txs : Landed(r)' = Landed(r)
      BY <1>3 DEF Landed
    <3>2. ASSUME NEW r \in Txs, NEW v \in Users, credited'[<<r, v>>] # 0
          PROVE  credited'[<<r, v>>] = 1 /\ chain'[r].final /\ Landed(r)'
      <4>1. CASE r = t /\ v = u
        BY <1>1, <1>3, <2>1, <2>2, <3>1, <4>1
      <4>2. CASE r # t \/ v # u
        BY <1>3, <2>2, <3>1, <3>2, <4>2 DEF PurchasesInv, ChainInv
      <4> QED BY <4>1, <4>2
    <3> QED BY <1>3, <2>2, <3>1, <3>2 DEF PurchasesInv, ChainInv, OrdersStay
  <2>5. /\ Vault \in DOMAIN new => docs[Vault] = Seen(h)[Vault]
        /\ docs'[Vault] = IF Vault \in DOMAIN new THEN new[Vault] ELSE docs[Vault]
        /\ docs[Vault].tokenLocked = NaN => docs'[Vault] = docs[Vault]
    <3>1. Vault \in Keys \ Inventories
      BY KeysAssumption DEF Keys
    <3>2. Vault \in DOMAIN new => Seen(h)[Vault].tokenLocked # NaN
      <4>1. Written(mutation, order, u, Seen(h), new) /\ Documents(Seen(h)) /\ order \in Orders
        BY <1>1, <1>2
      <4> QED BY <4>1, WrittenVault
    <3> QED BY <1>1, <3>1, <3>2 DEF Saved
  <2>6. \A g \in Handlers : HandlerInv(g)'
    BY <1>3, <2>4, HandlerStays DEF PurchasesInv, HandlerInv
  <2>7. LockInv'
    <3>1. \A g \in Handlers \ {h} : Locks(g)' = Locks(g) /\ Seen(g)' = Seen(g)
      BY <1>3 DEF Locks, Busy, Seen
    <3>2. Locks(h)' = {}
      BY <1>3 DEF Locks, Busy, Idle
    <3>3. ASSUME NEW g \in Handlers, NEW key \in Keys \ Inventories, key \in Locks(g)'
          PROVE  docs'[key] = Seen(g)'[key]
      <4>1. g # h /\ key \in Locks(g)
        BY <3>1, <3>2, <3>3
      <4>2. key \notin DOMAIN new
        BY <1>4, <4>1 DEF PurchasesInv, LockInv
      <4>3. docs'[key] = docs[key]
        BY <1>1, <4>2 DEF Saved
      <4> QED BY <3>1, <4>1, <4>3 DEF PurchasesInv, LockInv
    <3> QED BY <1>3, <3>2, <3>3, LocksStep DEF PurchasesInv
  <2>8. ASSUME NEW g \in Handlers \ {h} PROVE OnceInv(g)'
    <3>1. /\ handler'[g] = handler[g] /\ Seen(g)' = Seen(g) /\ Tx(g)' = Tx(g)
          /\ Caller(g)' = Caller(g) /\ HandlerInv(g) /\ OnceInv(g)
      BY <1>3 DEF Seen, Tx, Caller, PurchasesInv
    <3>2. \A v \in Users : docs[v].tCIFARM \in Nat /\ docs'[v].tCIFARM \in Nat
      BY <2>3 DEF PurchasesInv, Documents, UserDocuments
    <3>3. \A v \in Users : docs'[v].tCIFARM >= docs[v].tCIFARM
      BY <1>1, <1>2, <3>2
    <3>4. ~Busy("idle", g) => \A v \in Users : Seen(g)[v].tCIFARM \in Nat
      BY <3>1 DEF HandlerInv, Creating, SendsOrder, Busy, Idle, Documents, UserDocuments
    <3>5. ~Busy("idle", g) =>
            /\ \A v \in Users : Seen(g)[v].tCIFARM <= docs'[v].tCIFARM
            /\ Seen(g)[Vault].tokenLocked = NaN => docs'[Vault].tokenLocked = NaN
      BY <2>5, <3>1, <3>2, <3>3, <3>4 DEF OnceInv
    <3>6. CASE ~Sending(g)
      BY <3>1, <3>5, <3>6 DEF OnceInv, Sending, Busy
    <3>7. CASE Sending(g) /\ (handler[g].tx # t \/ Caller(g) # u)
      <4>1. /\ credited'[<<handler[g].tx, Caller(g)>>] = credited[<<handler[g].tx, Caller(g)>>]
            /\ Caller(g) \in Users /\ ~Busy("idle", g)
        BY <2>2, <3>1, <3>7 DEF HandlerInv, SendsOrder, Sending, Idle, Creating, Busy
      <4>2. /\ Seen(g)[Caller(g)].tCIFARM \in Nat /\ docs[Caller(g)].tCIFARM \in Nat
            /\ docs'[Caller(g)].tCIFARM \in Nat
            /\ docs'[Caller(g)].tCIFARM >= docs[Caller(g)].tCIFARM
        BY <3>2, <3>3, <3>4, <4>1
      <4>3. handler[g].pc \in {"confirm", "book"} /\ handler[g].mutation = "ship"
              /\ Tx(g).kind = "ship"
              /\ credited[<<handler[g].tx, Caller(g)>>] # 0 =>
              Seen(g)[Caller(g)].tCIFARM < docs'[Caller(g)].tCIFARM
        BY <3>1, <4>2 DEF OnceInv
      <4> QED BY <3>1, <3>5, <4>1, <4>3 DEF OnceInv, Busy
    <3>8. CASE Sending(g) /\ handler[g].tx = t /\ Caller(g) = u
      <4>1. SendsOrder(g) /\ Tx(g) = order /\ ~Busy("idle", g)
        BY <1>2, <3>1, <3>8 DEF HandlerInv, Sending, Idle, Creating, Busy, Tx
      <4>2. ~(/\ HasWritten(handler[g].pc, handler[g].mutation)
              /\ DOMAIN handler[g].new # {})
        <5>1. HasWritten(handler[h].pc, handler[h].mutation) /\ DOMAIN handler[h].new # {}
          BY <1>4, <1>6 DEF HasWritten, Busy, new
        <5> QED BY <1>1, <3>8, <4>1, <5>1, OneWriter
      <4>3. ~HasWritten(handler[g].pc, handler[g].mutation) => DOMAIN handler[g].new = {}
        BY <4>1 DEF SendsOrder
      <4>4. order.kind = "ship" => Seen(g)[u].tCIFARM < docs'[u].tCIFARM
        <5>1. order.kind = "ship" =>
                u \in DOMAIN new /\ mutation = "ship" /\ Worth(order).tCIFARM > 0
          BY <1>1, <1>2, <1>6, WrittenKey, WorthType
        <5>2. order.kind = "ship" =>
                docs'[u].tCIFARM = docs[u].tCIFARM + Worth(order).tCIFARM
          BY <1>1, <1>2, <5>1
        <5>3. Seen(g)[u].tCIFARM <= docs[u].tCIFARM
          BY <1>2, <3>1, <4>1 DEF OnceInv
        <5>4. Seen(g)[u].tCIFARM \in Nat /\ docs[u].tCIFARM \in Nat
          BY <1>2, <3>2, <3>4, <4>1
        <5> QED BY <1>2, <5>1, <5>2, <5>3, <5>4
      <4> QED BY <3>1, <3>5, <3>8, <4>1, <4>2, <4>3, <4>4 DEF OnceInv, Busy
    <3> QED BY <3>6, <3>7, <3>8
  <2>9. OnceInv(h)'
    BY <1>3 DEF OnceInv, Busy, Idle
  <2>10. VaultLedger'
    <3> DEFINE share == [p \in Txs \X Users |-> Share(p)]
               after == [p \in Txs \X Users |-> Share(p)']
    <3>1. /\ VaultLedger <=> docs[Vault].tokenLocked =
                               IF Spoilt THEN NaN
                                 ELSE StartDocs[Vault].tokenLocked + SumFunction(share)
          /\ VaultLedger' <=> docs'[Vault].tokenLocked =
                                IF Spoilt' THEN NaN
                                  ELSE StartDocs[Vault].tokenLocked + SumFunction(after)
      BY DEF VaultLedger, Share
    <3>2. /\ share \in [Txs \X Users -> Int] /\ after \in [Txs \X Users -> Int]
          /\ \A p \in (Txs \X Users) \ {<<t, u>>} : share[p] = after[p]
          /\ share[<<t, u>>] = 0 /\ after[<<t, u>>] = TokensOf(order)
      <4>1. /\ \A r \in Txs : prepared[r] # NoTx => TokensOf(prepared[r]) \in Int
            /\ TokensOf(order) \in Int /\ order # NoTx
        BY <1>2, OrderType, TokensType DEF PurchasesInv, ChainInv
      <4>2. \A m \in Nat, n \in Int : m * n \in Int
        OBVIOUS
      <4>3. ASSUME NEW p \in Txs \X Users
            PROVE  /\ Share(p) \in Int /\ Share(p)' \in Int
                   /\ p # <<t, u>> => Share(p)' = Share(p)
        <5>1. p[1] \in Txs /\ credited[p] \in Nat /\ credited'[p] \in Nat
          BY <2>1, <2>2
        <5>2. p # <<t, u>> => credited'[p] = credited[p]
          BY <2>1
        <5>3. CASE prepared[p[1]] = NoTx
          BY <1>3, <5>3 DEF Share
        <5>4. CASE prepared[p[1]] # NoTx
          <6>1. /\ credited[p] * TokensOf(prepared[p[1]]) \in Int
                /\ credited'[p] * TokensOf(prepared[p[1]]) \in Int
            BY <4>1, <4>2, <5>1, <5>4
          <6>2. /\ Share(p) = credited[p] * TokensOf(prepared[p[1]])
                /\ Share(p)' = credited'[p] * TokensOf(prepared[p[1]])
            BY <1>3, <5>4 DEF Share
          <6> QED BY <5>2, <6>1, <6>2
        <5> QED BY <5>3, <5>4
      <4>4. Share(<<t, u>>) = 0 /\ Share(<<t, u>>)' = TokensOf(order)
        <5>1. <<t, u>>[1] = t
          OBVIOUS
        <5> QED BY <1>2, <1>3, <2>1, <2>2, <4>1, <5>1 DEF Share
      <4> QED BY <1>2, <4>3, <4>4
    <3> HIDE DEF share, after
    <3>3. /\ IsFiniteSet(Txs \X Users) /\ <<t, u>> \in Txs \X Users
          /\ StartDocs[Vault].tokenLocked \in Int /\ NaN \notin Int /\ TokensOf(order) \in Int
      BY <1>2, FS_Product, PurchasesAssumption, StartDocsAssumption, TokensType DEF Documents
    <3>4. SumFunction(share) \in Int /\ SumFunction(after) \in Int
      BY <3>2, <3>3, SumType
    <3>5. CASE Spoilt
      <4>1. Spoilt'
        <5>1. PICK r \in Txs, v \in Users :
                credited[<<r, v>>] > 0 /\ prepared[r] # NoTx /\ prepared[r].kind = "convert"
          BY <3>5 DEF Spoilt
        <5>2. credited'[<<r, v>>] > 0
          BY <2>1, <2>2, <5>1
        <5> QED BY <1>3, <5>1, <5>2 DEF Spoilt
      <4>2. docs[Vault].tokenLocked = NaN
        BY <3>1, <3>5 DEF PurchasesInv
      <4> QED BY <2>5, <3>1, <4>1, <4>2
    <3>6. CASE ~Spoilt
      <4>1. docs[Vault].tokenLocked = StartDocs[Vault].tokenLocked + SumFunction(share)
        BY <3>1, <3>6 DEF PurchasesInv
      <4>2. docs[Vault].tokenLocked \in Int /\ docs[Vault].tokenLocked # NaN
        BY <3>3, <3>4, <4>1
      <4>3. Seen(h)[Vault].tokenLocked # NaN
        BY <1>4, <4>2 DEF PurchasesInv, OnceInv, Busy
      <4>4. docs'[Vault].tokenLocked =
              IF order.kind = "convert" THEN NaN
                                        ELSE docs[Vault].tokenLocked + TokensOf(order)
        <5>1. Written(mutation, order, u, Seen(h), new) /\ Documents(Seen(h)) /\ order \in Orders
          BY <1>1, <1>2
        <5>2. Vault \in DOMAIN new =>
                new[Vault] = [tokenLocked |->
                  IF order.kind = "convert" THEN NaN
                    ELSE Seen(h)[Vault].tokenLocked + TokensOf(order)]
          BY <5>1, WrittenVault
        <5>3. Vault \notin DOMAIN new => order.kind # "convert" /\ TokensOf(order) = 0
          BY <1>6, <4>3, <5>1, WrittenVault
        <5> QED BY <2>5, <4>2, <5>2, <5>3
      <4>5. CASE order.kind = "convert"
        <5>1. Spoilt'
          BY <1>2, <1>3, <2>2, <4>5, OrderType DEF Spoilt
        <5> QED BY <3>1, <4>4, <4>5, <5>1
      <4>6. CASE order.kind # "convert"
        <5>1. ~Spoilt'
          <6> SUFFICES ASSUME NEW r \in Txs, NEW v \in Users, credited'[<<r, v>>] > 0,
                              prepared[r] # NoTx, prepared[r].kind = "convert"
                       PROVE  FALSE
            BY <1>3 DEF Spoilt
          <6>1. r # t
            BY <1>2, <4>6
          <6>2. credited[<<r, v>>] > 0
            BY <2>2, <6>1
          <6> QED BY <3>6, <6>2 DEF Spoilt
        <5>2. SumFunction(after) = SumFunction(share) + after[<<t, u>>] - share[<<t, u>>]
          BY <3>2, <3>3, SumUpdate
        <5>3. docs'[Vault].tokenLocked = StartDocs[Vault].tokenLocked + SumFunction(after)
          BY <3>2, <3>3, <3>4, <4>1, <4>4, <4>6, <5>2
        <5> QED BY <3>1, <5>1, <5>3
      <4> QED BY <4>5, <4>6
    <3> QED BY <3>5, <3>6
  <2>11. (handler = [g \in Handlers |-> handler[g]])'
    BY <1>3 DEF PurchasesInv
  <2> QED BY <2>3, <2>4, <2>6, <2>7, <2>8, <2>9, <2>10, <2>11 DEF PurchasesInv
<1> QED BY <1>5, <1>6

-----------------------------------------------------------------------------
(***************************************************************************)
(* The theorems                                                            *)
(***************************************************************************)

\* A step by what it writes: the documents and the order of a create-..., the documents
\* of a send, a part of a transaction, or nothing the players see.
Quiet ==
  /\ prepared' = prepared /\ credited' = credited
  /\ \A t \in Txs : Landed(t)' = Landed(t)
  /\ \A u \in Users : docs'[u] = docs[u]

LEMMA NextSteps ==
  ASSUME PurchasesInv, [Next]_vars
  PROVE  /\ PurchasesInv'
         /\ \/ Quiet
            \/ \E h \in Handlers, t \in Txs : Preparing(h, t)
            \/ \E h \in Handlers : PrepareSuiBoxes(h)
            \/ \E h \in Handlers : Commit(h)
            \/ \E t \in Txs : Execute(t)
<1>1. CASE UNCHANGED vars
  <2>1. PurchasesInv'
    <3>1. ChainInv' /\ OrdersStay
      BY <1>1 DEF vars, PurchasesInv, ChainInv, Landed, OrdersStay
    <3>2. \A g \in Handlers : HandlerInv(g)' /\ OnceInv(g)'
      BY <1>1, <3>1, HandlerStays, OnceStays DEF vars, PurchasesInv
    <3>3. LockInv'
      BY <1>1 DEF vars, PurchasesInv, LockInv, Locks, Busy, Seen
    <3>4. VaultLedger'
      BY <1>1, <3>1, LedgerStays DEF vars, PurchasesInv
    <3> QED BY <1>1, <3>1, <3>2, <3>3, <3>4 DEF vars, PurchasesInv
  <2>2. Quiet
    BY <1>1 DEF vars, Quiet, Landed
  <2> QED BY <2>1, <2>2
<1>2. ASSUME NEW h \in Handlers, \/ OpenCreate(h) \/ Fail(h)
                                \/ \E t \in Txs, u \in Users, mutation \in Kinds :
                                     Begin(h, t, u, mutation)
      PROVE  PurchasesInv' /\ Quiet
  BY <1>2, OpenCreateStep, FailStep, BeginStep DEF OpenCreate, Fail, Begin, Quiet, Landed
<1>3. ASSUME NEW h \in Handlers,
             BuyGolds(h) \/ BuyEnergy(h) \/ ExpandLand(h) \/ PurchaseBoxes(h) \/ Wrap(h)
               \/ Unwrap(h)
      PROVE  PurchasesInv' /\ Quiet
  <2>1. PurchasesInv'
    BY <1>3, WritesStep
  <2>2. UNCHANGED <<docs, prepared, chain, credited>>
    BY <1>3 DEF BuyGolds, BuyEnergy, ExpandLand, PurchaseBoxes, Wrap, Unwrap
  <2> QED BY <2>1, <2>2 DEF Quiet, Landed
<1>4. ASSUME NEW h \in Handlers, Submit(h) \/ Confirm(h) PROVE PurchasesInv' /\ Quiet
  <2>1. PurchasesInv'
    BY <1>4, SubmitStep, ConfirmStep
  <2>2. UNCHANGED <<docs, prepared, credited>>
    BY <1>4 DEF Submit, Confirm
  <2>3. \A t \in Txs : chain'[t].landed = chain[t].landed
    <3>1. chain \in [Txs -> OnChain]
      BY DEF PurchasesInv, ChainInv
    <3>2. \/ chain' = [chain EXCEPT ![handler[h].tx] = [@ EXCEPT !.submitted = TRUE]]
          \/ chain' = [chain EXCEPT ![handler[h].tx] = [@ EXCEPT !.final = TRUE]]
      BY <1>4 DEF Submit, Confirm
    <3> QED BY <3>1, <3>2 DEF OnChain
  <2> QED BY <2>1, <2>2, <2>3 DEF Quiet, Landed
<1>5. ASSUME NEW h \in Handlers, Ship(h) PROVE PurchasesInv' /\ Quiet
  <2>1. PurchasesInv'
    BY <1>5, ShipStep
  <2>2. UNCHANGED <<prepared, chain, credited>>
    BY <1>5 DEF Ship
  <2>3. \A u \in Users : docs'[u] = docs[u]
    BY <1>5, KeysAssumption DEF Ship, Removed, Keys
  <2> QED BY <2>1, <2>2, <2>3 DEF Quiet, Landed
<1>6. ASSUME Sell PROVE PurchasesInv' /\ Quiet
  <2>1. PurchasesInv'
    BY <1>6, SellStep
  <2>2. UNCHANGED <<prepared, chain, credited>>
    BY <1>6 DEF Sell
  <2>3. \A u \in Users : docs'[u] = docs[u]
    BY <1>6, KeysAssumption DEF Sell
  <2> QED BY <2>1, <2>2, <2>3 DEF Quiet, Landed
<1>7. ASSUME NEW h \in Handlers, NEW t \in Txs, Preparing(h, t) PROVE PurchasesInv'
  BY <1>7, PreparingStep
<1>8. ASSUME NEW h \in Handlers, PrepareSuiBoxes(h) PROVE PurchasesInv'
  BY <1>8, SuiDrafts, DraftStep
<1>9. ASSUME NEW h \in Handlers, Commit(h) PROVE PurchasesInv'
  BY <1>9, CommitStep
<1>10. ASSUME NEW t \in Txs, Execute(t) PROVE PurchasesInv'
  BY <1>10, ExecuteStep
<1>11. CASE Next
  BY <1>2, <1>3, <1>4, <1>5, <1>6, <1>7, <1>8, <1>9, <1>10, <1>11 DEF Next, Preparing
<1> QED BY <1>1, <1>11

\* Whatever handlers, retries and the chain do in between: the inductive invariant, of
\* documents, locks, orders and the vault.
THEOREM PurchasesInvariant == Spec => []PurchasesInv
<1>1. PurchasesInv /\ [Next]_vars => PurchasesInv'
  BY NextSteps
<1> QED BY InitInv, <1>1, PTL DEF Spec

\* The vault counts the tokens of every purchase of boxes and every shipment that was
\* booked, by whatever callers at once, until a conversion is booked as boxes, which
\* leaves it without a number: the lock on its document makes every update start from
\* the last.
THEOREM VaultAddsUp == Spec => []VaultLedger
<1>1. PurchasesInv => VaultLedger
  BY DEF PurchasesInv
<1> QED BY <1>1, PurchasesInvariant, PTL

\* However wrap, unwrap, sell and convert interleave, an item of an NFT has validated
\* metadata and no other item shares it.
THEOREM ItemsKeepMetadata == Spec => []ItemsHaveMetadata
<1>1. PurchasesInv => ItemsHaveMetadata
  BY DEF PurchasesInv, ItemsHaveMetadata
<1> QED BY <1>1, PurchasesInvariant, PTL

\* A vector shown to a player goes only with a send for boxes of his own, of transactions
\* that have landed.
THEOREM DrawsStand == Spec => DrawStands
<1> DEFINE Stands ==
      \A u \in Users :
        docs[u].nftBoxVector \notin {NoVector, docs'[u].nftBoxVector} =>
          /\ docs'[u].nftBoxVector = NoVector
          /\ \E t \in Txs : /\ credited'[<<t, u>>] > credited[<<t, u>>]
                            /\ prepared[t].kind \in {"boxes", "convert"} /\ Landed(t)
<1>1. ASSUME PurchasesInv, [Next]_vars PROVE Stands
  <2>1. CASE Quiet
    BY <2>1 DEF Quiet
  <2>2. ASSUME NEW h \in Handlers, NEW new, Drafts(h, new) PROVE Stands
    BY <1>1, <2>2, DraftsKeep
  <2>3. ASSUME NEW h \in Handlers, Commit(h) PROVE Stands
    <3> SUFFICES ASSUME NEW u \in Users,
                        docs[u].nftBoxVector \notin {NoVector, docs'[u].nftBoxVector}
                 PROVE  /\ docs'[u].nftBoxVector = NoVector
                        /\ \E t \in Txs :
                             /\ credited'[<<t, u>>] > credited[<<t, u>>]
                             /\ prepared[t].kind \in {"boxes", "convert"} /\ Landed(t)
      OBVIOUS
    <3>1. /\ SendsOrder(h) /\ u \in DOMAIN handler[h].new /\ u = Caller(h)
          /\ docs'[u].nftBoxVector = NoVector /\ handler[h].mutation = "boxes"
          /\ Written(handler[h].mutation, Tx(h), u, Seen(h), handler[h].new)
          /\ Landed(handler[h].tx) /\ credited[<<handler[h].tx, u>>] = 0
          /\ credited' = [credited EXCEPT ![<<handler[h].tx, u>>] = 1]
      BY <1>1, <2>3, CommitDelivers
    <3> PICK t \in Txs : t = handler[h].tx
      BY <3>1 DEF SendsOrder
    <3>2. prepared[t].kind \in {"boxes", "convert"}
      BY <3>1 DEF Written, Tx
    <3>3. credited'[<<t, u>>] = 1
      BY <1>1, <3>1 DEF PurchasesInv, ChainInv
    <3> QED BY <3>1, <3>2, <3>3
  <2>4. ASSUME NEW t \in Txs, Execute(t) PROVE Stands
    BY <2>4 DEF Execute
  <2> QED BY <1>1, <2>1, <2>2, <2>3, <2>4, NextSteps, OrdersPrepared, SuiDrafts
<1>2. PurchasesInv /\ UNCHANGED vars => Stands
  BY DEF vars
<1> QED BY <1>1, PurchasesInvariant, PTL DEF Spec, DrawStands

LEMMA OrderImplemented ==
  ASSUME PurchasesInv, NEW h \in Handlers, NEW t \in Txs, Preparing(h, t)
  PROVE  Promise!Next
<1>0. PICK order \in Orders : \E new : Prepare(h, t, order, new) /\ Drafts(h, new)
  BY OrdersPrepared
<1>1. PICK new : Prepare(h, t, order, new) /\ Drafts(h, new)
  BY <1>0
<1>2. /\ prepared[t] = NoTx /\ prepared' = [prepared EXCEPT ![t] = order]
      /\ prepared \in [Txs -> Orders \cup {NoTx}] /\ order # NoTx
      /\ chain' = chain /\ credited' = credited
  BY <1>1, OrderType DEF Prepare, PurchasesInv, ChainInv
<1> DEFINE o == [r \in Txs |-> IF prepared[r] = NoTx THEN NoTx ELSE Worth(prepared[r])]
<1>3. /\ o[t] = NoTx
      /\ o' = [o EXCEPT ![t] = [golds |-> Worth(order).golds,
                                tCIFARM |-> Worth(order).tCIFARM]]
  <2>1. Worth(order) = [golds |-> Worth(order).golds, tCIFARM |-> Worth(order).tCIFARM]
    BY DEF Worth
  <2>2. \A r \in Txs : o'[r] = IF r = t THEN Worth(order) ELSE o[r]
    BY <1>2
  <2>3. o' = [r \in Txs |-> IF r = t THEN Worth(order) ELSE o[r]]
    BY <2>2
  <2>4. [o EXCEPT ![t] = Worth(order)] = [r \in Txs |-> IF r = t THEN Worth(order) ELSE o[r]]
    OBVIOUS
  <2> QED BY <1>2, <2>1, <2>3, <2>4
<1> HIDE DEF o
<1>4. {r \in Txs : Landed(r)}' = {r \in Txs : Landed(r)}
  <2>1. ~Landed(t)' /\ ~Landed(t)
    <3>1. chain[t].landed = 0
      BY <1>2 DEF PurchasesInv, ChainInv
    <3>2. Parts(order) # 0
      BY OrderType DEF Parts
    <3> QED BY <1>2, <3>1, <3>2 DEF Landed
  <2>2. \A r \in Txs \ {t} : Landed(r)' = Landed(r)
    BY <1>2 DEF Landed
  <2> QED BY <2>1, <2>2
<1>5. Purse(docs)' = Purse(docs)
  BY <1>1, DraftsKeep DEF Purse
<1>6. Worth(order).golds \in {0, Cardinality(DOMAIN Bulk) * BulkTCIFARM}
                               \cup {GoldOptions[i] : i \in DOMAIN GoldOptions}
  BY OrderType DEF Worth
<1>7. Worth(order).tCIFARM \in {0, Cardinality(DOMAIN Bulk) * BulkTCIFARM}
                                 \cup {GoldOptions[i] : i \in DOMAIN GoldOptions}
  BY DEF Worth
<1>8. Promise!Order(t, Worth(order).golds, Worth(order).tCIFARM)
  BY <1>2, <1>3, <1>4, <1>5 DEF Promise!Order, o
<1> QED BY <1>6, <1>7, <1>8, OrderType DEF Promise!Next

LEMMA SettleImplemented ==
  ASSUME PurchasesInv, NEW t \in Txs, Execute(t) PROVE Promise!Next \/ UNCHANGED Promise!vars
<1>1. /\ prepared' = prepared /\ credited' = credited /\ docs' = docs /\ ~Landed(t)
      /\ \/ chain' = [chain EXCEPT ![t].landed = @ + 1]
         \/ chain' = [chain EXCEPT ![t].landed = @ + 1, ![t].failed = TRUE]
      /\ chain[t].submitted /\ chain \in [Txs -> OnChain]
  BY DEF Execute, PurchasesInv, ChainInv
<1>2. prepared[t] # NoTx /\ prepared[t] \in Orders
  BY <1>1 DEF PurchasesInv, ChainInv
<1>3. \A r \in Txs \ {t} : Landed(r)' = Landed(r)
  BY <1>1 DEF Landed
<1>4. CASE Landed(t)'
  <2>1. {r \in Txs : Landed(r)}' = {r \in Txs : Landed(r)} \cup {t}
    BY <1>3, <1>4
  <2>2. Worth(prepared[t]) # NoTx
    BY <1>2, WorthType
  <2>3. Promise!Settle(t)
    BY <1>1, <1>2, <2>1, <2>2 DEF Promise!Settle
  <2> QED BY <2>3 DEF Promise!Next
<1>5. CASE ~Landed(t)'
  <2>1. {r \in Txs : Landed(r)}' = {r \in Txs : Landed(r)}
    BY <1>1, <1>3, <1>5
  <2> QED BY <1>1, <2>1 DEF Promise!vars
<1> QED BY <1>4, <1>5

LEMMA DeliverImplemented ==
  ASSUME PurchasesInv, NEW h \in Handlers, Commit(h)
  PROVE  Promise!Next \/ UNCHANGED Promise!vars
<1> DEFINE new == handler[h].new
           order == Tx(h)
<1>1. SendsOrder(h)
  BY CommitDelivers
<1> PICK t \in Txs, u \in Users : t = handler[h].tx /\ u = Caller(h)
  BY <1>1 DEF SendsOrder
<1>2. /\ DOMAIN new # {} =>
           /\ Landed(t) /\ credited[<<t, u>>] = 0
           /\ credited' = [credited EXCEPT ![<<t, u>>] = 1]
      /\ DOMAIN new = {} => credited' = credited
      /\ \A v \in Users :
           IF v \in DOMAIN new
             THEN /\ v = u
                  /\ \/ /\ docs'[v].golds = docs[v].golds + Worth(order).golds
                        /\ docs'[v].tCIFARM = docs[v].tCIFARM + Worth(order).tCIFARM
                     \/ /\ docs'[v].golds = docs[v].golds
                        /\ docs'[v].tCIFARM = docs[v].tCIFARM
             ELSE docs'[v] = docs[v]
  BY CommitDelivers
<1>3. prepared[t] = order /\ order # NoTx
  BY <1>1, OrderType DEF SendsOrder, Tx
<1>4. prepared' = prepared /\ {r \in Txs : Landed(r)}' = {r \in Txs : Landed(r)}
  BY DEF Commit, Landed
<1> HIDE DEF new, order
<1>5. CASE DOMAIN new = {}
  <2>1. Purse(docs)' = Purse(docs)
    BY <1>2, <1>5 DEF Purse
  <2> QED BY <1>2, <1>4, <1>5, <2>1 DEF Promise!vars
<1>6. CASE DOMAIN new # {}
  <2>1. \A v \in Users \ {u} : docs'[v] = docs[v]
    BY <1>2
  <2>2. \/ Purse(docs)' = [Purse(docs) EXCEPT ![u] =
                            [golds |-> @.golds + Worth(order).golds,
                             tCIFARM |-> @.tCIFARM + Worth(order).tCIFARM]]
        \/ Purse(docs)' = Purse(docs)
    <3>1. CASE /\ docs'[u].golds = docs[u].golds + Worth(order).golds
               /\ docs'[u].tCIFARM = docs[u].tCIFARM + Worth(order).tCIFARM
      BY <2>1, <3>1 DEF Purse
    <3>2. CASE docs'[u].golds = docs[u].golds /\ docs'[u].tCIFARM = docs[u].tCIFARM
      BY <2>1, <3>2 DEF Purse
    <3> QED BY <1>2, <3>1, <3>2
  <2>3. [r \in Txs |-> IF prepared[r] = NoTx THEN NoTx ELSE Worth(prepared[r])][t] = Worth(order)
    BY <1>3
  <2>4. Promise!Deliver(t, u)
    BY <1>2, <1>4, <1>6, <2>2, <2>3 DEF Promise!Deliver
  <2> QED BY <2>4 DEF Promise!Next
<1> QED BY <1>5, <1>6

\* The handlers of the purchases implement the promise, whoever calls which send with
\* which transaction: an order is settled by the chain once, handed over only after
\* that and at most once to each who calls for it, and nothing else reaches a purse.
THEOREM PurchasesImplementPayments == Spec => PurchasesKeepPromise
<1>1. Init => Promise!Init
  <2> SUFFICES ASSUME Init PROVE Promise!Init
    OBVIOUS
  <2>1. {t \in Txs : Landed(t)} = {}
    BY DEF Init, Landed
  <2> QED BY <2>1 DEF Init, Promise!Init
<1>2. ASSUME PurchasesInv, [Next]_vars PROVE [Promise!Next]_(Promise!vars)
  <2>1. CASE Quiet
    <3>1. {t \in Txs : Landed(t)}' = {t \in Txs : Landed(t)} /\ Purse(docs)' = Purse(docs)
      BY <2>1 DEF Quiet, Purse
    <3> QED BY <2>1, <3>1 DEF Quiet, Promise!vars
  <2>2. ASSUME NEW h \in Handlers, PrepareSuiBoxes(h) PROVE UNCHANGED Promise!vars
    <3>1. PICK new : Drafts(h, new)
      BY <1>2, <2>2, SuiDrafts
    <3>2. /\ prepared' = prepared /\ credited' = credited
          /\ {t \in Txs : Landed(t)}' = {t \in Txs : Landed(t)}
      BY <2>2 DEF PrepareSuiBoxes, Landed
    <3>3. Purse(docs)' = Purse(docs)
      BY <1>2, <3>1, DraftsKeep DEF Purse
    <3> QED BY <3>2, <3>3 DEF Promise!vars
  <2> QED BY <1>2, <2>1, <2>2, NextSteps, OrderImplemented, SettleImplemented, DeliverImplemented
<1> QED BY <1>1, <1>2, PurchasesInvariant, PTL DEF Spec, PurchasesKeepPromise, Promise!Spec
=============================================================================
