----------------------------- MODULE Purchases -----------------------------
(***************************************************************************)
(* The mutations of the gameplay subgraph that go over the Solana chain:   *)
(* golds, energy, land, NFT boxes, the shipping of a bulk of products, and *)
(* the wrapping, unwrapping and converting of NFTs.  Each is a pair:       *)
(* create-... prepares a transaction and caches what it is for, the client *)
(* signs it, send-... books it in the database and sends it to the chain.  *)
(*                                                                         *)
(* The cache is looked up by the hash of the message, or of all of them,   *)
(* and holds neither who prepared the transaction nor for what: whoever    *)
(* calls a send with it is booked, and any send that finds the fields it   *)
(* needs goes on.                                                          *)
(*                                                                         *)
(* Both are MongoDB transactions.  A send writes its documents, sends, and *)
(* waits for the chain before it commits, so it holds its write locks all  *)
(* that time; shipping sends first.  What it waits for is that the         *)
(* transaction landed; whether the chain executed it or failed it, is not  *)
(* looked at.  A write conflict, a failed commit, an error of the node and *)
(* a crash are all a Fail, and the retry of withTransaction is a Fail      *)
(* followed by a Begin: what the chain did in between stays.               *)
(*                                                                         *)
(* The chain is external: a transaction sent twice lands once, and is      *)
(* refused by the node once it is final.                                   *)
(***************************************************************************)
EXTENDS Farmer, FiniteSets, FiniteSetsExt, Functions, Sequences, SequencesExt

CONSTANTS
  Users, Txs, Handlers,
  Inventories, Metas, Items,   \* ids of documents
  NFTs,
  Vault,                       \* the document with the tokens locked
  Free, NoTx, NoVector,
  NaN,                         \* what adding undefined to a number gives
  GoldOptions,                 \* of an index, the golds it buys
  EnergyOptions,               \* of an index, the percentage it refills
  LandLimits,                  \* the indices of landLimits
  BoxPrice, BoxFee,
  Bulk,                        \* of a product, the quantity in the bulk
  MaxPaidAmount, MaxPaidPercentage, DecrementPercentage, BulkTCIFARM,
  StartDocs,
  Kinds,                       \* bound: the mutations clients call
  Quantities,                  \* bound: boxes in a purchase
  MaxDraws                     \* bound: vectors drawn

ASSUME PurchasesAssumption ==
  /\ DOMAIN GoldOptions \subseteq Nat /\ \A o \in DOMAIN GoldOptions : GoldOptions[o] \in Nat
  /\ \A o \in DOMAIN EnergyOptions : EnergyOptions[o] \in 0 .. 100
  /\ LandLimits \subseteq Nat /\ Quantities \subseteq Nat \ {0} /\ MaxDraws \in Nat
  /\ BoxPrice \in Nat /\ BoxFee \in 0 .. BoxPrice - 1
  /\ \A product \in DOMAIN Bulk : Bulk[product] \in Nat \ {0}
  /\ IsFiniteSet(DOMAIN Bulk) /\ DOMAIN Bulk # {} /\ BulkTCIFARM \in Nat \ {0}
  /\ MaxPaidAmount \in Nat
  /\ MaxPaidPercentage \in 0 .. 100 /\ DecrementPercentage \in 0 .. 100
  /\ IsFiniteSet(Txs) /\ IsFiniteSet(Users)

Keys == Users \cup {Vault} \cup Inventories \cup Metas \cup Items

\* Ids of different collections differ.
ASSUME KeysAssumption ==
  /\ Vault \notin Users \cup Inventories \cup Metas \cup Items
  /\ Users \cap (Inventories \cup Metas \cup Items) = {}
  /\ Inventories \cap (Metas \cup Items) = {}
  /\ Metas \cap Items = {}
-----------------------------------------------------------------------------
(***************************************************************************)
(* The documents, and what the cache holds of a prepared transaction       *)
(***************************************************************************)
UserDocuments ==
  [golds : Nat, tCIFARM : Nat, energy : Nat, energyFull : BOOLEAN, level : Nat \ {0},
   experiences : Nat, landLimitIndex : Nat, nftBoxVector : Nat \cup {NoVector}]

MetaDocuments == [nft : NFTs, validated : BOOLEAN]

ItemDocuments == [meta : Metas, user : Users]

\* The collections hold documents of their schema; Free is an id not in use.
Documents(map) ==
  /\ map = [key \in Keys |-> map[key]]
  /\ \A u \in Users : map[u] \in UserDocuments
  /\ map[Vault] \in [tokenLocked : Int \cup {NaN}]
  /\ \A m \in Metas : map[m] \in MetaDocuments \cup {Free}
  /\ \A i \in Items : map[i] \in ItemDocuments \cup {Free}

ItemsOf(map, m) == {i \in Items : map[i] # Free /\ map[i].meta = m}

Itemized(map) ==
  \A i \in Items :
    map[i] # Free =>
      /\ map[map[i].meta] # Free /\ map[map[i].meta].validated
      /\ ItemsOf(map, map[i].meta) = {i}

ASSUME StartDocsAssumption ==
  /\ Documents(StartDocs) /\ Itemized(StartDocs)
  /\ Free \notin MetaDocuments /\ Free \notin ItemDocuments
  /\ NaN \notin Int /\ StartDocs[Vault].tokenLocked # NaN

\* What the cache holds.  Golds, energy and land all store a selectionIndex; a wrap and
\* an unwrap store the id of the metadata and differ in what the chain will do.
Orders ==
  [kind : {"selection"}, index : DOMAIN GoldOptions \cup DOMAIN EnergyOptions \cup LandLimits]
    \cup [kind : {"ship"}, amount : Int]
    \cup [kind : {"wrap", "unwrap"}, nft : NFTs, meta : Metas]
    \cup [kind : {"boxes"}, quantity : Quantities]
    \cup [kind : {"convert"}, nfts : SUBSET NFTs]

\* The sends that go on with an order.  Boxes and conversions are several transactions
\* under one key, so that the sends of the one find what the other has prepared.  The
\* others find the fields they need, but that a shipment looks for them only when it has
\* sent the transaction.
Sends(order) ==
  CASE order.kind \in {"boxes", "convert"} -> {"boxes", "convert"}
    [] order.kind = "selection" -> {"golds", "energy", "land", "ship"}
    [] order.kind = "ship" -> {"ship"}
    [] OTHER -> {"wrap", "unwrap", "ship"}

Worth(order) ==
  [golds |-> IF order.kind = "selection" /\ order.index \in DOMAIN GoldOptions
               THEN GoldOptions[order.index] ELSE 0,
   tCIFARM |-> IF order.kind = "ship" THEN Cardinality(DOMAIN Bulk) * BulkTCIFARM ELSE 0]

\* What the cache does not know is neither an order nor what one is worth.
ASSUME NoTxAssumption == NoTx \notin Orders \cup [golds : Nat, tCIFARM : Nat]

VARIABLES
  docs,        \* the documents by id
  bulkPaid,    \* how often the bulk was paid, and what is taken off for it
  draws,       \* the vectors drawn so far
  prepared,    \* of a transaction: what the cache says it is for
  chain,       \* of a transaction: submitted, parts landed, one of them failed, final
  nft,         \* of an NFT on the chain: free, frozen or burnt
  handler,     \* of a handler: what it does, on which snapshot, what it wrote
  credited     \* history: of a transaction and a caller, the commits that wrote something

vars == <<docs, bulkPaid, draws, prepared, chain, nft, handler, credited>>

Idle == [pc |-> "idle"]

Init ==
  /\ docs = StartDocs
  /\ bulkPaid = [count |-> 0, decrement |-> 0]
  /\ draws = 0
  /\ prepared = [t \in Txs |-> NoTx]
  /\ chain = [t \in Txs |-> [submitted |-> FALSE, landed |-> 0, failed |-> FALSE,
                           final |-> FALSE]]
  /\ nft = [n \in NFTs |-> "free"]
  /\ handler = [h \in Handlers |-> Idle]
  /\ credited = [p \in Txs \X Users |-> 0]
-----------------------------------------------------------------------------
(***************************************************************************)
(* Transactions of the database                                            *)
(***************************************************************************)
Busy(pc, h) == handler[h].pc = pc

Seen(h) == handler[h].seen

Tx(h) == prepared[handler[h].tx]

Caller(h) == handler[h].user

\* A document is locked from the write on, until the transaction ends.
Locks(h) == IF Busy("idle", h) THEN {} ELSE DOMAIN handler[h].new

Locked(key, h) == \E g \in Handlers \ {h} : key \in Locks(g)

\* The documents after the writes of new.
Saved(map, new) == [key \in Keys |-> IF key \in DOMAIN new THEN new[key] ELSE map[key]]

\* Mutant: the last writer wins.
NeverConflict(h, written) == TRUE

NoConflict(h, written) ==
  \A key \in written : docs[key] = Seen(h)[key] /\ ~Locked(key, h)

OpenCreate(h) ==
  /\ Busy("idle", h)
  /\ handler' = [handler EXCEPT ![h] = [pc |-> "create", seen |-> docs, new |-> <<>>]]
  /\ UNCHANGED <<docs, bulkPaid, draws, prepared, chain, nft, credited>>

\* A user calls a send; its entry in the cache is never taken out, only times out.
Begin(h, t, u, mutation) ==
  /\ Busy("idle", h)
  /\ prepared[t] # NoTx
  /\ mutation \in Sends(prepared[t]) \cap Kinds
  /\ handler' = [handler EXCEPT ![h] =
       [pc |-> IF mutation \in {"ship", "convert"} THEN "send" ELSE "write",
        tx |-> t, user |-> u, mutation |-> mutation, seen |-> docs, new |-> <<>>]]
  /\ UNCHANGED <<docs, bulkPaid, draws, prepared, chain, nft, credited>>

Fail(h) ==
  /\ ~Busy("idle", h)
  /\ handler' = [handler EXCEPT ![h] = Idle]
  /\ UNCHANGED <<docs, bulkPaid, draws, prepared, chain, nft, credited>>

\* A save of what is there already writes nothing and locks nothing.
Modified(map, saved) ==
  [key \in {k \in DOMAIN saved : saved[k] # map[k]} |-> saved[key]]

\* The saves of a send: locked from now on, seen by others after the commit.
Write(h, saved, pc) ==
  \E new \in {Modified(Seen(h), saved)} :
    /\ NoConflict(h, DOMAIN new)
    /\ handler' = [handler EXCEPT ![h] = [@ EXCEPT !.pc = pc, !.new = new]]

Commit(h) ==
  /\ Busy("commit", h)
  /\ docs' = Saved(docs, handler[h].new)
  /\ credited' = IF DOMAIN handler[h].new = {}
                   THEN credited
                   ELSE [credited EXCEPT ![<<handler[h].tx, Caller(h)>>] = @ + 1]
  /\ handler' = [handler EXCEPT ![h] = Idle]
  /\ UNCHANGED <<bulkPaid, draws, prepared, chain, nft>>
-----------------------------------------------------------------------------
(***************************************************************************)
(* The chain                                                               *)
(***************************************************************************)
Parts(order) == IF order.kind = "boxes" THEN order.quantity ELSE 1

Landed(t) == prepared[t] # NoTx /\ chain[t].landed = Parts(prepared[t])

Submit(h) ==
  /\ Busy("send", h)
  /\ ~chain[handler[h].tx].final
  /\ chain' = [chain EXCEPT ![handler[h].tx].submitted = TRUE]
  /\ handler' = [handler EXCEPT ![h].pc = "confirm"]
  /\ UNCHANGED <<docs, bulkPaid, draws, prepared, nft, credited>>

\* What a part does to the NFTs; only what the chain allows.
Effect(order) ==
  CASE order.kind = "wrap" -> /\ nft[order.nft] # "burnt"
                              /\ nft' = [nft EXCEPT ![order.nft] = "frozen"]
    [] order.kind = "unwrap" -> /\ nft[order.nft] # "burnt"
                                /\ nft' = [nft EXCEPT ![order.nft] = "free"]
    [] order.kind = "convert" -> /\ \A n \in order.nfts : nft[n] = "free"
                                 /\ nft' = [n \in NFTs |-> IF n \in order.nfts
                                                             THEN "burnt" ELSE nft[n]]
    [] OTHER -> UNCHANGED nft

\* The transactions of a purchase of boxes land one by one, or only some.  One that lands
\* is executed or fails.
Execute(t) ==
  /\ chain[t].submitted /\ ~Landed(t)
  /\ \/ /\ Effect(prepared[t])
        /\ chain' = [chain EXCEPT ![t].landed = @ + 1]
     \/ /\ chain' = [chain EXCEPT ![t].landed = @ + 1, ![t].failed = TRUE]
        /\ UNCHANGED nft
  /\ UNCHANGED <<docs, bulkPaid, draws, prepared, handler, credited>>

\* Mutant: sent is as good as confirmed.
Submitted(h) == chain[handler[h].tx].submitted

\* A conversion waits for the last of its transactions, the others for all of them; the
\* error in the answer is not looked at.
Confirmed(h) ==
  IF handler[h].mutation = "convert" THEN chain[handler[h].tx].landed > 0
                                     ELSE Landed(handler[h].tx)

Confirm(h) ==
  /\ Busy("confirm", h)
  /\ Confirmed(h)
  /\ chain' = [chain EXCEPT ![handler[h].tx].final = TRUE]
  /\ handler' = [handler EXCEPT ![h].pc = IF handler[h].mutation = "ship" THEN "book"
                                                                          ELSE "commit"]
  /\ UNCHANGED <<docs, bulkPaid, draws, prepared, nft, credited>>
-----------------------------------------------------------------------------
(***************************************************************************)
(* create-...: from the snapshot to the cache                              *)
(***************************************************************************)
Prepare(h, t, order, new) ==
  /\ Busy("create", h)
  /\ prepared[t] = NoTx
  /\ NoConflict(h, DOMAIN new)
  /\ prepared' = [prepared EXCEPT ![t] = order]
  /\ docs' = Saved(docs, new)
  /\ handler' = [handler EXCEPT ![h] = Idle]
  /\ UNCHANGED <<bulkPaid, chain, nft, credited>>

PrepareGolds(h, t) ==
  /\ "golds" \in Kinds
  /\ \E option \in DOMAIN GoldOptions :
       Prepare(h, t, [kind |-> "selection", index |-> option], <<>>)
  /\ UNCHANGED draws

PrepareEnergy(h, t) ==
  /\ "energy" \in Kinds
  /\ \E option \in DOMAIN EnergyOptions :
       Prepare(h, t, [kind |-> "selection", index |-> option], <<>>)
  /\ UNCHANGED draws

PrepareLand(h, t) ==
  /\ Busy("create", h) /\ "land" \in Kinds
  /\ \E u \in Users :
       /\ Seen(h)[u].landLimitIndex + 1 \in LandLimits
       /\ Prepare(h, t, [kind |-> "selection", index |-> Seen(h)[u].landLimitIndex + 1], <<>>)
  /\ UNCHANGED draws

\* Mutant: every purchase draws again.
AlwaysDraws(user) == draws + 1

\* What is in the boxes follows from a vector, drawn when there is none.
VectorFor(user) == IF user.nftBoxVector = NoVector THEN draws + 1 ELSE user.nftBoxVector

DrawsFor(h, u) ==
  \E vector \in {VectorFor(Seen(h)[u])} :
    /\ vector <= MaxDraws
    /\ draws' = IF vector = draws + 1 THEN vector ELSE draws

Drawn(h, u) ==
  IF VectorFor(Seen(h)[u]) = Seen(h)[u].nftBoxVector
    THEN <<>>
    ELSE [key \in {u} |-> [Seen(h)[key] EXCEPT !.nftBoxVector = VectorFor(Seen(h)[key])]]

PrepareBoxes(h, t) ==
  /\ Busy("create", h) /\ "boxes" \in Kinds
  /\ \E u \in Users, quantity \in Quantities :
       /\ DrawsFor(h, u)
       /\ Prepare(h, t, [kind |-> "boxes", quantity |-> quantity], Drawn(h, u))

\* For Sui the transactions are only built: nothing is cached, nothing is sent.
PrepareSuiBoxes(h) ==
  /\ Busy("create", h) /\ "boxes" \in Kinds
  /\ \E u \in Users :
       /\ DrawsFor(h, u)
       /\ NoConflict(h, DOMAIN Drawn(h, u))
       /\ docs' = Saved(docs, Drawn(h, u))
  /\ handler' = [handler EXCEPT ![h] = Idle]
  /\ UNCHANGED <<bulkPaid, prepared, chain, nft, credited>>

Stored(map, u, product) ==
  {i \in Inventories : map[i] # Free /\ map[i].user = u /\ map[i].product = product}

Enough(map, u) ==
  \A product \in DOMAIN Bulk :
    MapThenSumSet(LAMBDA i : map[i].quantity, Stored(map, u, product)) >= Bulk[product]

Lesser(a, b) == IF a < b THEN a ELSE b

\* The vault and what was paid for the bulk are read outside the transaction.
PaidAmount ==
  (Lesser((docs[Vault].tokenLocked * MaxPaidPercentage) \div 100, MaxPaidAmount)
     * (100 - bulkPaid.decrement)) \div 100

\* An amount that is not a number makes no transaction.
PrepareShip(h, t) ==
  /\ Busy("create", h) /\ "ship" \in Kinds
  /\ docs[Vault].tokenLocked # NaN
  /\ \E u \in Users : Enough(Seen(h), u)
  /\ Prepare(h, t, [kind |-> "ship", amount |-> PaidAmount], <<>>)
  /\ UNCHANGED draws

MetasOf(map, n) == {m \in Metas : map[m] # Free /\ map[m].nft = n}

\* The metadata of an NFT is found or made; nothing keeps two from being made.
PrepareWrap(h, t) ==
  /\ Busy("create", h) /\ "wrap" \in Kinds
  /\ \E n \in NFTs :
       /\ nft[n] = "free"
       /\ \/ \E m \in MetasOf(Seen(h), n) :
               Prepare(h, t, [kind |-> "wrap", nft |-> n, meta |-> m], <<>>)
          \/ /\ MetasOf(Seen(h), n) = {}
             /\ \E m \in {k \in Metas : Seen(h)[k] = Free /\ docs[k] = Free} :
                  Prepare(h, t, [kind |-> "wrap", nft |-> n, meta |-> m],
                          [key \in {m} |-> [nft |-> n, validated |-> FALSE]])
  /\ UNCHANGED draws

PrepareUnwrap(h, t) ==
  /\ Busy("create", h) /\ "unwrap" \in Kinds
  /\ \E n \in NFTs :
       /\ nft[n] = "frozen"
       /\ \E m \in MetasOf(Seen(h), n) :
            /\ ItemsOf(Seen(h), m) # {}
            /\ Prepare(h, t, [kind |-> "unwrap", nft |-> n, meta |-> m], <<>>)
  /\ UNCHANGED draws

\* conversionRate NFTs are burnt for one that is minted, here all of NFTs.
PrepareConvert(h, t) ==
  /\ "convert" \in Kinds
  /\ Prepare(h, t, [kind |-> "convert", nfts |-> NFTs], <<>>)
  /\ UNCHANGED draws
-----------------------------------------------------------------------------
(***************************************************************************)
(* send-...: what is written before, or for a bulk after, the chain        *)
(***************************************************************************)
\* The send is called with a transaction of which the cache holds what it looks for.
Writes(mutation, h, kinds) ==
  Busy("write", h) /\ handler[h].mutation = mutation /\ Tx(h).kind \in kinds

GoldsBought(order, u, map) ==
  [key \in {u} |-> [map[key] EXCEPT !.golds = @ + GoldOptions[order.index]]]

BuyGolds(h) ==
  /\ Writes("golds", h, {"selection"})
  /\ Tx(h).index \in DOMAIN GoldOptions
  /\ Write(h, GoldsBought(Tx(h), Caller(h), Seen(h)), "send")
  /\ UNCHANGED <<docs, bulkPaid, draws, prepared, chain, nft, credited>>

Refilled(user, percentage) ==
  LET max == MaxEnergy(user.level)
      newEnergy == Lesser(max, user.energy + (max * percentage) \div 100)
  IN  AddEnergy(user, newEnergy - user.energy)

EnergyBought(order, u, map) ==
  [key \in {u} |-> Refilled(map[key], EnergyOptions[order.index])]

BuyEnergy(h) ==
  /\ Writes("energy", h, {"selection"})
  /\ Tx(h).index \in DOMAIN EnergyOptions
  /\ ~Seen(h)[Caller(h)].energyFull
  /\ Write(h, EnergyBought(Tx(h), Caller(h), Seen(h)), "send")
  /\ UNCHANGED <<docs, bulkPaid, draws, prepared, chain, nft, credited>>

LandBought(order, u, map) ==
  [key \in {u} |-> [map[key] EXCEPT !.landLimitIndex = order.index]]

\* The index of the land is looked up among the options for golds.
ExpandLand(h) ==
  /\ Writes("land", h, {"selection"})
  /\ Tx(h).index \in DOMAIN GoldOptions
  /\ Tx(h).index >= Seen(h)[Caller(h)].landLimitIndex
  /\ Write(h, LandBought(Tx(h), Caller(h), Seen(h)), "send")
  /\ UNCHANGED <<docs, bulkPaid, draws, prepared, chain, nft, credited>>

Plus(a, b) == IF a = NaN \/ b = NaN THEN NaN ELSE a + b

\* What the cache holds of a conversion has no tokenAmount.
TokenAmount(order) ==
  IF order.kind = "boxes" THEN order.quantity * (BoxPrice - BoxFee) ELSE NaN

BoxesBought(order, u, map) ==
  [key \in {u, Vault} |->
     IF key = Vault THEN [tokenLocked |-> Plus(map[Vault].tokenLocked, TokenAmount(order))]
                    ELSE [map[key] EXCEPT !.nftBoxVector = NoVector]]

PurchaseBoxes(h) ==
  /\ Writes("boxes", h, {"boxes", "convert"})
  /\ Write(h, BoxesBought(Tx(h), Caller(h), Seen(h)), "send")
  /\ UNCHANGED <<docs, bulkPaid, draws, prepared, chain, nft, credited>>

\* InventoryService.remove: the largest stacks go first, the last one is cut.
Through(map, order, i) == MapThenSumSet(LAMBDA j : map[order[j]].quantity, 1 .. i)

BiggestFirst(map, stacks) ==
  SetToSortSeq(stacks, LAMBDA a, b : map[a].quantity > map[b].quantity)

Removed(map, u, product) ==
  LET order == BiggestFirst(map, Stored(map, u, product))
  IN  {s \in Inventories :
         \E j \in DOMAIN order : order[j] = s /\ Through(map, order, j) <= Bulk[product]}

Cut(map, u, product) ==
  LET order == BiggestFirst(map, Stored(map, u, product))
  IN  {s \in Inventories :
         \E j \in DOMAIN order : /\ order[j] = s
                                 /\ Through(map, order, j - 1) < Bulk[product]
                                 /\ Through(map, order, j) > Bulk[product]}

\* What is left in a stack that is cut.
Rest(map, u, s) ==
  MapThenSumSet(LAMBDA r : map[r].quantity, Removed(map, u, map[s].product) \cup {s})
    - Bulk[map[s].product]

\* The user is saved for each product.
BulkShipped(order, u, map) ==
  [key \in {u, Vault} \cup UNION {Cut(map, u, product) : product \in DOMAIN Bulk} |->
     CASE key = Vault -> [tokenLocked |-> Plus(map[Vault].tokenLocked, -order.amount)]
       [] key = u -> [map[key] EXCEPT !.tCIFARM = @ + Cardinality(DOMAIN Bulk) * BulkTCIFARM]
       [] OTHER -> [map[key] EXCEPT !.quantity = Rest(map, u, key)]]

\* Whole stacks are deleted, and the bulk is counted, outside the transaction; that
\* there is enough is not asked again.
Ship(h) ==
  /\ Busy("book", h) /\ Tx(h).kind = "ship"
  /\ Write(h, BulkShipped(Tx(h), Caller(h), Seen(h)), "commit")
  /\ \E gone \in {UNION {Removed(Seen(h), Caller(h), product) : product \in DOMAIN Bulk}} :
       /\ \A s \in gone : ~Locked(s, h)
       /\ docs' = [key \in Keys |-> IF key \in gone THEN Free ELSE docs[key]]
  /\ bulkPaid' = [count |-> bulkPaid.count + 1,
                  decrement |-> 100 - ((100 - bulkPaid.decrement) * (100 - DecrementPercentage))
                                        \div 100]
  /\ UNCHANGED <<draws, prepared, chain, nft, credited>>

Wrapped(order, u, map, i) ==
  [key \in {order.meta, i} |-> IF key = i THEN [meta |-> order.meta, user |-> u]
                                          ELSE [map[key] EXCEPT !.validated = TRUE]]

Wrap(h) ==
  /\ Writes("wrap", h, {"wrap", "unwrap"})
  /\ Seen(h)[Tx(h).meta] # Free
  /\ nft[Seen(h)[Tx(h).meta].nft] = "free"
  /\ ~Seen(h)[Tx(h).meta].validated
  /\ \E i \in {k \in Items : docs[k] = Free /\ Seen(h)[k] = Free /\ ~Locked(k, h)} :
       Write(h, Wrapped(Tx(h), Caller(h), Seen(h), i), "send")
  /\ UNCHANGED <<docs, bulkPaid, draws, prepared, chain, nft, credited>>

Unwrapped(order, i) == [key \in {order.meta, i} |-> Free]

Unwrap(h) ==
  /\ Writes("unwrap", h, {"wrap", "unwrap"})
  /\ Seen(h)[Tx(h).meta] # Free
  /\ \E i \in ItemsOf(Seen(h), Tx(h).meta) : Write(h, Unwrapped(Tx(h), i), "send")
  /\ UNCHANGED <<docs, bulkPaid, draws, prepared, chain, nft, credited>>

\* SellService asks no more of the fruit of an NFT than of another; what it pays is
\* part of Estate.
Sell ==
  /\ \E i \in Items :
       /\ docs[i] # Free
       /\ \A h \in Handlers : i \notin Locks(h)
       /\ docs' = [docs EXCEPT ![i] = Free]
  /\ UNCHANGED <<bulkPaid, draws, prepared, chain, nft, handler, credited>>

Next ==
  \/ \E h \in Handlers :
       \/ OpenCreate(h) \/ Fail(h)
       \/ \E t \in Txs :
            \/ PrepareGolds(h, t) \/ PrepareEnergy(h, t) \/ PrepareLand(h, t)
            \/ PrepareBoxes(h, t) \/ PrepareShip(h, t)
            \/ PrepareWrap(h, t) \/ PrepareUnwrap(h, t) \/ PrepareConvert(h, t)
            \/ \E u \in Users, mutation \in Kinds : Begin(h, t, u, mutation)
       \/ PrepareSuiBoxes(h)
       \/ BuyGolds(h) \/ BuyEnergy(h) \/ ExpandLand(h) \/ PurchaseBoxes(h)
       \/ Wrap(h) \/ Unwrap(h)
       \/ Submit(h) \/ Confirm(h) \/ Ship(h) \/ Commit(h)
  \/ \E t \in Txs : Execute(t)
  \/ Sell

Spec == Init /\ [][Next]_vars
-----------------------------------------------------------------------------
(***************************************************************************)
(* The promise                                                             *)
(***************************************************************************)
Purse(map) == [u \in Users |-> [golds |-> map[u].golds, tCIFARM |-> map[u].tCIFARM]]

Promise == INSTANCE Payments WITH
  NoOrder <- NoTx,
  Amounts <- {0, Cardinality(DOMAIN Bulk) * BulkTCIFARM}
               \cup {GoldOptions[o] : o \in DOMAIN GoldOptions},
  StartPurse <- Purse(StartDocs),
  orders <- [t \in Txs |-> IF prepared[t] = NoTx THEN NoTx ELSE Worth(prepared[t])],
  settled <- {t \in Txs : Landed(t)},
  delivered <- credited,
  purse <- Purse(docs)

\* The handlers implement the promise: whatever is sent twice, by another mutation or by
\* another user, confirmed late, retried after a conflict or cut short by a crash, nothing
\* is handed over before its transactions have landed, none twice to one caller, and no
\* purchase overwrites another one's golds.
PurchasesKeepPromise == Promise!Spec

\* What an order changes in the vault, each time it is booked.
TokensOf(order) ==
  CASE order.kind = "boxes" -> order.quantity * (BoxPrice - BoxFee)
    [] order.kind = "ship" -> -order.amount
    [] OTHER -> 0

\* A conversion was booked as a purchase of boxes.
Spoilt ==
  \E t \in Txs, u \in Users :
    credited[<<t, u>>] > 0 /\ prepared[t] # NoTx /\ prepared[t].kind = "convert"

\* The vault document counts the tokens of every purchase of boxes and of every shipment
\* that was booked, and of each once: they all write that document, and none may undo
\* another's.  Until a conversion is booked as boxes; from then on it is no number.
VaultLedger ==
  docs[Vault].tokenLocked =
    IF Spoilt
      THEN NaN
      ELSE StartDocs[Vault].tokenLocked
             + SumFunction([p \in Txs \X Users |->
                 IF prepared[p[1]] = NoTx
                   THEN 0 ELSE credited[p] * TokensOf(prepared[p[1]])])

\* What lies in the boxes a player was shown stands until a send for boxes that he has
\* called commits, and its transactions have landed then: a purchase that fails or is
\* prepared again, from another device even, draws no new one.
DrawStands ==
  [][\A u \in Users :
       docs[u].nftBoxVector \notin {NoVector, docs'[u].nftBoxVector} =>
         /\ docs'[u].nftBoxVector = NoVector
         /\ \E t \in Txs : /\ credited'[<<t, u>>] > credited[<<t, u>>]
                           /\ prepared[t].kind \in {"boxes", "convert"} /\ Landed(t)]_vars

\* A wrapped NFT is at most one item of the farms for each of its metadata, and the
\* metadata of an item is there and validated, whoever wraps, unwraps and sells at once.
ItemsHaveMetadata == Itemized(docs)

\* The bulks counted are those shipped, unless a shipment is just being committed: the
\* count is updated in the same transaction.
BulkPaidInTransaction ==
  (\A h \in Handlers : ~Busy("commit", h)) =>
    bulkPaid.count =
      MapThenSumSet(LAMBDA p : IF prepared[p[1]] # NoTx /\ prepared[p[1]].kind = "ship"
                                 THEN credited[p] ELSE 0, Txs \X Users)

\* One would expect more, and the code does not give it: that what is booked was executed
\* by the chain,
BookedIsExecuted == \A t \in Txs, u \in Users : credited[<<t, u>>] > 0 => ~chain[t].failed

\* that it is booked for one user,
BookedForOne ==
  \A t \in Txs, u, v \in Users : credited[<<t, u>>] > 0 /\ credited[<<t, v>>] > 0 => u = v

\* and that the tokens locked are a number.
VaultIsNumber == docs[Vault].tokenLocked # NaN
=============================================================================
