----------------------------- MODULE Storehouse -----------------------------
(***************************************************************************)
(* The inventories and the gold of one user: the handlers of apps/ws that  *)
(* fill, use, arrange, deliver and retrieve them, called from several      *)
(* devices, and the delivery job that sells the delivery box.              *)
(*                                                                         *)
(* A handler is a MongoDB transaction on a snapshot.  Begin takes the      *)
(* snapshot of a device, the handler's action decides on it and commits.   *)
(* A commit is refused when a document it writes was written since; then   *)
(* the callback runs again, which is Begin again.  What it only read may   *)
(* have changed.  The handlers that charge gold or energy write the user   *)
(* document as well; the others write inventories only.                    *)
(***************************************************************************)
EXTENDS Stacks

CONSTANTS
  Devices, Workers,
  NoTxn, NoCopy,
  Price,        \* of a seed, feed or tool in the shop, by type
  GoldAmount,   \* what a unit of a product is worth, by type
  StartGolds,
  Earnings,     \* amounts of gold a player may earn elsewhere
  MaxGolds,     \* bound: golds beyond which none are earned there
  MaxGained,    \* bound: units of a type ever obtained
  Targets,      \* bound: the indices clients ask to move to
  MaxJobs,      \* bound: delivery jobs in the queue
  MaxRetries    \* bound: retries of a worker's callback

Buyable == Seeds \cup Feeds \cup Fertilizers

\* Nothing is free: an amount of 0 would leave the user document unwritten.
ASSUME StorehouseAssumption ==
  /\ Price \in [Buyable \cup Tools -> Nat \ {0}]
  /\ GoldAmount \in [Products -> Nat]
  /\ StartGolds \in Nat
  /\ Earnings \subseteq Nat \ {0}
  /\ MaxGained \in Nat /\ Targets \subseteq Int
  /\ NoTxn \notin [docs : Collections, userWritten : BOOLEAN]
  /\ NoCopy \notin [golds : Nat, read : Nat, retries : Nat]

VARIABLES
  docs,      \* the inventories of the user
  golds,     \* user.golds
  txn,       \* of a device: its snapshot, and whether the user was written since
  jobs,      \* delivery jobs waiting
  copy,      \* of a worker: the user document it read outside its transaction
  gained,    \* history: units obtained, by type
  spent      \* history: units used or sold, by type

vars == <<docs, golds, txn, jobs, copy, gained, spent>>

InStock(type) ==
  Quantity(docs, {i \in Held(docs) : docs[i].type = type})

Box == InKind(docs, "delivery")

Init ==
  /\ docs = [i \in Ids |-> NoDoc]
  /\ golds = StartGolds
  /\ txn = [d \in Devices |-> NoTxn]
  /\ jobs = 0
  /\ copy = [w \in Workers |-> NoCopy]
  /\ gained = [type \in Types |-> 0]
  /\ spent = [type \in Types |-> 0]
-----------------------------------------------------------------------------
(***************************************************************************)
(* Transactions                                                            *)
(***************************************************************************)
Begin(d) ==
  /\ txn' = [txn EXCEPT ![d] = [docs |-> docs, userWritten |-> FALSE]]
  /\ UNCHANGED <<docs, golds, jobs, copy, gained, spent>>

Written(d, new) == {i \in Ids : new[i] # txn[d].docs[i]}

\* Mutant: the last writer wins.
NeverConflict(d, new) == TRUE

\* No document written here was written by another transaction, and a new id is new.
NoConflict(d, new) ==
  \A i \in Written(d, new) :
    /\ docs[i] = txn[d].docs[i]
    /\ docs[i] = NoDoc => \A e \in Devices : txn[e] # NoTxn => txn[e].docs[i] = NoDoc

Commit(d, new) ==
  /\ txn[d] # NoTxn
  /\ NoConflict(d, new)
  /\ docs' = [i \in Ids |-> IF i \in Written(d, new) THEN new[i] ELSE docs[i]]

OpenAfter(d, userWritten) ==
  [e \in Devices |->
     IF e = d \/ txn[e] = NoTxn THEN NoTxn
     ELSE [txn[e] EXCEPT !.userWritten = @ \/ userWritten]]

UserUntouched(d) == ~ txn[d].userWritten

CommitInventories(d, new) ==
  /\ Commit(d, new)
  /\ txn' = OpenAfter(d, FALSE)
  /\ UNCHANGED <<golds, jobs, copy, gained, spent>>

CommitWithUser(d, new) ==
  /\ Commit(d, new)
  /\ UserUntouched(d)
  /\ txn' = OpenAfter(d, TRUE)
  /\ UNCHANGED <<jobs, copy>>
-----------------------------------------------------------------------------
(***************************************************************************)
(* Handlers.  Each decides on s == txn[d].docs.                            *)
(***************************************************************************)
\* A harvest or a theft: products into the storage, energy off the user.
Gain(d, type, n) ==
  /\ txn[d] # NoTxn
  /\ gained[type] + n <= MaxGained
  /\ \E new \in AddResults(txn[d].docs, type, n, "storage", Capacity) :
       CommitWithUser(d, new)
  /\ gained' = [gained EXCEPT ![type] = @ + n]
  /\ UNCHANGED <<golds, spent>>

Buy(d, type, n) ==
  /\ txn[d] # NoTxn
  /\ golds >= Price[type] * n
  /\ gained[type] + n <= MaxGained
  /\ \E new \in AddResults(txn[d].docs, type, n, "storage", Capacity) :
       CommitWithUser(d, new)
  /\ golds' = golds - Price[type] * n
  /\ gained' = [gained EXCEPT ![type] = @ + n]
  /\ UNCHANGED spent

\* Mutant: only the toolbar is looked at.
OwnsInToolbar(s, tool) == \E i \in InKind(s, "tool") : s[i].type = tool

Owns(s, tool) == \E i \in Held(s) : s[i].type = tool

BuyTool(d, tool) ==
  /\ txn[d] # NoTxn
  /\ golds >= Price[tool]
  /\ gained[tool] < MaxGained
  /\ ~ Owns(txn[d].docs, tool)
  /\ \E new \in AddToolResults(txn[d].docs, tool, Capacity) : CommitWithUser(d, new)
  /\ golds' = golds - Price[tool]
  /\ gained' = [gained EXCEPT ![tool] = @ + 1]
  /\ UNCHANGED spent

\* Gold earned outside the inventories: a placed item sold, a daily reward.
EarnGold(d, amount) ==
  /\ golds + amount <= MaxGolds
  /\ CommitWithUser(d, txn[d].docs)
  /\ golds' = golds + amount
  /\ UNCHANGED <<gained, spent>>

\* One unit is planted, fed or spread, also of a stack of none.  Whatever lies in the
\* toolbar may be planted, and fertilizer is found in any slot.
Use(d, i) ==
  /\ txn[d] # NoTxn
  /\ i \in Held(txn[d].docs)
  /\ txn[d].docs[i].kind = "tool" \/ txn[d].docs[i].type \in Fertilizers
  /\ CommitWithUser(d, Taken(txn[d].docs, i, 1))
  /\ spent' = [spent EXCEPT ![txn[d].docs[i].type] = @ + 1]
  /\ UNCHANGED <<golds, gained>>

Delete(d, i) ==
  /\ txn[d] # NoTxn
  /\ i \in Held(txn[d].docs)
  /\ CommitInventories(d, [txn[d].docs EXCEPT ![i] = NoDoc])

Move(d, i, index, isTool) ==
  /\ txn[d] # NoTxn
  /\ \E new \in MoveResults(txn[d].docs, i, index, isTool) : CommitInventories(d, new)

Sort(d) ==
  /\ txn[d] # NoTxn
  /\ \E new \in SortResults(txn[d].docs) : CommitInventories(d, new)

\* One id per message: several are handled one after the other.
Deliver(d, i) ==
  /\ txn[d] # NoTxn
  /\ \E new \in ShiftResults(txn[d].docs, i, "storage", "delivery") :
       CommitInventories(d, new)

Retrieve(d, i) ==
  /\ txn[d] # NoTxn
  /\ \E new \in ShiftResults(txn[d].docs, i, "delivery", "storage") :
       CommitInventories(d, new)
-----------------------------------------------------------------------------
(***************************************************************************)
(* Delivery.  The scheduler queues a job every quarter of an hour.  The    *)
(* worker reads the user outside the transaction, adds the worth of the    *)
(* box to that copy, deletes the box and saves the copy: golds are set to  *)
(* what the copy says, if the copy was changed at all.                     *)
(***************************************************************************)
Schedule ==
  /\ jobs < MaxJobs
  /\ jobs' = jobs + 1
  /\ UNCHANGED <<docs, golds, txn, copy, gained, spent>>

DropJob ==
  /\ jobs > 0
  /\ jobs' = jobs - 1
  /\ UNCHANGED <<docs, golds, txn, copy, gained, spent>>

ReadsUser(w) ==
  /\ jobs > 0
  /\ copy[w] = NoCopy
  /\ jobs' = jobs - 1
  /\ copy' = [copy EXCEPT ![w] = [golds |-> golds, read |-> golds, retries |-> 0]]
  /\ UNCHANGED <<docs, golds, txn, gained, spent>>

\* Mutant: only full stacks are sold.
SellableFull ==
  Box # {} /\ \A i \in Box : docs[i].type \in Products /\ docs[i].quantity = MaxStack

Sellable == Box # {} /\ \A i \in Box : docs[i].type \in Products

Sold(type) == Quantity(docs, {i \in Box : docs[i].type = type})

\* The gold of the box, counted piece by piece for the same reason as Total.
Pieces(i) == ({i} \X (1 .. docs[i].quantity)) \X (1 .. GoldAmount[docs[i].type])

Worth == Cardinality(UNION {Pieces(i) : i \in Box})

SellsBox(w) ==
  LET sum == copy[w].golds + Worth
      changed == sum # copy[w].read
  IN  /\ copy[w] # NoCopy
      /\ Sellable
      /\ golds' = IF changed THEN sum ELSE golds
      /\ docs' = [i \in Ids |-> IF i \in Box THEN NoDoc ELSE docs[i]]
      /\ spent' = [type \in Types |-> spent[type] + Sold(type)]
      /\ txn' = [d \in Devices |->
                   IF txn[d] = NoTxn THEN NoTxn
                   ELSE [txn[d] EXCEPT !.userWritten = @ \/ changed]]
      /\ copy' = [copy EXCEPT ![w] = NoCopy]
      /\ UNCHANGED <<jobs, gained>>

\* The transaction is aborted after the copy was changed, and the callback runs again.
RetriesSale(w) ==
  /\ copy[w] # NoCopy
  /\ copy[w].retries < MaxRetries
  /\ Sellable
  /\ copy' = [copy EXCEPT ![w] = [copy[w] EXCEPT !.golds = @ + Worth,
                                              !.retries = @ + 1]]
  /\ UNCHANGED <<docs, golds, txn, jobs, gained, spent>>

\* The box is empty, or the callback throws, or the process dies.
GivesUp(w) ==
  /\ copy[w] # NoCopy
  /\ copy' = [copy EXCEPT ![w] = NoCopy]
  /\ UNCHANGED <<docs, golds, txn, jobs, gained, spent>>
-----------------------------------------------------------------------------
Handle(d) ==
  \/ \E type \in Products, n \in 1 .. MaxGained : Gain(d, type, n)
  \/ \E type \in Buyable, n \in 1 .. MaxGained : Buy(d, type, n)
  \/ \E tool \in Tools : BuyTool(d, tool)
  \/ \E amount \in Earnings : EarnGold(d, amount)
  \/ \E i \in Ids : Use(d, i)
  \/ \E i \in Ids : Delete(d, i)
  \/ \E i \in Ids, index \in Targets, isTool \in BOOLEAN : Move(d, i, index, isTool)
  \/ Sort(d)
  \/ \E i \in Ids : Deliver(d, i)
  \/ \E i \in Ids : Retrieve(d, i)

Work(w) == ReadsUser(w) \/ SellsBox(w) \/ RetriesSale(w) \/ GivesUp(w)

Next ==
  \/ \E d \in Devices : Begin(d) \/ Handle(d)
  \/ Schedule
  \/ DropJob
  \/ \E w \in Workers : Work(w)

Spec == Init /\ [][Next]_vars

\* The scheduler runs every quarter of an hour; jobs may be dropped and sales fail,
\* but not for ever.
Fairness ==
  /\ WF_vars(Schedule)
  /\ \A w \in Workers : SF_vars(ReadsUser(w)) /\ SF_vars(SellsBox(w)) /\ WF_vars(GivesUp(w))

FairSpec == Spec /\ Fairness
-----------------------------------------------------------------------------
(* Properties.                                                             *)

\* Types: every stack holds between nothing and MaxStack, no sale, purchase or stale
\* save drives the gold below zero, and a snapshot is always a whole collection.
TypeOK ==
  /\ docs \in Collections
  /\ golds \in Nat
  /\ txn \in [Devices -> [docs : Collections, userWritten : BOOLEAN] \cup {NoTxn}]
  /\ jobs \in Nat
  /\ copy \in [Workers -> [golds : Nat, read : Nat, retries : Nat] \cup {NoCopy}]
  /\ gained \in [Types -> Nat]
  /\ spent \in [Types -> Nat]

\* "Check if there's an inventory at the target index": no slot ever holds two
\* documents, whatever adds, moves, swaps, sorts and deliveries follow each other.
SlotsUnique == SlotsUniqueIn(docs)

\* No unit comes from nothing: what is in stock and what was used or sold never
\* exceeds what was obtained, although merging, sorting and moving rewrite quantities.
NothingFromNothing == \A type \in Types : InStock(type) + spent[type] <= gained[type]

\* A player never owns two of one tool, from the shop, two devices, wherever the
\* first one was moved.
ToolsOnce ==
  \A i, j \in Held(docs) :
    docs[i].type = docs[j].type /\ docs[i].type \in Tools => i = j

\* A harvest or a purchase arrives whole, spread over the stacks with room and new
\* ones, and a move to any index, merging, overflowing or swapping, loses nothing.
GoodsArrive ==
  [][\A d \in Devices :
       /\ \A type \in Types, n \in 1 .. MaxGained :
            Gain(d, type, n) \/ (type \in Buyable /\ Buy(d, type, n))
              => InStock(type)' = InStock(type) + n
       /\ \A i \in Ids, index \in Targets, isTool \in BOOLEAN :
            Move(d, i, index, isTool)
              => \A type \in Types : InStock(type)' = InStock(type)]_vars

\* Claimed of sorting, "to put the inventories in the correct order": it keeps what
\* there is of every type.
SortKeepsItems ==
  [][\A d \in Devices : Sort(d) =>
       \A type \in Types : InStock(type)' = InStock(type)]_vars

\* Expected of delivery by its test, "3 carrots, 3 quality carrots, 10 eggs sold":
\* what is delivered arrives in the box, and what is retrieved in the storage.
DeliveredGoodsArrive ==
  [][\A d \in Devices, i \in Ids : Deliver(d, i) \/ Retrieve(d, i) =>
       \A type \in Types : InStock(type)' = InStock(type)]_vars

\* Expected of a sale by its test: the golds rise by the worth of what was in the box.
DeliveryPaysWorth ==
  [][\A w \in Workers : SellsBox(w) => golds' = golds + Worth]_vars

\* Claimed of the delivery job, "deliver at 00:00, 15:00, 30:00, 45:00 each hour":
\* whatever is in the box is sold or taken out in the end.
BoxIsEmptied == (Box # {}) ~> (Box = {})

OnlyProducts == \A i \in Box : docs[i].type \in Products

\* A box of products only is sold, or changed by the player, whatever jobs are dropped
\* and whatever sales are aborted or fail.
ProductsAreSold == (Box # {} /\ OnlyProducts) ~> (Box = {} \/ ~ OnlyProducts)
=============================================================================
