------------------------------ MODULE Payments ------------------------------
(***************************************************************************)
(* What the purchases over a chain promise, whatever the handlers do in    *)
(* between: the chain settles an order once, by executing or by failing    *)
(* it; what was ordered is handed over only after that, at most once to    *)
(* everyone who calls for it; and the purses of the users hold what was    *)
(* handed over and nothing else.  It is not promised that the chain        *)
(* executed the order, nor that only one user gets it, nor that it is      *)
(* handed over at all or as what it was ordered as.                        *)
(***************************************************************************)
EXTENDS Integers

CONSTANTS Users, Txs, NoOrder,
  Amounts,     \* what an order may add to a purse
  StartPurse

VARIABLES
  orders,      \* of a transaction: what a purse may get for it
  settled,     \* the transactions the chain is done with
  delivered,   \* of a transaction and a user: how often it was handed over
  purse        \* of a user: golds and tCIFARM

vars == <<orders, settled, delivered, purse>>

Init ==
  /\ orders = [t \in Txs |-> NoOrder]
  /\ settled = {}
  /\ delivered = [p \in Txs \X Users |-> 0]
  /\ purse = StartPurse

Order(t, golds, tCIFARM) ==
  /\ orders[t] = NoOrder
  /\ orders' = [orders EXCEPT ![t] = [golds |-> golds, tCIFARM |-> tCIFARM]]
  /\ UNCHANGED <<settled, delivered, purse>>

Settle(t) ==
  /\ orders[t] # NoOrder /\ t \notin settled
  /\ settled' = settled \cup {t}
  /\ UNCHANGED <<orders, delivered, purse>>

\* Golds and tCIFARM are added to the purse, or something that is not in it is given.
Deliver(t, u) ==
  /\ t \in settled /\ delivered[<<t, u>>] = 0
  /\ delivered' = [delivered EXCEPT ![<<t, u>>] = 1]
  /\ \/ purse' = [purse EXCEPT ![u] = [golds |-> @.golds + orders[t].golds,
                                       tCIFARM |-> @.tCIFARM + orders[t].tCIFARM]]
     \/ purse' = purse
  /\ UNCHANGED <<orders, settled>>

Next ==
  \E t \in Txs :
    \/ \E golds, tCIFARM \in Amounts : Order(t, golds, tCIFARM)
    \/ Settle(t)
    \/ \E u \in Users : Deliver(t, u)

Spec == Init /\ [][Next]_vars
=============================================================================
