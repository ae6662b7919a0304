---------------------------- MODULE MCAccounts ----------------------------
(* Two players of one network, another id for who signs up, and two clients. *)
EXTENDS Accounts, TLC

CONSTANTS u1, u2, u3, t1, t2, c1, c2, w1, w2, w3, n1, n2, m1

MCNetwork == [w \in Wallets |-> IF w = w3 THEN "mainnet" ELSE "testnet"]

MCUsers ==
  [u \in Ids |->
     CASE u = u1 -> NewUser(w1, n1)
       [] u = u2 -> [NewUser(w2, n2) EXCEPT !.followX = TRUE, !.golds = FollowXReward]
       [] OTHER -> Free]

Symmetric == Permutations(Clients) \cup Permutations(Tokens)
=============================================================================
