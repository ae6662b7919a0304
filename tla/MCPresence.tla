---------------------------- MODULE MCPresence ----------------------------
(* Two connections of one user, each to a node of its own. *)
EXTENDS Presence, TLC

CONSTANTS s1, s2, owner, bob, n1, n2

MCServerOf == [s \in Sockets |-> IF s = s1 THEN n1 ELSE n2]
=============================================================================
