---------------------------- MODULE MCEnergyRegen ---------------------------
(* Two users at the end of the first level, for TLC.                       *)
EXTENDS EnergyRegen, TLC

CONSTANTS alice, bob, w1, w2

MCCreatedAt == (alice :> 1) @@ (bob :> 2)
MCExperiences == [u \in Users |-> 48]
=============================================================================
