-------------------------- MODULE MCLeaderElection --------------------------
(***************************************************************************)
(* Two replicas.                                                           *)
(***************************************************************************)
EXTENDS LeaderElection

MCVersions == 1 .. 6
=============================================================================
