------------------------------ MODULE MCRounds ------------------------------
(* A small instance of Rounds for TLC. *)
EXTENDS MCRunner, Rounds

MCRoundsInit == RoundsInit /\ backs = 0
MCRoundsNext == RoundsNext /\ CountsBacks
MCRoundsSpec == MCRoundsInit /\ [][MCRoundsNext]_<<roundsVars, backs>>
=============================================================================
