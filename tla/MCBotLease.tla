----------------------------- MODULE MCBotLease -----------------------------
(* Instances of BotLease for TLC. *)
EXTENDS BotLease

CONSTANTS g1, g2   \* gateway processes, named for the configurations
==============================================================================
