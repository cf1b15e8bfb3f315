-------------------------- MODULE MCBotConfiguration --------------------------
(***************************************************************************)
(* The instances of BotConfiguration that TLC checks.                      *)
(***************************************************************************)
EXTENDS BotConfiguration
=============================================================================
