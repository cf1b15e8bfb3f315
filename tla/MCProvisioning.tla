---------------------------- MODULE MCProvisioning ----------------------------
(***************************************************************************)
(* The instances of Provisioning that TLC checks.                          *)
(***************************************************************************)
EXTENDS Provisioning
=============================================================================
