----------------------------- MODULE MCProposals -----------------------------
(***************************************************************************)
(* The instance of Proposals that TLC checks.                              *)
(***************************************************************************)
EXTENDS Proposals

CONSTANT alice

\* alice owns every proposal: the calls of any other user are foreign ones.
MCOwner == [p \in Proposals |-> alice]
=============================================================================
