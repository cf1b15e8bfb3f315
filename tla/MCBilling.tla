------------------------------- MODULE MCBilling -------------------------------
(***************************************************************************)
(* The instances of Billing that TLC checks.                               *)
(***************************************************************************)
EXTENDS Billing, TLC

\* Every set is symmetric: no operation compares two ids by anything but
\* equality.
Symmetry ==
    Permutations(Requests) \cup Permutations(Events) \cup Permutations(Handlers)

\* The events that were answered 200 and are not accounted for.
Unaccounted == acked \ (processed \cup captured)

\* Of acked and captured, which no action reads, only what decides whether an event
\* is accounted for: two states that agree on this have the same steps, and the
\* same properties hold after them.
Shown ==
    <<row, botVars, processed, stripeVars, event, requestVars, hpc, hand, verdict,
      captured \ processed, applied, Unaccounted>>
=============================================================================
