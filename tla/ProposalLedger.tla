---------------------------- MODULE ProposalLedger ----------------------------
(***************************************************************************)
(* What the approve and skip mutations promise, taken together, with no    *)
(* word of how a request is executed.                                      *)
(*                                                                         *)
(* A request that sees a proposal open holds a ticket for it, uses the     *)
(* ticket for at most one decision, and may turn its approval into one     *)
(* order.  A decision or a closing shuts the proposal for good, but a      *)
(* ticket taken while it was open stays valid: the code promises no more   *)
(* than this, and the specification says so in the open.                   *)
(***************************************************************************)
CONSTANTS Proposals, Requests

VARIABLES
    open,       \* proposals that take new tickets
    tickets,    \* pairs <<request, proposal>>
    decisions,  \* records [by, proposal, action]
    orders      \* pairs <<request, proposal>>

vars == <<open, tickets, decisions, orders>>

Actions   == {"APPROVE", "SKIP"}
Decisions == [by : Requests, proposal : Proposals, action : Actions]

DecidedBy(r) == \E d \in decisions : d.by = r
DecidedOn(p) == \E d \in decisions : d.proposal = p

Init ==
    /\ open = {}
    /\ tickets = {}
    /\ decisions = {}
    /\ orders = {}

Open(p) ==
    /\ ~DecidedOn(p)
    /\ open' = open \cup {p}
    /\ UNCHANGED <<tickets, decisions, orders>>

Shut(p) ==
    /\ open' = open \ {p}
    /\ UNCHANGED <<tickets, decisions, orders>>

Consider(r, p) ==
    /\ p \in open
    /\ ~DecidedBy(r)
    /\ tickets' = tickets \cup {<<r, p>>}
    /\ UNCHANGED <<open, decisions, orders>>

Forget(r, p) ==
    /\ tickets' = tickets \ {<<r, p>>}
    /\ UNCHANGED <<open, decisions, orders>>

Decide(r, p, a) ==
    /\ <<r, p>> \in tickets
    /\ ~DecidedBy(r)
    /\ tickets' = tickets \ {<<r, p>>}
    /\ decisions' = decisions \cup {[by |-> r, proposal |-> p, action |-> a]}
    /\ open' = open \ {p}
    /\ UNCHANGED orders

Order(r, p) ==
    /\ [by |-> r, proposal |-> p, action |-> "APPROVE"] \in decisions
    /\ <<r, p>> \notin orders
    /\ orders' = orders \cup {<<r, p>>}
    /\ UNCHANGED <<open, tickets, decisions>>

Next ==
    \E p \in Proposals :
        \/ Open(p)
        \/ Shut(p)
        \/ \E r \in Requests :
              \/ Consider(r, p)
              \/ Forget(r, p)
              \/ Order(r, p)
              \/ \E a \in Actions : Decide(r, p, a)

Spec == Init /\ [][Next]_vars

TypeOK ==
    /\ open \subseteq Proposals
    /\ tickets \subseteq Requests \X Proposals
    /\ decisions \subseteq Decisions
    /\ orders \subseteq Requests \X Proposals

\* A request decides once and orders only what it approved, and a proposal
\* that has been decided is never offered again.
LedgerSound ==
    /\ \A d, e \in decisions : d.by = e.by => d = e
    /\ \A o \in orders :
          [by |-> o[1], proposal |-> o[2], action |-> "APPROVE"] \in decisions
    /\ \A p \in open : ~DecidedOn(p)
=============================================================================
