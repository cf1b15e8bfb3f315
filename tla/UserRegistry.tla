----------------------------- MODULE UserRegistry -----------------------------
(***************************************************************************)
(* What the two provisioning paths promise, taken together, with no word   *)
(* of statements, conflicts or repeated deliveries: "exactly one row is    *)
(* created and all requests get the same user ID".                         *)
(*                                                                         *)
(* A person is registered at one instant, under an id for good, and every  *)
(* session is opened under that id.  A client that came before its person  *)
(* was registered leaves a cash account behind, and so does whoever        *)
(* confirms the sign-up; a client that found the person registered need    *)
(* not, which the specification says in the open.                          *)
(***************************************************************************)
CONSTANTS People, Ids, Clients, Nobody

VARIABLES
    person,     \* whom each client comes for
    id,         \* the id of each person, or Nobody before the registration
    accounts,   \* people who have a cash account
    newcomers,  \* clients that came before their person was registered
    session,    \* the id each client works under, or Nobody
    confirmed   \* people whose sign-up was confirmed

vars == <<person, id, accounts, newcomers, session, confirmed>>

Registered(s) == id[s] # Nobody

Init ==
    /\ person \in [Clients -> People]
    /\ id = [s \in People |-> Nobody]
    /\ accounts = {} /\ newcomers = {} /\ confirmed = {}
    /\ session = [c \in Clients |-> Nobody]

ComeEarly(c) ==
    /\ ~Registered(person[c]) /\ c \notin newcomers
    /\ newcomers' = newcomers \cup {c}
    /\ UNCHANGED <<person, id, accounts, session, confirmed>>

Register(s, i) ==
    /\ ~Registered(s) /\ \A t \in People : id[t] # i
    /\ id' = [id EXCEPT ![s] = i]
    /\ UNCHANGED <<person, accounts, newcomers, session, confirmed>>

\* A session is opened once, under the id of the client's person.
OpenSession(c) ==
    /\ session[c] = Nobody /\ Registered(person[c])
    /\ session' = [session EXCEPT ![c] = id[person[c]]]
    /\ accounts' = IF c \in newcomers THEN accounts \cup {person[c]} ELSE accounts
    /\ UNCHANGED <<person, id, newcomers, confirmed>>

Confirm(s) ==
    /\ Registered(s)
    /\ accounts' = accounts \cup {s}
    /\ confirmed' = confirmed \cup {s}
    /\ UNCHANGED <<person, id, newcomers, session>>

Next ==
    \/ \E c \in Clients : ComeEarly(c) \/ OpenSession(c)
    \/ \E s \in People : Confirm(s) \/ \E i \in Ids : Register(s, i)

Spec == Init /\ [][Next]_vars

TypeOK ==
    /\ person \in [Clients -> People]
    /\ id \in [People -> Ids \cup {Nobody}]
    /\ accounts \subseteq People /\ confirmed \subseteq People
    /\ newcomers \subseteq Clients
    /\ session \in [Clients -> Ids \cup {Nobody}]

\* An id is one person's, the sessions of a person share it, and a confirmed
\* person, or one with a newcomer's session, has an account under it.
RegistrySound ==
    /\ \A s, t \in People : Registered(s) /\ id[s] = id[t] => s = t
    /\ \A s \in accounts : Registered(s)
    /\ confirmed \subseteq accounts
    /\ \A c \in Clients : session[c] # Nobody =>
          /\ session[c] = id[person[c]]
          /\ c \in newcomers => person[c] \in accounts
=============================================================================
