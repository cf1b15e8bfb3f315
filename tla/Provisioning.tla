----------------------------- MODULE Provisioning -----------------------------
(***************************************************************************)
(* The two paths that provision a user: the Clerk webhook, and the JWT     *)
(* middleware when a token arrives before it.  Both insert a users row and *)
(* then a user_cash_accounts row, in statements that commit one by one:    *)
(*                                                                         *)
(*   request   idle -> slow -> inserted -> selected -> authed              *)
(*   delivery  idle -> slow -> inserted -> selected -> idle (200)          *)
(*                                                                         *)
(* A request whose look-up finds the users row goes straight to "authed".  *)
(***************************************************************************)
EXTENDS Naturals, FiniteSets

CONSTANTS
    Subjects,    \* Clerk subjects, one per person who signed up
    Requests,    \* HTTP requests that carry a valid token
    Deliveries,  \* webhook deliveries in progress at a time
    None,
    MaxFailures  \* bound: failed statements and deaths, in all

ASSUME ProcessAssumption ==
    /\ Requests \cap Deliveries = {}
    /\ None \notin [subject : Subjects, by : Requests \cup Deliveries]
ASSUME MaxFailuresAssumption == MaxFailures \in Nat

Processes == Requests \cup Deliveries

VARIABLES
    users,     \* rows of users, each as good as its id
    cash,      \* user_cash_accounts: the users that have one
    hasEmail,  \* subjects whose user.created event names a primary email
    acked,     \* subjects whose user.created event got 200
    pc,
    subject,   \* the subject each process works for
    uid,       \* the row whose id each process has got hold of, or None
    slow,      \* history: requests that took the slow path
    failures   \* bound: how much has gone wrong

vars == <<users, cash, hasEmail, acked, pc, subject, uid, slow, failures>>

-----------------------------------------------------------------------------
\* "by" is the process that inserted the row.
Rows     == [subject : Subjects, by : Processes]
Working  == {"slow", "inserted", "selected"}
Ended    == {"authed", "anonymous", "dead"}

Init ==
    /\ users = {} /\ cash = {} /\ acked = {} /\ slow = {}
    /\ hasEmail \in SUBSET Subjects
    /\ pc = [p \in Processes |-> "idle"]
    /\ subject \in [Processes -> Subjects]
    /\ uid = [p \in Processes |-> None]
    /\ failures = 0

RowsOf(s) == {u \in users : u.subject = s}

Goto(p, label) == pc' = [pc EXCEPT ![p] = label]

\* executeTakeFirst on auth0_subject.
Select(p) == \E u \in RowsOf(subject[p]) : uid' = [uid EXCEPT ![p] = u]

-----------------------------------------------------------------------------
(***************************************************************************)
(* The middleware and the webhook.                                         *)
(***************************************************************************)

\* The middleware looks the subject up: the fast path takes the row that is
\* there, whoever inserted it and however far they have got since.
LookUp(r) ==
    /\ pc[r] = "idle"
    /\ \/ RowsOf(subject[r]) # {} /\ Select(r) /\ Goto(r, "authed") /\ UNCHANGED slow
       \/ /\ RowsOf(subject[r]) = {}
          /\ Goto(r, "slow")
          /\ slow' = slow \cup {r}
          /\ UNCHANGED uid
    /\ UNCHANGED <<users, cash, hasEmail, acked, subject, failures>>

\* Fault: the webhook has a fast path too.
FaultWebhookFastPath(d, s) ==
    /\ pc[d] = "idle"
    /\ subject' = [subject EXCEPT ![d] = s]
    /\ \/ /\ s \in hasEmail /\ RowsOf(s) = {}
          /\ Goto(d, "slow") /\ UNCHANGED acked
       \/ /\ s \notin hasEmail \/ RowsOf(s) # {}
          /\ acked' = acked \cup {s} /\ UNCHANGED pc
    /\ UNCHANGED <<users, cash, hasEmail, uid, slow, failures>>

\* Svix delivers user.created: for the first time, again, or twice.  Without a
\* primary email there is nothing to do and the answer is 200.
Deliver(d, s) ==
    /\ pc[d] = "idle"
    /\ subject' = [subject EXCEPT ![d] = s]
    /\ \/ s \in hasEmail /\ Goto(d, "slow") /\ UNCHANGED acked
       \/ s \notin hasEmail /\ acked' = acked \cup {s} /\ UNCHANGED pc
    /\ UNCHANGED <<users, cash, hasEmail, uid, slow, failures>>

\* Fault: no unique key on auth0_subject.
FaultNoUniqueKey(s) == RowsOf(s) \cap cash # {}

\* INSERT ... ON CONFLICT (auth0_subject) DO NOTHING finds a row.
Conflicts(s) == RowsOf(s) # {}

\* Fault: the middleware reads a claim that the token lacks, and the row's subject
\* is NULL.
FaultRawSubject(p) ==
    /\ pc[p] = "slow"
    /\ users' = IF Conflicts(subject[p]) THEN users
                ELSE users \cup {[subject |-> None, by |-> p]}
    /\ Goto(p, "inserted")
    /\ UNCHANGED <<cash, hasEmail, acked, subject, uid, slow, failures>>

InsertUser(p) ==
    /\ pc[p] = "slow"
    /\ users' = IF Conflicts(subject[p]) THEN users
                ELSE users \cup {[subject |-> subject[p], by |-> p]}
    /\ Goto(p, "inserted")
    /\ UNCHANGED <<cash, hasEmail, acked, subject, uid, slow, failures>>

\* Fault: the id is what the INSERT would have returned.
FaultReturning(p) ==
    /\ pc[p] = "inserted"
    /\ uid' = [uid EXCEPT ![p] = [subject |-> subject[p], by |-> p]]
    /\ Goto(p, "selected")
    /\ UNCHANGED <<users, cash, hasEmail, acked, subject, slow, failures>>

Reselect(p) ==
    /\ pc[p] = "inserted"
    /\ Select(p)
    /\ Goto(p, "selected")
    /\ UNCHANGED <<users, cash, hasEmail, acked, subject, slow, failures>>

\* INSERT ... ON CONFLICT (user_id) DO NOTHING; req.auth is set, or 200 sent.
InsertCash(p) ==
    /\ pc[p] = "selected"
    /\ cash' = cash \cup {uid[p]}
    /\ \/ /\ p \in Requests
          /\ Goto(p, "authed")
          /\ UNCHANGED <<acked, uid>>
       \/ /\ p \in Deliveries
          /\ Goto(p, "idle")
          /\ acked' = acked \cup {subject[p]}
          /\ uid' = [uid EXCEPT ![p] = None]
    /\ UNCHANGED <<users, hasEmail, subject, slow, failures>>

GoesWrong == failures < MaxFailures /\ failures' = failures + 1

\* A statement fails or the process dies: a request goes on without req.auth or
\* is lost, and keeps nothing of what it had found out.
RequestFails(r) ==
    /\ pc[r] \in {"idle"} \cup Working
    /\ GoesWrong
    /\ Goto(r, "anonymous") \/ Goto(r, "dead")
    /\ uid' = [uid EXCEPT ![r] = None]
    /\ UNCHANGED <<users, cash, hasEmail, acked, subject, slow>>

\* 500, or no answer at all: Svix will deliver the event again.
DeliveryFails(d) ==
    /\ pc[d] \in Working
    /\ GoesWrong
    /\ Goto(d, "idle")
    /\ uid' = [uid EXCEPT ![d] = None]
    /\ UNCHANGED <<users, cash, hasEmail, acked, subject, slow>>

\* What the two paths have in common.
Provision(p) == InsertUser(p) \/ Reselect(p) \/ InsertCash(p)

ClerkJwtMiddleware(r) == LookUp(r) \/ Provision(r)

Next ==
    \/ \E r \in Requests : ClerkJwtMiddleware(r) \/ RequestFails(r)
    \/ \E d \in Deliveries :
          \/ Provision(d) \/ DeliveryFails(d)
          \/ \E s \in Subjects : Deliver(d, s)

Spec == Init /\ [][Next]_vars

\* Statements settle, and Svix delivers again what did not get 200, however many
\* other deliveries come first.  Nobody has to send a request.
Fairness ==
    /\ \A p \in Processes : WF_vars(Provision(p))
    /\ \A s \in Subjects :
          SF_vars(s \notin acked /\ \E d \in Deliveries : Deliver(d, s))

FairSpec == Spec /\ Fairness

-----------------------------------------------------------------------------
(***************************************************************************)
(* Properties.                                                             *)
(***************************************************************************)
TypeOK ==
    /\ users \subseteq Rows
    /\ cash \subseteq users
    /\ hasEmail \subseteq Subjects
    /\ acked \subseteq Subjects
    /\ pc \in [Processes -> {"idle"} \cup Working \cup Ended]
    /\ subject \in [Processes -> Subjects]
    /\ uid \in [Processes -> Rows \cup {None}]
    /\ slow \subseteq Requests
    /\ failures \in 0..MaxFailures

Has(s) == RowsOf(s) \cap cash # {}

\* "exactly one row is created and all requests get the same user ID", and the
\* two paths agree on it as well.
OneIdentity ==
    /\ \A u, v \in users : u.subject = v.subject => u = v
    /\ \A p \in Processes :
          pc[p] \in {"selected", "authed"} =>
              uid[p] \in RowsOf(subject[p])

\* Whatever fails on the way, and whoever inserted the users row, a person whose
\* event names an email ends with both rows.
EventuallyProvisioned == \A s \in Subjects : s \in hasEmail ~> Has(s)
-----------------------------------------------------------------------------
(***************************************************************************)
(* The two paths implement the registry: a person is registered when the   *)
(* users row appears, whichever path inserts it.                           *)
(***************************************************************************)
OneOf(rows) == IF rows = {} THEN None ELSE CHOOSE u \in rows : TRUE
IdOf(s) == OneOf(RowsOf(s))

Persons   == [r \in Requests |-> subject[r]]
Identity  == [s \in Subjects |-> IdOf(s)]
Accounts  == {s \in Subjects : Has(s)}
Sessions  == [r \in Requests |-> IF pc[r] = "authed" THEN uid[r] ELSE None]
Confirmed == acked \cap hasEmail

Registry == INSTANCE UserRegistry WITH
    People <- Subjects, Ids <- Rows, Clients <- Requests, Nobody <- None,
    person <- Persons, id <- Identity, accounts <- Accounts, newcomers <- slow,
    session <- Sessions, confirmed <- Confirmed

\* Each step of a statement, an answer or a failure is a step of the registry or
\* none: no interleaving of the paths shows anything but one registration.
ImplementsRegistry == Registry!Spec
=============================================================================
