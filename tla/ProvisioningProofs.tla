-------------------------- MODULE ProvisioningProofs --------------------------
(***************************************************************************)
(* Safety of the two provisioning paths, for any number of people,         *)
(* requests and deliveries, and any number of failures; and the proof that *)
(* together they implement UserRegistry.                                   *)
(***************************************************************************)
EXTENDS Provisioning, TLAPS

-----------------------------------------------------------------------------
(***************************************************************************)
(* The inductive invariant: what a process knows once it is past a         *)
(* statement.  No users row is ever deleted, so it goes on knowing it.     *)
(***************************************************************************)

\* A delivery that is told 200 leaves nothing to do: Svix will not come back,
\* and no other path will add the cash account of a user that exists.
WebhookCompletes == \A s \in acked \cap hasEmail : Has(s)

\* The middleware mirrors the webhook: a request that took the slow path and
\* was authenticated has seen to the cash account.
SlowPathCompletes ==
    \A r \in slow : pc[r] = "authed" => uid[r] \in cash

\* The unique key on auth0_subject.
OneRowEach == \A u, v \in users : u.subject = v.subject => u = v

\* A process past its INSERT will find a row of its subject, and past its SELECT
\* it holds one.
Progress ==
    \A p \in Processes :
        /\ pc[p] = "inserted" => RowsOf(subject[p]) # {}
        /\ pc[p] \in {"selected", "authed"} => uid[p] \in RowsOf(subject[p])

\* A slow request has left the start, and once authenticated it has its account;
\* only slow requests execute statements.
SlowRequests ==
    /\ \A r \in slow :
          /\ pc[r] # "idle"
          /\ pc[r] = "authed" => uid[r] \in cash
    /\ \A r \in Requests : pc[r] \in Working => r \in slow

IInv ==
    /\ TypeOK
    /\ OneRowEach
    /\ Progress
    /\ SlowRequests
    /\ WebhookCompletes

\* What a step does to the tables is all that the invariant needs to know of
\* the others' progress: rows stay.
LEMMA RowsStay ==
    ASSUME NEW s, users \subseteq users'
    PROVE  RowsOf(s) \subseteq RowsOf(s)'
  BY DEF RowsOf

\* A person that has both rows keeps them.
LEMMA AccountsStay ==
    ASSUME NEW s, users \subseteq users', cash \subseteq cash', Has(s)
    PROVE  Has(s)'
  BY DEF Has, RowsOf

\* A step of process p that adds nothing to the tables and acknowledges nothing
\* keeps the invariant, when p's new place is justified.
LEMMA QuietStep ==
    ASSUME IInv, NEW p \in Processes, TypeOK',
           UNCHANGED <<users, cash, hasEmail, acked>>,
           \A q \in Processes \ {p} :
               pc'[q] = pc[q] /\ uid'[q] = uid[q] /\ subject'[q] = subject[q],
           pc'[p] # "inserted",
           pc'[p] \in {"selected", "authed"} => uid'[p] \in RowsOf(subject'[p]),
           slow \subseteq slow', \A r \in slow' : r \in slow \/ r = p,
           p \in Requests /\ pc'[p] \in Working => p \in slow',
           p \in slow' => pc'[p] \notin {"idle", "authed"}
    PROVE  IInv'
<1>1. OneRowEach'
  BY DEF IInv, OneRowEach
<1>2. Progress'
  BY DEF IInv, Progress, RowsOf
<1>3. SlowRequests'
  BY DEF IInv, SlowRequests, TypeOK, Processes
<1>4. WebhookCompletes'
  BY DEF IInv, WebhookCompletes, Has, RowsOf
<1>5. QED
  BY <1>1, <1>2, <1>3, <1>4 DEF IInv

\* The fast path ends here only for a user whose row is there.
LEMMA LookUpPreserves ==
    ASSUME IInv, NEW r \in Requests, LookUp(r)
    PROVE  IInv'
<1>1. r \in Processes /\ r \notin slow
  BY DEF Processes, LookUp, IInv, SlowRequests
<1>2. /\ UNCHANGED <<users, cash, hasEmail, acked, subject, failures>>
      /\ \A q \in Processes \ {r} : pc'[q] = pc[q] /\ uid'[q] = uid[q]
      /\ \/ /\ pc'[r] = "authed" /\ uid'[r] \in RowsOf(subject[r])
            /\ slow' = slow
         \/ pc'[r] = "slow" /\ slow' = slow \cup {r}
  BY <1>1 DEF LookUp, Goto, Select, IInv, TypeOK
<1>3. TypeOK'
  <2>1. RowsOf(subject[r]) \subseteq Rows
    BY DEF RowsOf, IInv, TypeOK
  <2>2. uid' \in [Processes -> Rows \cup {None}]
    BY <2>1 DEF LookUp, Select, IInv, TypeOK
  <2>3. pc' \in [Processes -> {"idle"} \cup Working \cup Ended]
    BY DEF LookUp, Goto, IInv, TypeOK, Working, Ended
  <2>4. QED
    BY <1>2, <2>2, <2>3 DEF IInv, TypeOK
<1>4. "authed" \notin Working
  BY DEF Working
<1>5. QED
  BY <1>1, <1>2, <1>3, <1>4, QuietStep

\* ON CONFLICT DO NOTHING adds a row for a subject that has none, and no other.
LEMMA InsertUserPreserves ==
    ASSUME IInv, NEW p \in Processes, InsertUser(p)
    PROVE  IInv'
<1> DEFINE s == subject[p]
<1>1. /\ UNCHANGED <<cash, hasEmail, acked, subject, uid, slow, failures>>
      /\ \A q \in Processes \ {p} : pc'[q] = pc[q]
      /\ pc'[p] = "inserted" /\ s \in Subjects
  BY DEF InsertUser, Goto, IInv, TypeOK
<1>2. /\ \A u \in users' \ users : u \in Rows /\ u.subject = s /\ RowsOf(s) = {}
      /\ \A u, v \in users' \ users : u = v
      /\ users \subseteq users' /\ RowsOf(s)' # {}
  <2>1. CASE RowsOf(s) # {}
    BY <2>1 DEF InsertUser, Conflicts, RowsOf
  <2>2. CASE RowsOf(s) = {}
    <3>1. users' = users \cup {[subject |-> s, by |-> p]}
      BY <2>2 DEF InsertUser, Conflicts
    <3>2. [subject |-> s, by |-> p] \in Rows /\ [subject |-> s, by |-> p].subject = s
      BY <1>1 DEF Rows
    <3>3. [subject |-> s, by |-> p] \in RowsOf(s)'
      BY <1>1, <3>1, <3>2 DEF RowsOf
    <3>4. QED
      BY <2>2, <3>1, <3>2, <3>3
  <2>3. QED
    BY <2>1, <2>2
<1>3. TypeOK'
  <2>1. pc' \in [Processes -> {"idle"} \cup Working \cup Ended]
    BY DEF InsertUser, Goto, IInv, TypeOK, Working
  <2>2. users' \subseteq Rows /\ cash' \subseteq users'
    BY <1>1, <1>2 DEF IInv, TypeOK
  <2>3. QED
    BY <1>1, <2>1, <2>2 DEF IInv, TypeOK
<1>4. OneRowEach'
  BY <1>2 DEF IInv, OneRowEach, RowsOf
<1>5. Progress'
  BY <1>1, <1>2, RowsStay DEF IInv, Progress
<1>6. SlowRequests'
  <2>1. p \in Requests => p \in slow
    BY DEF InsertUser, IInv, SlowRequests, Working
  <2>2. QED
    BY <1>1, <2>1 DEF IInv, SlowRequests, TypeOK, Processes
<1>7. WebhookCompletes'
  BY <1>1, <1>2, AccountsStay DEF IInv, WebhookCompletes
<1>8. QED
  BY <1>3, <1>4, <1>5, <1>6, <1>7 DEF IInv

\* After a conflict the row that won is read.
LEMMA ReselectPreserves ==
    ASSUME IInv, NEW p \in Processes, Reselect(p)
    PROVE  IInv'
<1>1. /\ UNCHANGED <<users, cash, hasEmail, acked, subject, slow, failures>>
      /\ \A q \in Processes \ {p} : pc'[q] = pc[q] /\ uid'[q] = uid[q]
      /\ pc'[p] = "selected" /\ uid'[p] \in RowsOf(subject[p])
  BY DEF Reselect, Goto, Select, IInv, TypeOK
<1>2. TypeOK'
  <2>1. RowsOf(subject[p]) \subseteq Rows
    BY DEF RowsOf, IInv, TypeOK
  <2>2. uid' \in [Processes -> Rows \cup {None}]
    BY <2>1 DEF Reselect, Select, IInv, TypeOK
  <2>3. pc' \in [Processes -> {"idle"} \cup Working \cup Ended]
    BY DEF Reselect, Goto, IInv, TypeOK, Working
  <2>4. QED
    BY <1>1, <2>2, <2>3 DEF IInv, TypeOK
<1>3. p \in Requests => p \in slow
  BY DEF Reselect, IInv, SlowRequests, Working
<1>4. QED
  BY <1>1, <1>2, <1>3, QuietStep

\* The cash account is that of the row inserted or read before.
LEMMA InsertCashPreserves ==
    ASSUME IInv, NEW p \in Processes, InsertCash(p)
    PROVE  IInv'
<1>1. /\ UNCHANGED <<users, hasEmail, subject, slow, failures>>
      /\ cash' = cash \cup {uid[p]}
      /\ \A q \in Processes \ {p} : pc'[q] = pc[q] /\ uid'[q] = uid[q]
      /\ \/ p \in Requests /\ pc'[p] = "authed" /\ uid' = uid /\ acked' = acked
         \/ p \in Deliveries /\ pc'[p] = "idle" /\ acked' = acked \cup {subject[p]}
  BY DEF InsertCash, Goto, IInv, TypeOK
<1>2. uid[p] \in RowsOf(subject[p]) /\ uid[p] \in users /\ subject[p] \in Subjects
  BY DEF InsertCash, IInv, Progress, RowsOf, TypeOK
<1>3. TypeOK'
  <2>1. pc' \in [Processes -> {"idle"} \cup Working \cup Ended]
    BY DEF InsertCash, Goto, IInv, TypeOK, Ended
  <2>2. uid' \in [Processes -> Rows \cup {None}]
    BY DEF InsertCash, IInv, TypeOK
  <2>3. QED
    BY <1>1, <1>2, <2>1, <2>2 DEF IInv, TypeOK
<1>4. OneRowEach'
  BY <1>1 DEF IInv, OneRowEach
<1>5. Progress'
  BY <1>1, <1>2 DEF IInv, Progress, RowsOf
<1>6. SlowRequests'
  BY <1>1, ProcessAssumption DEF IInv, SlowRequests, TypeOK, Processes, Working
<1>7. WebhookCompletes'
  <2>1. Has(subject[p])'
    BY <1>1, <1>2 DEF Has, RowsOf
  <2>2. \A s \in acked : Has(s) => Has(s)'
    BY <1>1, AccountsStay
  <2>3. QED
    BY <1>1, <2>1, <2>2 DEF IInv, WebhookCompletes
<1>8. QED
  BY <1>3, <1>4, <1>5, <1>6, <1>7 DEF IInv

\* A failure loses what its process knew and nothing else.
LEMMA FailurePreserves ==
    ASSUME IInv, NEW p \in Processes,
           \/ p \in Requests /\ RequestFails(p)
           \/ p \in Deliveries /\ DeliveryFails(p)
    PROVE  IInv'
<1>1. /\ UNCHANGED <<users, cash, hasEmail, acked, subject, slow>>
      /\ \A q \in Processes \ {p} : pc'[q] = pc[q] /\ uid'[q] = uid[q]
      /\ \/ pc'[p] \in {"anonymous", "dead"}
         \/ pc'[p] = "idle" /\ p \in Deliveries
  BY DEF RequestFails, DeliveryFails, Goto, IInv, TypeOK
<1>2. TypeOK'
  <2>1. pc' \in [Processes -> {"idle"} \cup Working \cup Ended]
    BY DEF RequestFails, DeliveryFails, Goto, IInv, TypeOK, Ended
  <2>2. uid' \in [Processes -> Rows \cup {None}]
    BY DEF RequestFails, DeliveryFails, IInv, TypeOK
  <2>3. failures' \in 0..MaxFailures
    BY MaxFailuresAssumption DEF RequestFails, DeliveryFails, GoesWrong, IInv, TypeOK
  <2>4. QED
    BY <1>1, <2>1, <2>2, <2>3 DEF IInv, TypeOK
<1>3. p \in slow => pc'[p] \notin {"idle", "authed"}
  BY <1>1, ProcessAssumption DEF IInv, TypeOK
<1>4. p \in Requests => pc'[p] \notin Working
  BY <1>1, ProcessAssumption DEF Working
<1>5. QED
  BY <1>1, <1>2, <1>3, <1>4, QuietStep

\* A delivery of the Clerk webhook starts afresh.
LEMMA DeliverPreserves ==
    ASSUME IInv, NEW d \in Deliveries, NEW s \in Subjects, Deliver(d, s)
    PROVE  IInv'
<1>1. d \in Processes /\ d \notin slow
  BY ProcessAssumption DEF Processes, IInv, TypeOK
<1>2. /\ UNCHANGED <<users, cash, hasEmail, uid, slow, failures>>
      /\ \A q \in Processes \ {d} : pc'[q] = pc[q] /\ subject'[q] = subject[q]
      /\ \/ pc'[d] = "slow" /\ acked' = acked
         \/ pc'[d] = "idle" /\ s \notin hasEmail /\ acked' = acked \cup {s}
  BY <1>1 DEF Deliver, Goto, IInv, TypeOK
<1>3. TypeOK'
  <2>1. pc' \in [Processes -> {"idle"} \cup Working \cup Ended]
    BY DEF Deliver, Goto, IInv, TypeOK, Working
  <2>2. subject' \in [Processes -> Subjects]
    BY DEF Deliver, IInv, TypeOK
  <2>3. QED
    BY <1>2, <2>1, <2>2 DEF IInv, TypeOK
<1>4. OneRowEach'
  BY <1>2 DEF IInv, OneRowEach
<1>5. Progress'
  BY <1>2 DEF IInv, Progress, RowsOf
<1>6. SlowRequests'
  BY <1>1, <1>2, ProcessAssumption DEF IInv, SlowRequests, TypeOK, Processes
<1>7. WebhookCompletes'
  BY <1>2, AccountsStay DEF IInv, WebhookCompletes
<1>8. QED
  BY <1>3, <1>4, <1>5, <1>6, <1>7 DEF IInv

-----------------------------------------------------------------------------
\* The inductive invariant holds in every state of every behaviour.
THEOREM ProvisioningInvariant == Spec => []IInv
<1>1. Init => IInv
  <2> SUFFICES ASSUME Init PROVE IInv
    OBVIOUS
  <2>1. TypeOK
    BY MaxFailuresAssumption DEF Init, TypeOK
  <2>2. OneRowEach /\ Progress /\ SlowRequests /\ WebhookCompletes
    BY DEF Init, OneRowEach, Progress, SlowRequests, WebhookCompletes, Processes, Working
  <2>3. QED
    BY <2>1, <2>2 DEF IInv
<1>2. IInv /\ [Next]_vars => IInv'
  <2> SUFFICES ASSUME IInv, [Next]_vars PROVE IInv'
    OBVIOUS
  <2>1. ASSUME NEW r \in Requests, ClerkJwtMiddleware(r) PROVE IInv'
    BY <2>1, LookUpPreserves, InsertUserPreserves, ReselectPreserves, InsertCashPreserves
       DEF ClerkJwtMiddleware, Provision, Processes
  <2>2. ASSUME NEW d \in Deliveries, Provision(d) PROVE IInv'
    BY <2>2, InsertUserPreserves, ReselectPreserves, InsertCashPreserves
       DEF Provision, Processes
  <2>3. ASSUME NEW d \in Deliveries, NEW s \in Subjects, Deliver(d, s) PROVE IInv'
    BY <2>3, DeliverPreserves
  <2>4. ASSUME NEW r \in Requests, RequestFails(r) PROVE IInv'
    BY <2>4, FailurePreserves DEF Processes
  <2>5. ASSUME NEW d \in Deliveries, DeliveryFails(d) PROVE IInv'
    BY <2>5, FailurePreserves DEF Processes
  <2>6. CASE UNCHANGED vars
    <3>1. TypeOK'
      BY <2>6 DEF vars, IInv, TypeOK
    <3>2. OneRowEach' /\ Progress' /\ SlowRequests' /\ WebhookCompletes'
      BY <2>6 DEF vars, IInv, OneRowEach, Progress, SlowRequests, WebhookCompletes,
                  Has, RowsOf
    <3>3. QED
      BY <3>1, <3>2 DEF IInv
  <2>7. QED
    BY <2>1, <2>2, <2>3, <2>4, <2>5, <2>6 DEF Next
<1>3. QED
  BY <1>1, <1>2, PTL DEF Spec

\* Every variable keeps its type; above all, no cash account is without its user.
THEOREM ProvisioningTypes == Spec => []TypeOK
<1>1. IInv => TypeOK
  BY DEF IInv
<1>2. QED
  BY <1>1, ProvisioningInvariant, PTL

\* However many first requests and deliveries race to insert a person, there is
\* one row for that person and everybody works with it.
THEOREM OneIdentityAlways == Spec => []OneIdentity
<1>1. IInv => OneIdentity
  BY DEF IInv, OneRowEach, Progress, OneIdentity
<1>2. QED
  BY <1>1, ProvisioningInvariant, PTL

\* An event that was answered 200 leaves nothing to do.
THEOREM WebhookAlwaysCompletes == Spec => []WebhookCompletes
<1>1. IInv => WebhookCompletes
  BY DEF IInv
<1>2. QED
  BY <1>1, ProvisioningInvariant, PTL

\* A request that was authenticated on the slow path left a cash account.
THEOREM SlowPathAlwaysCompletes == Spec => []SlowPathCompletes
<1>1. IInv => SlowPathCompletes
  BY DEF IInv, SlowRequests, SlowPathCompletes
<1>2. QED
  BY <1>1, ProvisioningInvariant, PTL

-----------------------------------------------------------------------------
(***************************************************************************)
(* The two paths implement UserRegistry.                                   *)
(***************************************************************************)

\* A person's id is the one row, or None as long as there is none.
LEMMA IdIsTheRow ==
    ASSUME TypeOK, OneRowEach, NEW s \in Subjects
    PROVE  /\ Identity[s] = None <=> RowsOf(s) = {}
           /\ \A u \in RowsOf(s) : Identity[s] = u
<1>1. \A u \in RowsOf(s) : u \in users /\ u \in Rows /\ u.subject = s
  BY DEF RowsOf, TypeOK
<1>2. None \notin Rows
  BY ProcessAssumption DEF Rows, Processes
<1>3. \A u, v \in RowsOf(s) : u = v
  BY <1>1 DEF OneRowEach
<1>4. RowsOf(s) # {} => IdOf(s) \in RowsOf(s)
  BY DEF IdOf, OneOf
<1>5. RowsOf(s) = {} => IdOf(s) = None
  BY DEF IdOf, OneOf
<1>6. Identity[s] = IdOf(s)
  BY DEF Identity
<1>7. QED
  BY <1>1, <1>2, <1>3, <1>4, <1>5, <1>6

LEMMA SameRowsSameId ==
    ASSUME NEW s, RowsOf(s)' = RowsOf(s)
    PROVE  IdOf(s)' = IdOf(s)
  BY DEF IdOf

\* The registry depends on the two tables only, besides sessions and answers.
LEMMA TablesDetermine ==
    ASSUME UNCHANGED <<users, cash>>
    PROVE  UNCHANGED <<Identity, Accounts>>
<1>1. \A s : RowsOf(s)' = RowsOf(s)
  BY DEF RowsOf
<1>2. ASSUME NEW s PROVE IdOf(s)' = IdOf(s)
  BY <1>1, SameRowsSameId
<1>3. ASSUME NEW s PROVE Has(s)' <=> Has(s)
  BY <1>1 DEF Has
<1>4. QED
  BY <1>2, <1>3 DEF Identity, Accounts

\* A step that opens no session shows none.
LEMMA SessionsStay ==
    ASSUME TypeOK, NEW p, \A q \in Requests \ {p} : pc'[q] = pc[q] /\ uid'[q] = uid[q],
           p \in Requests => pc[p] # "authed" /\ pc'[p] # "authed"
    PROVE  UNCHANGED Sessions
<1>1. \A q \in Requests :
        (IF pc[q] = "authed" THEN uid[q] ELSE None)' = IF pc[q] = "authed" THEN uid[q] ELSE None
  OBVIOUS
<1>2. QED
  BY <1>1 DEF Sessions

\* The look-up finds the person registered, and the session is opened; or it
\* does not, and the client has come early.
LEMMA LookUpIsArrival ==
    ASSUME IInv, IInv', NEW r \in Requests, LookUp(r)
    PROVE  Registry!ComeEarly(r) \/ Registry!OpenSession(r)
<1> DEFINE s == subject[r]
<1>1. /\ r \in Processes /\ s \in Subjects /\ Persons[r] = s /\ r \notin slow
      /\ pc[r] = "idle" /\ Sessions[r] = None
  BY DEF LookUp, IInv, TypeOK, Processes, Persons, SlowRequests, Sessions
<1>2. /\ UNCHANGED <<users, cash>> /\ UNCHANGED <<Identity, Accounts, Persons, Confirmed>>
      /\ \A q \in Processes \ {r} : pc'[q] = pc[q] /\ uid'[q] = uid[q]
  <2>1. UNCHANGED <<users, cash, hasEmail, acked, subject>>
    BY DEF LookUp
  <2>2. \A q \in Processes \ {r} : pc'[q] = pc[q] /\ uid'[q] = uid[q]
    BY DEF LookUp, Goto, Select, IInv, TypeOK
  <2>3. QED
    BY <2>1, <2>2, TablesDetermine DEF Persons, Confirmed
<1>3. CASE RowsOf(s) # {} /\ Select(r) /\ Goto(r, "authed") /\ UNCHANGED slow
  <2>1. uid'[r] \in RowsOf(s) /\ pc'[r] = "authed"
    BY <1>1, <1>3 DEF Select, Goto, IInv, TypeOK
  <2>2. Identity[s] = uid'[r] /\ Identity[s] # None
    BY <1>1, <1>3, <2>1, IdIsTheRow DEF IInv
  <2>3. Sessions' = [Sessions EXCEPT ![r] = Identity[s]]
    BY <1>2, <2>1, <2>2 DEF Sessions, Processes
  <2>4. QED
    BY <1>1, <1>2, <1>3, <2>2, <2>3 DEF Registry!OpenSession, Registry!Registered
<1>4. CASE RowsOf(s) = {} /\ Goto(r, "slow") /\ slow' = slow \cup {r} /\ UNCHANGED uid
  <2>1. pc'[r] = "slow"
    BY <1>1, <1>4 DEF Goto, IInv, TypeOK
  <2>2. UNCHANGED Sessions
    BY <1>1, <1>2, <2>1, SessionsStay DEF IInv, Processes
  <2>3. Identity[s] = None
    BY <1>1, <1>4, IdIsTheRow DEF IInv
  <2>4. QED
    BY <1>1, <1>2, <1>4, <2>2, <2>3 DEF Registry!ComeEarly, Registry!Registered
<1>5. QED
  BY <1>3, <1>4 DEF LookUp

\* The INSERT registers the person, or conflicts and shows nothing.
LEMMA InsertUserIsRegister ==
    ASSUME IInv, IInv', NEW p \in Processes, InsertUser(p)
    PROVE  \/ \E i \in Rows : Registry!Register(subject[p], i)
           \/ UNCHANGED Registry!vars
<1> PICK s \in Subjects : s = subject[p]
  BY DEF IInv, TypeOK
<1> DEFINE i == [subject |-> s, by |-> p]
<1>1. /\ pc[p] = "slow" /\ pc'[p] = "inserted"
      /\ \A q \in Processes \ {p} : pc'[q] = pc[q] /\ uid'[q] = uid[q]
      /\ UNCHANGED <<cash, hasEmail, acked, subject, slow>>
  BY DEF InsertUser, Goto, IInv, TypeOK
<1>2. UNCHANGED <<Persons, slow, Sessions, Confirmed>>
  <2>1. UNCHANGED Sessions
    BY <1>1, SessionsStay DEF IInv, Processes
  <2>2. QED
    BY <1>1, <2>1 DEF Persons, Confirmed
<1>3. CASE RowsOf(s) # {}
  <2>1. users' = users
    BY <1>3 DEF InsertUser, Conflicts
  <2>2. UNCHANGED <<Identity, Accounts>>
    BY <1>1, <2>1, TablesDetermine
  <2>3. QED
    BY <1>2, <2>2 DEF Registry!vars
<1>4. CASE RowsOf(s) = {}
  <2>1. users' = users \cup {i} /\ i \in Rows /\ i.subject = s
    BY <1>1, <1>4 DEF InsertUser, Conflicts, Rows
  <2>2. /\ \A t \in Subjects \ {s} : RowsOf(t)' = RowsOf(t)
        /\ RowsOf(s)' = {i}
    BY <1>4, <2>1 DEF RowsOf
  <2>3. Identity' = [Identity EXCEPT ![s] = i]
    <3>1. IdOf(s)' = i
      BY <2>2 DEF IdOf, OneOf
    <3>2. \A t \in Subjects \ {s} : IdOf(t)' = IdOf(t)
      BY <2>2, SameRowsSameId
    <3>3. QED
      BY <3>1, <3>2 DEF Identity
  <2>4. UNCHANGED Accounts
    <3>1. i \notin users /\ i \notin cash
      BY <1>4, <2>1 DEF RowsOf, IInv, TypeOK
    <3>2. \A t \in Subjects : Has(t)' <=> Has(t)
      BY <1>1, <1>4, <2>2, <3>1 DEF Has
    <3>3. QED
      BY <3>2 DEF Accounts
  <2>5. \A t \in Subjects : Identity[t] # i
    <3>1. ASSUME NEW t \in Subjects, Identity[t] = i PROVE FALSE
      <4>1. i # None
        BY <2>1, ProcessAssumption DEF Rows, Processes
      <4>2. i \in RowsOf(t)
        BY <3>1, <4>1, IdIsTheRow DEF IInv
      <4>3. QED
        BY <1>4, <2>1, <4>2 DEF RowsOf
    <3>2. QED
      BY <3>1
  <2>6. Identity[s] = None
    BY <1>1, <1>4, IdIsTheRow DEF IInv
  <2>7. Registry!Register(s, i)
    BY <1>2, <2>3, <2>4, <2>5, <2>6 DEF Registry!Register, Registry!Registered
  <2>8. QED
    BY <2>1, <2>7
<1>5. QED
  BY <1>3, <1>4

\* The cash account of the row that the process holds is its person's.
LEMMA InsertCashOpensAccount ==
    ASSUME IInv, NEW p \in Processes, InsertCash(p)
    PROVE  /\ UNCHANGED Identity /\ Identity[subject[p]] = uid[p] /\ uid[p] # None
           /\ Accounts' = Accounts \cup {subject[p]}
<1> PICK s \in Subjects : s = subject[p]
  BY DEF IInv, TypeOK
<1>1. uid[p] \in RowsOf(s)
  BY DEF InsertCash, IInv, TypeOK, Progress
<1>2. users' = users /\ cash' = cash \cup {uid[p]}
  BY DEF InsertCash
<1>3. \A t : RowsOf(t)' = RowsOf(t)
  BY <1>2 DEF RowsOf
<1>4. UNCHANGED Identity
  BY <1>3, SameRowsSameId DEF Identity
<1>5. Identity[s] = uid[p] /\ uid[p] # None
  BY <1>1, IdIsTheRow DEF IInv
<1>6. Has(s)'
  BY <1>1, <1>2, <1>3 DEF Has
<1>7. \A t \in Subjects \ {s} : Has(t)' <=> Has(t)
  BY <1>1, <1>2, <1>3 DEF Has, RowsOf
<1>8. QED
  BY <1>1, <1>4, <1>5, <1>6, <1>7 DEF Accounts

\* The webhook does nothing for an event without primary email.
DeliveriesHaveEmail ==
    \A d \in Deliveries : pc[d] \in Working => subject[d] \in hasEmail

LEMMA DeliveriesAlwaysHaveEmail == Spec => []DeliveriesHaveEmail
<1>1. Init => DeliveriesHaveEmail
  BY DEF Init, DeliveriesHaveEmail, Working, Processes
<1>2. IInv /\ DeliveriesHaveEmail /\ [Next]_vars => DeliveriesHaveEmail'
  <2> SUFFICES ASSUME IInv, DeliveriesHaveEmail, [Next]_vars PROVE DeliveriesHaveEmail'
    OBVIOUS
  <2>1. ASSUME NEW p \in Processes, Provision(p) PROVE DeliveriesHaveEmail'
    BY <2>1 DEF Provision, InsertUser, Reselect, InsertCash, Goto, IInv, TypeOK,
                DeliveriesHaveEmail, Working, Processes
  <2>2. ASSUME NEW r \in Requests, LookUp(r) \/ RequestFails(r) PROVE DeliveriesHaveEmail'
    BY <2>2, ProcessAssumption DEF LookUp, RequestFails, Goto, IInv, TypeOK,
                                   DeliveriesHaveEmail, Processes
  <2>3. ASSUME NEW d \in Deliveries, DeliveryFails(d) PROVE DeliveriesHaveEmail'
    BY <2>3 DEF DeliveryFails, Goto, IInv, TypeOK, DeliveriesHaveEmail, Working, Processes
  <2>4. ASSUME NEW d \in Deliveries, NEW s \in Subjects, Deliver(d, s)
        PROVE  DeliveriesHaveEmail'
    BY <2>4 DEF Deliver, Goto, IInv, TypeOK, DeliveriesHaveEmail, Working, Processes
  <2>5. CASE UNCHANGED vars
    BY <2>5 DEF vars, DeliveriesHaveEmail
  <2>6. QED
    BY <2>1, <2>2, <2>3, <2>4, <2>5 DEF Next, ClerkJwtMiddleware, Processes
<1>3. QED
  BY <1>1, <1>2, ProvisioningInvariant, PTL DEF Spec

LEMMA InsertCashIsSessionOrConfirm ==
    ASSUME IInv, DeliveriesHaveEmail, NEW p \in Processes, InsertCash(p)
    PROVE  \/ p \in Requests /\ Registry!OpenSession(p)
           \/ Registry!Confirm(subject[p])
<1> PICK s \in Subjects : s = subject[p]
  BY DEF IInv, TypeOK
<1>1. /\ UNCHANGED Identity /\ Identity[s] = uid[p] /\ uid[p] # None
      /\ Accounts' = Accounts \cup {s}
  BY InsertCashOpensAccount
<1>2. /\ pc[p] = "selected" /\ UNCHANGED <<hasEmail, subject, slow>>
      /\ \A q \in Processes \ {p} : pc'[q] = pc[q] /\ uid'[q] = uid[q]
      /\ UNCHANGED Persons
  BY DEF InsertCash, Goto, IInv, TypeOK, Persons
<1>3. CASE p \in Requests
  <2>1. pc'[p] = "authed" /\ uid' = uid /\ acked' = acked
    BY <1>3, ProcessAssumption DEF InsertCash, Goto, IInv, TypeOK
  <2>2. p \in slow /\ Persons[p] = s /\ Sessions[p] = None
    BY <1>2, <1>3 DEF IInv, SlowRequests, Working, Persons, Sessions
  <2>3. Sessions' = [Sessions EXCEPT ![p] = Identity[s]]
    BY <1>1, <1>2, <1>3, <2>1 DEF Sessions, Processes
  <2>4. UNCHANGED Confirmed
    BY <1>2, <2>1 DEF Confirmed
  <2>5. QED
    BY <1>1, <1>2, <1>3, <2>2, <2>3, <2>4 DEF Registry!OpenSession, Registry!Registered
<1>4. CASE p \in Deliveries
  <2>1. acked' = acked \cup {s} /\ p \notin Requests
    BY <1>4, ProcessAssumption DEF InsertCash
  <2>2. UNCHANGED Sessions
    BY <1>2, <2>1, SessionsStay DEF IInv, Processes
  <2>3. s \in hasEmail
    BY <1>2, <1>4 DEF DeliveriesHaveEmail, Working
  <2>4. Confirmed' = Confirmed \cup {s}
    BY <1>2, <2>1, <2>3 DEF Confirmed
  <2>5. QED
    BY <1>1, <1>2, <2>2, <2>4 DEF Registry!Confirm, Registry!Registered
<1>5. QED
  BY <1>3, <1>4 DEF Processes

\* Nothing else shows.
LEMMA QuietForRegistry ==
    ASSUME IInv, NEW p \in Processes, UNCHANGED <<users, cash, slow>>,
           UNCHANGED Persons, UNCHANGED Confirmed,
           \A q \in Processes \ {p} : pc'[q] = pc[q] /\ uid'[q] = uid[q],
           p \in Requests => pc[p] # "authed" /\ pc'[p] # "authed"
    PROVE  UNCHANGED Registry!vars
<1>1. UNCHANGED <<Identity, Accounts>>
  BY TablesDetermine
<1>2. UNCHANGED Sessions
  BY SessionsStay DEF IInv, Processes
<1>3. QED
  BY <1>1, <1>2 DEF Registry!vars

\* clerkJwtMiddleware and clerkWebhookHandler implement the registry: however
\* their statements interleave, repeat and fail, each person is registered at one
\* instant and works under one id for good.
THEOREM PathsImplementRegistry == Spec => ImplementsRegistry
<1>1. Init => Registry!Init
  <2> SUFFICES ASSUME Init PROVE Registry!Init
    OBVIOUS
  <2>1. \A s : RowsOf(s) = {}
    BY DEF Init, RowsOf
  <2>2. Identity = [s \in Subjects |-> None] /\ Accounts = {} /\ Confirmed = {} /\ slow = {}
    BY <2>1 DEF Init, Identity, IdOf, OneOf, Accounts, Has, Confirmed
  <2>3. Persons \in [Requests -> Subjects] /\ Sessions = [r \in Requests |-> None]
    BY DEF Init, Persons, Sessions, Processes
  <2>4. QED
    BY <2>2, <2>3 DEF Registry!Init
<1>2. IInv /\ IInv' /\ DeliveriesHaveEmail /\ [Next]_vars => [Registry!Next]_(Registry!vars)
  <2> SUFFICES ASSUME IInv, IInv', DeliveriesHaveEmail, [Next]_vars
               PROVE  Registry!Next \/ UNCHANGED Registry!vars
    OBVIOUS
  <2>1. ASSUME NEW r \in Requests, LookUp(r) PROVE Registry!Next
    BY <2>1, LookUpIsArrival DEF Registry!Next
  <2>2. ASSUME NEW p \in Processes, InsertUser(p)
        PROVE  Registry!Next \/ UNCHANGED Registry!vars
    <3>1. subject[p] \in Subjects
      BY DEF IInv, TypeOK
    <3>2. QED
      BY <2>2, <3>1, InsertUserIsRegister DEF Registry!Next
  <2>3. ASSUME NEW p \in Processes, InsertCash(p) PROVE Registry!Next
    <3>1. subject[p] \in Subjects
      BY DEF IInv, TypeOK
    <3>2. QED
      BY <2>3, <3>1, InsertCashIsSessionOrConfirm DEF Registry!Next
  <2>4. ASSUME NEW p \in Processes, Reselect(p) PROVE UNCHANGED Registry!vars
    BY <2>4, QuietForRegistry DEF Reselect, Goto, Select, IInv, TypeOK, Persons, Confirmed
  <2>5. ASSUME NEW r \in Requests, RequestFails(r) PROVE UNCHANGED Registry!vars
    BY <2>5, QuietForRegistry DEF RequestFails, Goto, IInv, TypeOK, Persons, Confirmed,
                                  Working, Processes
  <2>6. ASSUME NEW d \in Deliveries, DeliveryFails(d) PROVE UNCHANGED Registry!vars
    BY <2>6, ProcessAssumption, QuietForRegistry
       DEF DeliveryFails, Goto, IInv, TypeOK, Persons, Confirmed, Processes
  <2>7. ASSUME NEW d \in Deliveries, NEW s \in Subjects, Deliver(d, s)
        PROVE  UNCHANGED Registry!vars
    <3>1. d \in Processes /\ d \notin Requests
      BY ProcessAssumption DEF Processes
    <3>2. /\ UNCHANGED <<users, cash, slow, uid, hasEmail>>
          /\ \A q \in Processes \ {d} : pc'[q] = pc[q] /\ subject'[q] = subject[q]
      BY <2>7 DEF Deliver, Goto, IInv, TypeOK
    <3>3. UNCHANGED Persons
      BY <3>1, <3>2 DEF Persons, Processes
    <3>4. UNCHANGED Confirmed
      BY <2>7 DEF Deliver, Confirmed
    <3>5. QED
      BY <3>1, <3>2, <3>3, <3>4, QuietForRegistry
  <2>8. CASE UNCHANGED vars
    <3>1. UNCHANGED <<Identity, Accounts>>
      BY <2>8, TablesDetermine DEF vars
    <3>2. QED
      BY <2>8, <3>1 DEF vars, Registry!vars, Persons, Sessions, Confirmed
  <2>9. QED
    BY <2>1, <2>2, <2>3, <2>4, <2>5, <2>6, <2>7, <2>8
       DEF Next, ClerkJwtMiddleware, Provision, Processes
<1>3. QED
  BY <1>1, <1>2, ProvisioningInvariant, DeliveriesAlwaysHaveEmail, PTL
     DEF Spec, ImplementsRegistry, Registry!Spec

-----------------------------------------------------------------------------
(***************************************************************************)
(* What every implementation of the registry inherits.                     *)
(***************************************************************************)
LEMMA RegistryKeepsSound ==
    ASSUME Registry!TypeOK, Registry!RegistrySound, [Registry!Next]_(Registry!vars)
    PROVE  Registry!TypeOK' /\ Registry!RegistrySound'
<1> USE DEF Registry!TypeOK, Registry!RegistrySound, Registry!Registered
<1>0. None \notin Rows
  BY ProcessAssumption DEF Rows, Processes
<1>1. ASSUME NEW c \in Requests, Registry!ComeEarly(c)
      PROVE  Registry!TypeOK' /\ Registry!RegistrySound'
  BY <1>1 DEF Registry!ComeEarly
<1>2. ASSUME NEW c \in Requests, Registry!OpenSession(c)
      PROVE  Registry!TypeOK' /\ Registry!RegistrySound'
  BY <1>2 DEF Registry!OpenSession
<1>3. ASSUME NEW s \in Subjects, NEW i \in Rows, Registry!Register(s, i)
      PROVE  Registry!TypeOK' /\ Registry!RegistrySound'
  BY <1>0, <1>3 DEF Registry!Register
<1>4. ASSUME NEW s \in Subjects, Registry!Confirm(s)
      PROVE  Registry!TypeOK' /\ Registry!RegistrySound'
  BY <1>4 DEF Registry!Confirm
<1>5. CASE UNCHANGED Registry!vars
  BY <1>5 DEF Registry!vars
<1>6. QED
  BY <1>1, <1>2, <1>3, <1>4, <1>5 DEF Registry!Next

\* In whatever implements the registry an id is one person's, all sessions of a
\* person share it, and a confirmed person has an account.
THEOREM RegistryAlwaysSound == Registry!Spec => [](Registry!TypeOK /\ Registry!RegistrySound)
<1>1. Registry!Init => Registry!TypeOK /\ Registry!RegistrySound
  BY DEF Registry!Init, Registry!TypeOK, Registry!RegistrySound, Registry!Registered
<1>2. QED
  BY <1>1, RegistryKeepsSound, PTL DEF Registry!Spec

\* So do the middleware and the webhook.
THEOREM PathsAlwaysSound == Spec => []Registry!RegistrySound
  BY PathsImplementRegistry, RegistryAlwaysSound, PTL DEF ImplementsRegistry
=============================================================================
