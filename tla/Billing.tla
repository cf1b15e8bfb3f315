-------------------------------- MODULE Billing --------------------------------
(***************************************************************************)
(* The subscription of one user: selectTier, cancelSubscription and the    *)
(* Stripe webhook, over the user's row of user_subscriptions and over what *)
(* Stripe itself holds.                                                    *)
(*                                                                         *)
(* The two mutations talk to Stripe between their read and their write:    *)
(*                                                                         *)
(*   selectTier  idle -> read -> customer -> subscribed -> done            *)
(*   cancel      idle -> read -> unbilled -> paused -> done                *)
(*                                                                         *)
(* and Stripe calls back, at least once and in any order, into handlers    *)
(* that run beside them and beside each other:                             *)
(*                                                                         *)
(*   handler     idle -> received -> fresh -> decided [-> paused] -> idle  *)
(*                                                                         *)
(* Rows are read under READ COMMITTED, so that what a transaction selects  *)
(* need not hold any more when it updates; its effects appear together.    *)
(* A lapse is two UPDATEs and a COMMIT: of the row, which it locks, and    *)
(* then of the bots that are ACTIVE by now.  "paused" is after the second; *)
(* a bot that becomes ACTIVE from then on is not in it.  (That others wait *)
(* for the row from the first UPDATE on changes nothing that they find.)   *)
(***************************************************************************)
EXTENDS Naturals, FiniteSets

CONSTANTS
    Requests,    \* calls of the two mutations; a Stripe customer or
                 \* subscription is named by the call that creates it
    Events,      \* ids of Stripe events
    Handlers,    \* deliveries the API can have in progress at a time
    None         \* SQL NULL

ASSUME NoneAssumption == None \notin Requests /\ None \notin Events

VARIABLES
    row,        \* the user's row of user_subscriptions
    trading,    \* whether the user has ACTIVE bots
    late,       \* whether one of them became ACTIVE since the lapse that is
                \* under way looked for them
    processed,  \* processed_stripe_events: the ids of events
    payer,      \* Stripe: the customer of each subscription it made, or None
    live,       \* Stripe: subscriptions that are not cancelled
    event,      \* Stripe: what each event says, or None
    acked,      \* Stripe: events that a delivery got 200 for
    pc, op,
    known,      \* what each request remembers of Stripe's ids
    hpc, hand,  \* where each handler is and the event in its hands
    verdict,    \* what the handler means to do with the row it selected
    captured,   \* events whose failure went to Sentry
    applied     \* history: the events whose effects committed, counted

botVars     == <<trading, late>>
stripeVars  == <<payer, live>>
eventVars   == <<event, acked>>
requestVars == <<pc, op, known>>
handlerVars == <<hpc, hand, verdict, captured>>
vars == <<row, botVars, processed, stripeVars, eventVars, requestVars,
          handlerVars, applied>>

-----------------------------------------------------------------------------
Ops      == {"trial", "paid", "cancel"}
Kinds    == {"paid", "failed", "deleted"}
Lapsed   == {"suspended", "cancelled"}
Paid     == {"active", "past_due", "suspended"}
Statuses == {"ABSENT", "trialing", "cancelled"} \cup Paid
InFlight == {"read", "customer", "subscribed", "unbilled", "paused"}
Verdicts == {"nothing", "activate", "past_due", "suspend", "cancel"}

IdOrNone == Requests \cup {None}

\* "expired": current_period_end plus seven days has passed.
Rows   == [status : Statuses, customer : IdOrNone, sub : IdOrNone, expired : BOOLEAN]
Letter == [kind : Kinds, sub : Requests]

ASSUME LetterAssumption == None \notin Letter

Init ==
    /\ row = [status |-> "ABSENT", customer |-> None, sub |-> None, expired |-> FALSE]
    /\ trading = FALSE /\ late = FALSE
    /\ processed = {} /\ live = {}
    /\ payer = [r \in Requests |-> None]
    /\ event = [e \in Events |-> None]
    /\ acked = {} /\ captured = {}
    /\ pc = [r \in Requests |-> "idle"]
    /\ op \in [Requests -> Ops]
    /\ known = [r \in Requests |-> None]
    /\ hpc = [h \in Handlers |-> "idle"]
    /\ hand = [h \in Handlers |-> None]
    /\ verdict = [h \in Handlers |-> "nothing"]
    /\ applied = [e \in Events |-> 0]

\* The row is locked by a lapse that has not committed: everybody else's UPDATE of
\* it waits.
RowLocked ==
    \/ \E r \in Requests : pc[r] = "paused"
    \/ \E h \in Handlers : hpc[h] = "paused"

\* The COMMIT of a lapse: the bots it found are paused, those that became ACTIVE
\* since go on.
BotsLapse == trading' = late /\ late' = FALSE

\* The transaction that whoever is at this label may have open rolls back.
RollBack(label) == late' = (late /\ label # "paused")

-----------------------------------------------------------------------------
(***************************************************************************)
(* selectTier and cancelSubscription.                                      *)
(***************************************************************************)
\* What the two mutations leave alone.
webhookVars == <<processed, eventVars, op, handlerVars, applied>>

Goto(r, label) == pc' = [pc EXCEPT ![r] = label]

\* The call is over: it returns, throws, or its process dies.  What it remembered
\* is gone with it.
End(r) ==
    /\ Goto(r, "done")
    /\ known' = [known EXCEPT ![r] = None]

Remember(r, id) == known' = [known EXCEPT ![r] = id]

\* The rate limit, which holds nothing across its await, then the first query:
\* selectTier keeps the customer id it saw, cancelSubscription the subscription
\* id, and goes straight to its transaction when there is none.
ReadRow(r) ==
    /\ pc[r] = "idle"
    /\ \/ op[r] # "cancel" /\ Goto(r, "read") /\ Remember(r, row.customer)
       \/ /\ op[r] = "cancel" /\ row.status # "ABSENT"
          /\ Goto(r, IF row.sub = None THEN "unbilled" ELSE "read")
          /\ Remember(r, row.sub)
       \/ op[r] = "cancel" /\ row.status = "ABSENT" /\ End(r)
    /\ UNCHANGED <<row, botVars, stripeVars, webhookVars>>

\* FREE_TRIAL: an upsert that leaves Stripe's ids and the period end alone.
StartTrial(r) ==
    /\ pc[r] = "read" /\ op[r] = "trial"
    /\ ~RowLocked
    /\ row' = [row EXCEPT !.status = "trialing"]
    /\ End(r)
    /\ UNCHANGED <<botVars, stripeVars, webhookVars>>

\* A paid tier: the transaction opens, and a customer is created when the row
\* read before it opened named none.
MakeCustomer(r) ==
    /\ pc[r] = "read" /\ op[r] = "paid"
    /\ Remember(r, IF known[r] = None THEN r ELSE known[r])
    /\ Goto(r, "customer")
    /\ UNCHANGED <<row, botVars, stripeVars, webhookVars>>

\* The payment method is attached and the subscription created; Stripe may do
\* so and the response still be lost.
MakeSubscription(r) ==
    /\ pc[r] = "customer"
    /\ payer' = [payer EXCEPT ![r] = known[r]]
    /\ live' = live \cup {r}
    /\ \/ Goto(r, "subscribed") /\ UNCHANGED known
       \/ End(r)
    /\ UNCHANGED <<row, botVars, webhookVars>>

\* Fault: the upsert keeps a customer id that is there already.
FaultKeepCustomer(r) ==
    [row EXCEPT !.status = "active", !.sub = r, !.expired = FALSE,
                !.customer = IF @ = None THEN known[r] ELSE @]

\* What the upsert of a paid tier writes over whatever the row is by now.
TierRow(r) ==
    [row EXCEPT !.status = "active", !.sub = r, !.expired = FALSE,
                !.customer = known[r]]

\* The upsert and the COMMIT.  Its acknowledgement may be lost, which only
\* changes what the client hears.
CommitTier(r) ==
    /\ pc[r] = "subscribed"
    /\ ~RowLocked
    /\ row' = TierRow(r)
    /\ End(r)
    /\ UNCHANGED <<botVars, stripeVars, webhookVars>>

\* Fault: the Stripe call is not awaited and fails.
FaultUnawaitedCancel(r) ==
    /\ pc[r] = "read" /\ op[r] = "cancel"
    /\ Goto(r, "unbilled")
    /\ UNCHANGED <<row, botVars, stripeVars, known, webhookVars>>

\* stripe.subscriptions.cancel, of the id that was read: Stripe refuses one that
\* is cancelled already, and may cancel one without the response arriving.
CancelAtStripe(r) ==
    /\ pc[r] = "read" /\ op[r] = "cancel"
    /\ known[r] \in live
    /\ live' = live \ {known[r]}
    /\ \/ Goto(r, "unbilled") /\ UNCHANGED known
       \/ End(r)
    /\ UNCHANGED <<row, botVars, payer, webhookVars>>

\* The transaction: the row, by its id, is to be cancelled whatever it has become
\* meanwhile, and the bots that are ACTIVE now are to be paused.
PauseBots(r) ==
    /\ pc[r] = "unbilled"
    /\ ~RowLocked
    /\ Goto(r, "paused")
    /\ UNCHANGED <<row, botVars, stripeVars, known, webhookVars>>

CommitCancel(r) ==
    /\ pc[r] = "paused"
    /\ row' = [row EXCEPT !.status = "cancelled"]
    /\ BotsLapse
    /\ End(r)
    /\ UNCHANGED <<stripeVars, webhookVars>>

\* The payment method is missing, a query, a Stripe call or the COMMIT fails, or
\* the process dies: the transaction rolls back, and what Stripe has made or
\* cancelled by then stays so.
Fails(r) ==
    /\ pc[r] \in InFlight
    /\ End(r)
    /\ RollBack(pc[r])
    /\ UNCHANGED <<row, trading, stripeVars, webhookVars>>

SelectTier(r) ==
    /\ op[r] # "cancel"
    /\ \/ ReadRow(r) \/ StartTrial(r) \/ MakeCustomer(r)
       \/ MakeSubscription(r) \/ CommitTier(r) \/ Fails(r)

CancelSubscription(r) ==
    /\ op[r] = "cancel"
    /\ \/ ReadRow(r) \/ CancelAtStripe(r) \/ PauseBots(r)
       \/ CommitCancel(r) \/ Fails(r)

-----------------------------------------------------------------------------
(***************************************************************************)
(* The webhook handler.                                                    *)
(***************************************************************************)
\* What a handler leaves alone.
callVars == <<stripeVars, event, requestVars>>

Step(h, label) == hpc' = [hpc EXCEPT ![h] = label]

\* The handler is over.
Finish(h) ==
    /\ Step(h, "idle")
    /\ hand' = [hand EXCEPT ![h] = None]
    /\ verdict' = [verdict EXCEPT ![h] = "nothing"]

\* 200, in the same breath as what the handler did last.
Respond(h) ==
    /\ Finish(h)
    /\ acked' = acked \cup {hand[h]}

\* The process dies, its transaction rolls back, and Stripe gets no answer.
Die(h) ==
    /\ Finish(h)
    /\ UNCHANGED acked

\* Stripe delivers an event: one that nothing has acknowledged, or a duplicate.
Deliver(h, e) ==
    /\ hpc[h] = "idle" /\ event[e] # None
    /\ Step(h, "received")
    /\ hand' = [hand EXCEPT ![h] = e]
    /\ UNCHANGED <<row, botVars, processed, callVars, acked, verdict, captured,
                   applied>>

Proceed(h) == Step(h, "fresh") /\ UNCHANGED <<acked, hand, verdict>>

\* The look-up of processed_stripe_events, outside the transaction.
CheckDuplicate(h) ==
    /\ hpc[h] = "received"
    /\ \/ hand[h] \in processed /\ Respond(h)
       \/ hand[h] \notin processed /\ Proceed(h)
    /\ UNCHANGED <<row, botVars, processed, callVars, captured, applied>>

\* WHERE stripe_subscription_id = ....
Matches(e) == row.sub = event[e].sub

\* Fault: the grace period alone decides.
FaultNoFirstFailure(e) ==
    IF row.expired THEN "suspend" ELSE "past_due"

\* invoice.payment_failed: a second failure suspends once the grace period is
\* over, and any other one leaves the row past_due.
OnFailure(e) ==
    IF row.status = "past_due" /\ row.expired THEN "suspend" ELSE "past_due"

\* The transaction opens and selects the row; payment_succeeded selects
\* nothing, and its UPDATE looks for the row itself.
Decide(h) ==
    /\ hpc[h] = "fresh"
    /\ Step(h, "decided")
    /\ LET e == hand[h] IN
       verdict' = [verdict EXCEPT ![h] =
           CASE event[e].kind = "paid" -> "activate"
             [] event[e].kind # "paid" /\ ~Matches(e) -> "nothing"
             [] event[e].kind = "failed" /\ Matches(e) -> OnFailure(e)
             [] event[e].kind = "deleted" /\ Matches(e) -> "cancel"]
    /\ UNCHANGED <<row, botVars, processed, callVars, acked, hand, captured,
                   applied>>

\* Fault: the event's id is not a primary key.
FaultNoPrimaryKey(e) == event[e] # None

\* The INSERT of the event's id does not meet the primary key.
Insertable(e) == e \notin processed

\* Fault: only a suspension pauses the bots.
FaultPauses(v) == v = "suspend"

Pauses(v) == v \in {"suspend", "cancel"}

\* Fault: Stripe's own spelling reaches the column.
FaultSpelling(v) ==
    CASE v = "past_due" -> "past_due"
      [] v = "suspend"  -> "suspended"
      [] v = "cancel"   -> "canceled"

\* The status that a verdict on the selected row writes.
StatusFor(v) ==
    CASE v = "past_due" -> "past_due"
      [] v = "suspend"  -> "suspended"
      [] v = "cancel"   -> "cancelled"

\* Fault: a paid invoice is the user's, whichever subscription it is of.
FaultAnyInvoice(v, e) ==
    \/ v = "nothing" /\ UNCHANGED row
    \/ /\ v = "activate"
       /\ \E x \in {FALSE, row.expired} :
             row' = [row EXCEPT !.status = "active", !.expired = x]
    \/ /\ v \notin {"nothing", "activate"}
       /\ row' = [row EXCEPT !.status = StatusFor(v)]

\* The row after a verdict, by its id.  A paid invoice also moves the period
\* end, which may be over already when the event comes late.
Apply(v, e) ==
    \/ v = "nothing" /\ UNCHANGED row
    \/ v = "activate" /\ ~Matches(e) /\ UNCHANGED row
    \/ /\ v = "activate" /\ Matches(e)
       /\ \E x \in {FALSE, row.expired} :
             row' = [row EXCEPT !.status = "active", !.expired = x]
    \/ /\ v \notin {"nothing", "activate"}
       /\ row' = [row EXCEPT !.status = StatusFor(v)]

\* The verdict's UPDATE writes the row; a paid invoice's finds it by its subscription.
Writes(v, e) == v = "past_due" \/ (v = "activate" /\ Matches(e))

\* A suspension or cancellation updates the row and pauses the bots that are ACTIVE
\* now.
PauseForEvent(h) ==
    /\ hpc[h] = "decided" /\ Pauses(verdict[h])
    /\ ~RowLocked
    /\ Step(h, "paused")
    /\ UNCHANGED <<row, botVars, processed, callVars, acked, hand, verdict, captured,
                   applied>>

\* The UPDATE of any other verdict, the INSERT of the id and the COMMIT, then 200
\* unless the process dies between the two.
CommitEvent(h) ==
    /\ hpc[h] = IF Pauses(verdict[h]) THEN "paused" ELSE "decided"
    /\ LET e == hand[h] IN
       /\ Writes(verdict[h], e) => ~RowLocked
       /\ Insertable(e)
       /\ Apply(verdict[h], e)
       /\ processed' = processed \cup {e}
       /\ applied' = [applied EXCEPT ![e] = @ + 1]
    /\ IF Pauses(verdict[h]) THEN BotsLapse ELSE UNCHANGED botVars
    /\ Respond(h) \/ Die(h)
    /\ UNCHANGED <<callVars, captured>>

\* Fault: the catch block only answers.
FaultSwallowed(h) ==
    /\ hpc[h] # "idle"
    /\ RollBack(hpc[h])
    /\ Respond(h)
    /\ UNCHANGED <<row, trading, processed, callVars, captured, applied>>

\* A query fails, or the transaction does, for one on the primary key: nothing
\* is written, the error goes to Sentry, and Stripe is told 200 all the same.
HandlerFails(h) ==
    /\ hpc[h] # "idle"
    /\ captured' = captured \cup {hand[h]}
    /\ RollBack(hpc[h])
    /\ Respond(h)
    /\ UNCHANGED <<row, trading, processed, callVars, applied>>

HandlerCrash(h) ==
    /\ hpc[h] # "idle"
    /\ RollBack(hpc[h])
    /\ Die(h)
    /\ UNCHANGED <<row, trading, processed, callVars, captured, applied>>

StripeWebhookHandler(h) ==
    \/ CheckDuplicate(h) \/ Decide(h) \/ PauseForEvent(h)
    \/ CommitEvent(h) \/ HandlerFails(h)

-----------------------------------------------------------------------------
(***************************************************************************)
(* Stripe and the rest of the API.                                         *)
(***************************************************************************)
apiVars == <<processed, payer, acked, requestVars, handlerVars, applied>>

\* An invoice of a subscription is paid or fails; a cancelled subscription is
\* reported.  Nothing orders the deliveries.
Emit(e, kind, s) ==
    /\ event[e] = None /\ payer[s] # None
    /\ kind = "deleted" => s \notin live
    /\ event' = [event EXCEPT ![e] = [kind |-> kind, sub |-> s]]
    /\ UNCHANGED <<row, botVars, live, apiVars>>

\* Dunning, or somebody at Stripe's dashboard, cancels a subscription.
StripeCancels(s) ==
    /\ live' = live \ {s}
    /\ UNCHANGED <<row, botVars, event, apiVars>>

\* Seven days after the period end, which a row without subscription lacks.  It is
\* the clock that makes it so, and no lock stops that.
GraceEnds ==
    /\ row.sub # None
    /\ row' = [row EXCEPT !.expired = TRUE]
    /\ UNCHANGED <<botVars, live, event, apiVars>>

\* A bot of the user becomes ACTIVE (see BotLifecycle: neither createBot nor a
\* late activateBot needs a subscription for it).
BotStarts ==
    /\ trading' = TRUE
    /\ late' = (late \/ RowLocked)
    /\ UNCHANGED <<row, live, event, apiVars>>

Next ==
    \/ \E r \in Requests : SelectTier(r) \/ CancelSubscription(r)
    \/ \E h \in Handlers :
          \/ StripeWebhookHandler(h) \/ HandlerCrash(h)
          \/ \E e \in Events : Deliver(h, e)
    \/ \E e \in Events, kind \in Kinds, s \in Requests : Emit(e, kind, s)
    \/ \E s \in Requests : StripeCancels(s)
    \/ GraceEnds \/ BotStarts

Spec == Init /\ [][Next]_vars

-----------------------------------------------------------------------------
(***************************************************************************)
(* Properties.                                                             *)
(***************************************************************************)
TypeOK ==
    /\ row \in Rows /\ trading \in BOOLEAN /\ late \in BOOLEAN
    /\ processed \subseteq Events /\ acked \subseteq Events
    /\ captured \subseteq Events
    /\ live \subseteq Requests
    /\ payer \in [Requests -> IdOrNone]
    /\ event \in [Events -> Letter \cup {None}]
    /\ pc \in [Requests -> {"idle", "done"} \cup InFlight]
    /\ op \in [Requests -> Ops]
    /\ known \in [Requests -> IdOrNone]
    /\ hpc \in [Handlers -> {"idle", "received", "fresh", "decided", "paused"}]
    /\ hand \in [Handlers -> Events \cup {None}]
    /\ verdict \in [Handlers -> Verdicts]
    /\ applied \in [Events -> Nat]

\* However often Stripe delivers an event, and however the handlers overlap, its
\* effects are committed once, and exactly when its id is recorded.
EventEffectOnce ==
    \A e \in Events : applied[e] = IF e \in processed THEN 1 ELSE 0

\* One failed payment never suspends: a suspended row has two different
\* payment_failed events behind it, even when one of them was delivered twice.
SuspensionNeedsTwoFailures ==
    row.status = "suspended" =>
        \E e, f \in processed :
            e # f /\ event[e].kind = "failed" /\ event[f].kind = "failed"

\* The row is one that Stripe would recognise: its subscription exists and is
\* billed to its customer, and a status that stands for a paid tier has one.
RowCoherent ==
    /\ row.sub # None => payer[row.sub] = row.customer
    /\ row.sub = None <=> row.customer = None
    /\ row.status \in Paid => row.sub # None

\* After a successful cancelSubscription some subscription of the user is no
\* longer billed, unless the user had none when the row was read.
CancelStopsBilling ==
    \A r \in Requests :
        pc[r] \in {"unbilled", "paused"} => known[r] \notin live

\* No event is lost in silence: the ones that Stripe will not send again were
\* processed, or their failure was reported.
AckedAccounted == acked \subseteq processed \cup captured

\* A lapsed subscription comes back by a tier that its user selects, or by news of
\* a payment: an event counted for the first time, never a report of a deletion,
\* and, when the invoice was paid, one of the subscription the row then names.  A
\* failed one is only matched when the row is selected, so that it may be of a
\* subscription that selectTier has replaced since.
RevivedOnlyByNews ==
    [][row.status \in Lapsed /\ row'.status \notin Lapsed =>
          \/ \E r \in Requests :
                /\ \/ op[r] = "trial" /\ pc[r] = "read"
                   \/ op[r] = "paid" /\ pc[r] = "subscribed"
                /\ pc'[r] = "done"
          \/ \E e \in processed' \ processed :
                \/ event[e].kind = "failed"
                \/ event[e].kind = "paid" /\ Matches(e)]_vars

\* "no-op for FREE_TRIAL (no stripe_subscription_id)": a user on the free trial
\* has no subscription at Stripe.
TrialHasNoSubscription == row.status = "trialing" => row.sub = None

-----------------------------------------------------------------------------
(***************************************************************************)
(* What the rest of the API sees of billing.                               *)
(***************************************************************************)
Standing ==
    CASE row.status = "ABSENT" -> "none"
      [] row.status \in Lapsed -> "lapsed"
      [] OTHER                 -> "entitled"

TheUser == "user"

Ent == INSTANCE Entitlement WITH
          Users <- {TheUser},
          standing <- [u \in {TheUser} |-> Standing],
          trading <- IF trading THEN {TheUser} ELSE {},
          open <- IF RowLocked THEN {TheUser} ELSE {},
          late <- IF late THEN {TheUser} ELSE {}

\* Billing keeps its part of what it shares with the bots: whatever interleaves, a
\* subscription lapses only if it exists, one lapse at a time, and with every bot
\* that was ACTIVE when the lapse looked, so that those that go on became ACTIVE
\* before its COMMIT; a lapse that fails stops none, a subscription never
\* disappears, and nothing else that billing does touches a bot.
ImplementsEntitlement == Ent!Spec
=============================================================================
