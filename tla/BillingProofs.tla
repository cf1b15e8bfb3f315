----------------------------- MODULE BillingProofs -----------------------------
(***************************************************************************)
(* Safety of Billing, for any number of calls, events and deliveries.      *)
(***************************************************************************)
EXTENDS Billing, TLAPS

-----------------------------------------------------------------------------
(***************************************************************************)
(* Types.                                                                  *)
(***************************************************************************)

\* A handler that is not idle has an event in its hands that Stripe has sent.
HandsHold ==
    \A h \in Handlers :
        hpc[h] # "idle" => hand[h] \in Events /\ event[hand[h]] \in Letter

\* The steps of the two mutations keep the types.
LEMMA CallTypes ==
    ASSUME TypeOK, HandsHold, NEW r \in Requests,
           \/ ReadRow(r) \/ StartTrial(r) \/ MakeCustomer(r) \/ MakeSubscription(r)
           \/ CommitTier(r) \/ CancelAtStripe(r) \/ PauseBots(r)
           \/ CommitCancel(r) \/ Fails(r)
    PROVE  TypeOK' /\ HandsHold'
<1> USE DEF TypeOK, Goto, End, Remember, InFlight, IdOrNone
<1>1. UNCHANGED webhookVars
  BY DEF ReadRow, StartTrial, MakeCustomer, MakeSubscription, CommitTier,
         CancelAtStripe, PauseBots, CommitCancel, Fails
<1>2. UNCHANGED <<processed, event, acked, op, hpc, hand, verdict, captured, applied>>
  BY <1>1 DEF webhookVars, eventVars, handlerVars
<1>3. HandsHold'
  BY <1>2 DEF HandsHold
<1>4. row' \in Rows
  <2>1. CASE CommitTier(r)
    <3>1. known[r] \in IdOrNone /\ r \in IdOrNone /\ "active" \in Statuses
      BY DEF Statuses, Paid
    <3>2. QED
      BY <2>1, <3>1 DEF CommitTier, TierRow, Rows
  <2>2. CASE StartTrial(r) \/ CommitCancel(r)
    <3>1. {"trialing", "cancelled"} \subseteq Statuses
      BY DEF Statuses
    <3>2. QED
      BY <2>2, <3>1 DEF StartTrial, CommitCancel, Rows
  <2>3. CASE \/ ReadRow(r) \/ MakeCustomer(r) \/ MakeSubscription(r)
             \/ CancelAtStripe(r) \/ PauseBots(r) \/ Fails(r)
    <3>1. row' = row
      BY <2>3 DEF ReadRow, MakeCustomer, MakeSubscription, CancelAtStripe, PauseBots, Fails
    <3>2. QED
      BY <3>1
  <2>4. QED
    BY <2>1, <2>2, <2>3
<1>5. /\ pc' \in [Requests -> {"idle", "done"} \cup InFlight]
      /\ known' \in [Requests -> IdOrNone]
  <2>1. row.customer \in IdOrNone /\ row.sub \in IdOrNone
    BY DEF Rows
  <2>2. CASE ReadRow(r)
    BY <2>1, <2>2 DEF ReadRow
  <2>3. CASE MakeCustomer(r)
    BY <2>3 DEF MakeCustomer
  <2>4. CASE MakeSubscription(r) \/ CancelAtStripe(r)
    BY <2>4 DEF MakeSubscription, CancelAtStripe
  <2>5. CASE \/ StartTrial(r) \/ CommitTier(r) \/ PauseBots(r)
             \/ CommitCancel(r) \/ Fails(r)
    BY <2>5 DEF StartTrial, CommitTier, PauseBots, CommitCancel, Fails
  <2>6. QED
    BY <2>2, <2>3, <2>4, <2>5
<1>6. /\ trading' \in BOOLEAN /\ late' \in BOOLEAN /\ live' \subseteq Requests
      /\ payer' \in [Requests -> IdOrNone]
  BY DEF ReadRow, StartTrial, MakeCustomer, MakeSubscription, CommitTier, CancelAtStripe,
         PauseBots, CommitCancel, Fails, stripeVars, botVars, BotsLapse, RollBack
<1>7. QED
  BY <1>2, <1>3, <1>4, <1>5, <1>6

\* So do the steps of a handler.
LEMMA HandlerTypes ==
    ASSUME TypeOK, HandsHold, NEW h \in Handlers,
           StripeWebhookHandler(h) \/ HandlerCrash(h) \/ \E e \in Events : Deliver(h, e)
    PROVE  TypeOK' /\ HandsHold'
<1> USE DEF TypeOK, Step, botVars, BotsLapse, RollBack
<1>1. UNCHANGED callVars
  BY DEF StripeWebhookHandler, CheckDuplicate, Decide, PauseForEvent, CommitEvent,
         HandlerFails, HandlerCrash, Deliver
<1>2. UNCHANGED <<payer, live, event, pc, op, known>>
  BY <1>1 DEF callVars, stripeVars, requestVars
<1>3. CASE \E e \in Events : Deliver(h, e)
  BY <1>2, <1>3 DEF Deliver, HandsHold
<1>4. CASE CheckDuplicate(h)
  BY <1>2, <1>4 DEF CheckDuplicate, Proceed, Respond, Finish, HandsHold, Verdicts
<1>5. CASE Decide(h)
  <2>1. hand[h] \in Events /\ event[hand[h]] \in Letter
    BY <1>5 DEF Decide, HandsHold
  <2>2. verdict' \in [Handlers -> Verdicts]
    BY <1>5, <2>1 DEF Decide, OnFailure, Verdicts, Letter, Kinds
  <2>3. QED
    BY <1>2, <1>5, <2>2 DEF Decide, HandsHold
<1>6. CASE CommitEvent(h)
  <2>1. hand[h] \in Events
    BY <1>6 DEF CommitEvent, HandsHold
  <2>2. row' \in Rows
    <3>1. Apply(verdict[h], hand[h]) /\ verdict[h] \in Verdicts
      BY <1>6 DEF CommitEvent
    <3>2. CASE verdict[h] \in {"nothing", "activate"}
      BY <3>1, <3>2 DEF Apply, Rows, Statuses, Paid
    <3>3. CASE verdict[h] \in {"past_due", "suspend", "cancel"}
      <4>1. StatusFor(verdict[h]) \in Statuses
        BY <3>3 DEF StatusFor, Statuses, Paid
      <4>2. row' = [row EXCEPT !.status = StatusFor(verdict[h])]
        BY <3>1, <3>3 DEF Apply
      <4>3. QED
        BY <4>1, <4>2 DEF Rows
    <3>4. QED
      BY <3>1, <3>2, <3>3 DEF Verdicts
  <2>3. /\ applied' \in [Events -> Nat] /\ processed' \subseteq Events
        /\ trading' \in BOOLEAN /\ late' \in BOOLEAN
    <3>1. /\ applied' = [applied EXCEPT ![hand[h]] = @ + 1]
          /\ processed' = processed \cup {hand[h]}
          /\ trading' \in {late, trading} /\ late' \in {FALSE, late}
      BY <1>6 DEF CommitEvent
    <3>2. applied[hand[h]] + 1 \in Nat
      BY <2>1
    <3>3. QED
      BY <2>1, <3>1, <3>2
  <2>4. /\ acked' \subseteq Events
        /\ hpc' \in [Handlers -> {"idle", "received", "fresh", "decided", "paused"}]
        /\ hand' \in [Handlers -> Events \cup {None}]
        /\ verdict' \in [Handlers -> Verdicts]
        /\ captured' = captured
        /\ HandsHold'
    BY <1>2, <1>6, <2>1 DEF CommitEvent, Respond, Die, Finish, HandsHold, Verdicts
  <2>5. QED
    BY <1>2, <2>2, <2>3, <2>4
<1>7. CASE HandlerFails(h)
  BY <1>2, <1>7 DEF HandlerFails, Respond, Finish, HandsHold, Verdicts
<1>8. CASE HandlerCrash(h)
  BY <1>2, <1>8 DEF HandlerCrash, Die, Finish, HandsHold, Verdicts
<1>9. CASE PauseForEvent(h)
  BY <1>2, <1>9 DEF PauseForEvent, HandsHold
<1>10. QED
  BY <1>3, <1>4, <1>5, <1>6, <1>7, <1>8, <1>9 DEF StripeWebhookHandler

\* And so do Stripe, time and the bots.
LEMMA WorldTypes ==
    ASSUME TypeOK, HandsHold,
           \/ \E e \in Events, kind \in Kinds, s \in Requests : Emit(e, kind, s)
           \/ \E s \in Requests : StripeCancels(s)
           \/ GraceEnds \/ BotStarts
    PROVE  TypeOK' /\ HandsHold'
<1> USE DEF TypeOK
<1>1. UNCHANGED <<processed, payer, acked, pc, op, known, hpc, hand, verdict,
                  captured, applied>>
  BY DEF Emit, StripeCancels, GraceEnds, BotStarts, apiVars, requestVars, handlerVars
<1>2. CASE \E e \in Events, kind \in Kinds, s \in Requests : Emit(e, kind, s)
  BY <1>1, <1>2 DEF Emit, botVars, Letter, HandsHold
<1>3. CASE \E s \in Requests : StripeCancels(s)
  BY <1>1, <1>3 DEF StripeCancels, botVars, HandsHold
<1>4. CASE GraceEnds \/ BotStarts
  BY <1>1, <1>4 DEF GraceEnds, BotStarts, botVars, RowLocked, HandsHold, Rows
<1>5. QED
  BY <1>2, <1>3, <1>4

\* Every step keeps them.
LEMMA TypesStep ==
    ASSUME TypeOK, HandsHold, [Next]_vars
    PROVE  TypeOK' /\ HandsHold'
<1>1. ASSUME NEW r \in Requests, SelectTier(r) \/ CancelSubscription(r)
      PROVE  TypeOK' /\ HandsHold'
  BY <1>1, CallTypes DEF SelectTier, CancelSubscription
<1>2. ASSUME NEW h \in Handlers,
             \/ StripeWebhookHandler(h) \/ HandlerCrash(h)
             \/ \E e \in Events : Deliver(h, e)
      PROVE  TypeOK' /\ HandsHold'
  BY <1>2, HandlerTypes
<1>3. CASE UNCHANGED vars
  <2>1. UNCHANGED <<row, trading, late, processed, payer, live, event, acked, pc, op, known,
                    hpc, hand, verdict, captured, applied>>
    BY <1>3 DEF vars, botVars, stripeVars, eventVars, requestVars, handlerVars
  <2>2. TypeOK'
    BY <2>1 DEF TypeOK
  <2>3. HandsHold'
    BY <2>1 DEF HandsHold
  <2>4. QED
    BY <2>2, <2>3
<1>4. QED
  BY <1>1, <1>2, <1>3, WorldTypes DEF Next

-----------------------------------------------------------------------------
(***************************************************************************)
(* The inductive invariant.                                                *)
(***************************************************************************)

\* What a call knows of Stripe's ids: whom it bills and what it has made, and
\* that a subscription it is to cancel was made by a call that is over, so that
\* nobody can make it again.
CallsKnow ==
    \A r \in Requests :
        /\ pc[r] \in {"customer", "subscribed"} => known[r] # None
        /\ pc[r] = "subscribed" => payer[r] = known[r]
        /\ pc[r] \in {"customer", "subscribed"} => op[r] = "paid"
        /\ pc[r] \in {"unbilled", "paused"} => op[r] = "cancel"
        /\ op[r] = "cancel" /\ pc[r] \in {"read", "unbilled", "paused"} /\ known[r] # None =>
              pc[known[r]] = "done"
        /\ pc[r] \in {"unbilled", "paused"} => known[r] \notin live

\* The subscription on the row comes from a call that is over.
RowKnows == row.sub # None => pc[row.sub] = "done"

SomeFailure == \E e \in processed : event[e].kind = "failed"

\* A processed event is one that Stripe sent, and a past_due row has a failure
\* behind it.
EventsKnown ==
    /\ \A e \in processed : event[e] \in Letter
    /\ row.status = "past_due" => SomeFailure

\* A verdict is only held between the SELECT and the COMMIT, and is about the news
\* that the event brings.  Whatever becomes of the row meanwhile, it keeps a
\* subscription; and a suspension found a failure that was processed before.
HandlersKnow ==
    \A h \in Handlers :
        /\ hpc[h] \notin {"decided", "paused"} => verdict[h] = "nothing"
        /\ hpc[h] = "paused" => Pauses(verdict[h])
        /\ verdict[h] \in {"past_due", "suspend", "cancel"} => row.sub # None
        /\ verdict[h] \in {"past_due", "suspend"} => event[hand[h]].kind = "failed"
        /\ verdict[h] = "activate" => event[hand[h]].kind = "paid"
        /\ verdict[h] = "suspend" => SomeFailure

EventSafety ==
    /\ EventsKnown
    /\ HandlersKnow
    /\ EventEffectOnce
    /\ SuspensionNeedsTwoFailures
    /\ AckedAccounted

CallSafety ==
    /\ CallsKnow
    /\ RowKnows
    /\ RowCoherent

\* Once there is a row it stays, so a call that is to cancel will find it.
RowExists ==
    /\ row.sub # None => row.status # "ABSENT"
    /\ \A r \in Requests :
          op[r] = "cancel" /\ pc[r] \in {"read", "unbilled", "paused"} =>
              row.status # "ABSENT"

\* The row has one lock, and a bot is only late while somebody holds it.
OneLapse ==
    /\ \A r, q \in Requests : pc[r] = "paused" /\ pc[q] = "paused" => r = q
    /\ \A h, g \in Handlers : hpc[h] = "paused" /\ hpc[g] = "paused" => h = g
    /\ \A r \in Requests, h \in Handlers : ~(pc[r] = "paused" /\ hpc[h] = "paused")
    /\ late => trading

IInv == TypeOK /\ HandsHold /\ EventSafety /\ CallSafety /\ RowExists /\ OneLapse

-----------------------------------------------------------------------------
\* A step of a mutation is harmless for the webhook's part, as long as it makes
\* no row past_due or suspended and takes no subscription away.
LEMMA CallLeavesEvents ==
    ASSUME IInv, UNCHANGED webhookVars,
           row'.status \in {row.status, "trialing", "active", "cancelled"},
           row.sub # None => row'.sub # None
    PROVE  EventSafety'
<1>1. UNCHANGED <<processed, event, acked, hpc, hand, verdict, captured, applied>>
  BY DEF webhookVars, eventVars, handlerVars
<1>2. EventsKnown' /\ HandlersKnow'
  BY <1>1 DEF IInv, EventSafety, EventsKnown, HandlersKnow, SomeFailure
<1>3. EventEffectOnce' /\ SuspensionNeedsTwoFailures' /\ AckedAccounted'
  BY <1>1 DEF IInv, EventSafety, EventEffectOnce, SuspensionNeedsTwoFailures,
              AckedAccounted
<1>4. QED
  BY <1>2, <1>3 DEF EventSafety

\* A step that leaves the calls and the row's ids alone is harmless for theirs,
\* as long as it gives no row without subscription a paid status.
LEMMA OthersLeaveCalls ==
    ASSUME IInv, UNCHANGED <<payer, pc, op, known>>, live' \subseteq live,
           row'.sub = row.sub, row'.customer = row.customer,
           row'.status = row.status \/ row'.status \notin Paid \/ row.sub # None
    PROVE  CallSafety'
  BY DEF IInv, CallSafety, CallsKnow, RowKnows, RowCoherent

\* A call that moves on, having made nothing at Stripe and written nothing.
LEMMA MovePreserves ==
    ASSUME IInv, NEW r \in Requests,
           ReadRow(r) \/ MakeCustomer(r) \/ PauseBots(r) \/ Fails(r)
    PROVE  EventSafety' /\ CallSafety'
<1> USE DEF IInv, CallSafety, Goto, End, Remember
<1>1. /\ UNCHANGED <<row, payer, live>> /\ UNCHANGED webhookVars /\ op' = op
      /\ \A q \in Requests \ {r} : pc'[q] = pc[q] /\ known'[q] = known[q]
      /\ pc[r] # "done"
  BY DEF ReadRow, MakeCustomer, PauseBots, Fails, InFlight, stripeVars, webhookVars, TypeOK
<1>2. EventSafety'
  BY <1>1, CallLeavesEvents
<1>3. \A q \in Requests : pc[q] = "done" => pc'[q] = "done"
  BY <1>1
<1>4. RowKnows' /\ RowCoherent'
  BY <1>1, <1>3 DEF RowKnows, RowCoherent, TypeOK, Rows, IdOrNone
<1>5. \/ pc'[r] = "read" /\ op[r] # "cancel"
      \/ pc'[r] = "read" /\ known'[r] = row.sub
      \/ pc'[r] = "unbilled" /\ op[r] = "cancel" /\ known'[r] = None
      \/ pc'[r] = "customer" /\ op[r] = "paid" /\ known'[r] # None
      \/ pc[r] = "unbilled" /\ pc'[r] = "paused" /\ known'[r] = known[r]
      \/ pc'[r] = "done"
  BY NoneAssumption DEF ReadRow, MakeCustomer, PauseBots, Fails, TypeOK
<1>6. CallsKnow'
  <2> SUFFICES ASSUME NEW q \in Requests
               PROVE  /\ pc'[q] \in {"customer", "subscribed"} => known'[q] # None
                      /\ pc'[q] = "subscribed" => payer[q] = known'[q]
                      /\ pc'[q] \in {"customer", "subscribed"} => op[q] = "paid"
                      /\ pc'[q] \in {"unbilled", "paused"} => op[q] = "cancel"
                      /\ op[q] = "cancel" /\ pc'[q] \in {"read", "unbilled", "paused"}
                         /\ known'[q] # None => pc'[known'[q]] = "done"
                      /\ pc'[q] \in {"unbilled", "paused"} => known'[q] \notin live
    BY <1>1 DEF CallsKnow
  <2>1. CASE q # r
    BY <1>1, <1>3, <2>1 DEF CallsKnow, TypeOK, IdOrNone
  <2>2. CASE q = r
    BY <1>3, <1>5, <2>2, NoneAssumption DEF CallsKnow, RowKnows, TypeOK, Rows, IdOrNone
  <2>3. QED
    BY <2>1, <2>2
<1>7. QED
  BY <1>2, <1>4, <1>6

\* selectTier's first subscription call: the subscription is new, so no call that
\* is to cancel one has cancelled this one.
LEMMA MakeSubscriptionPreserves ==
    ASSUME IInv, NEW r \in Requests, MakeSubscription(r)
    PROVE  EventSafety' /\ CallSafety'
<1> USE DEF IInv, CallSafety, Goto, End
<1>1. /\ UNCHANGED <<row, op>> /\ UNCHANGED webhookVars
      /\ \A q \in Requests \ {r} :
            pc'[q] = pc[q] /\ known'[q] = known[q] /\ payer'[q] = payer[q]
      /\ pc[r] = "customer" /\ payer'[r] = known[r] /\ live' = live \cup {r}
      /\ \/ pc'[r] = "subscribed" /\ known'[r] = known[r]
         \/ pc'[r] = "done"
  BY DEF MakeSubscription, webhookVars, TypeOK
<1>2. EventSafety'
  BY <1>1, CallLeavesEvents
<1>3. RowKnows' /\ RowCoherent'
  BY <1>1 DEF RowKnows, RowCoherent, TypeOK, Rows, IdOrNone
<1>4. \A q \in Requests : pc[q] \in {"unbilled", "paused"} => known[q] # r
  BY <1>1, NoneAssumption DEF CallsKnow
<1>5. known[r] # None
  BY <1>1 DEF CallsKnow
<1>6. CallsKnow'
  BY <1>1, <1>4, <1>5 DEF CallsKnow, TypeOK, IdOrNone
<1>7. QED
  BY <1>2, <1>3, <1>6

\* The writes to the row: the upserts of selectTier and the transaction of
\* cancelSubscription.
LEMMA WritePreserves ==
    ASSUME IInv, NEW r \in Requests, StartTrial(r) \/ CommitTier(r) \/ CommitCancel(r)
    PROVE  EventSafety' /\ CallSafety'
<1> USE DEF IInv, CallSafety, Goto, End
<1>1. /\ UNCHANGED <<payer, live, op>> /\ UNCHANGED webhookVars
      /\ \A q \in Requests \ {r} : pc'[q] = pc[q] /\ known'[q] = known[q]
      /\ pc'[r] = "done"
  BY DEF StartTrial, CommitTier, CommitCancel, stripeVars, webhookVars, TypeOK
<1>2. \/ /\ row'.sub = row.sub /\ row'.customer = row.customer
         /\ row'.status \in {"trialing", "cancelled"}
      \/ /\ row'.sub = r /\ row'.customer = known[r] /\ row'.status = "active"
         /\ pc[r] = "subscribed"
  <2>1. CASE StartTrial(r) \/ CommitCancel(r)
    BY <2>1 DEF StartTrial, CommitCancel, TypeOK, Rows
  <2>2. CASE CommitTier(r)
    BY <2>2 DEF CommitTier, TierRow, TypeOK, Rows
  <2>3. QED
    BY <2>1, <2>2
<1>3. EventSafety'
  BY <1>1, <1>2, CallLeavesEvents, NoneAssumption
<1>4. RowKnows' /\ RowCoherent'
  BY <1>1, <1>2, NoneAssumption
     DEF RowKnows, RowCoherent, CallsKnow, TypeOK, Rows, IdOrNone, Paid
<1>5. CallsKnow'
  BY <1>1 DEF CallsKnow, TypeOK, IdOrNone
<1>6. QED
  BY <1>3, <1>4, <1>5

\* cancelSubscription's call of Stripe only takes the subscription it read.
LEMMA CancelAtStripePreserves ==
    ASSUME IInv, NEW r \in Requests, CancelAtStripe(r)
    PROVE  EventSafety' /\ CallSafety'
<1> USE DEF IInv, CallSafety, Goto, End
<1>1. /\ UNCHANGED <<row, payer, op>> /\ UNCHANGED webhookVars
      /\ \A q \in Requests \ {r} : pc'[q] = pc[q] /\ known'[q] = known[q]
      /\ pc[r] = "read" /\ op[r] = "cancel" /\ live' = live \ {known[r]}
      /\ \/ pc'[r] = "unbilled" /\ known'[r] = known[r]
         \/ pc'[r] = "done"
  BY DEF CancelAtStripe, webhookVars, TypeOK
<1>2. EventSafety'
  BY <1>1, CallLeavesEvents
<1>3. RowKnows' /\ RowCoherent'
  BY <1>1 DEF RowKnows, RowCoherent, TypeOK, Rows, IdOrNone
<1>4. CallsKnow'
  BY <1>1 DEF CallsKnow, TypeOK, IdOrNone
<1>5. QED
  BY <1>2, <1>3, <1>4

-----------------------------------------------------------------------------
\* The handler's steps that write nothing: the delivery, the look-up, the SELECT,
\* and the two ways to fail.
LEMMA HandlerMovePreserves ==
    ASSUME IInv, TypeOK', NEW h \in Handlers,
           \/ CheckDuplicate(h) \/ Decide(h) \/ PauseForEvent(h) \/ HandlerFails(h)
           \/ HandlerCrash(h) \/ \E e \in Events : Deliver(h, e)
    PROVE  EventSafety' /\ CallSafety'
<1> USE DEF IInv, EventSafety, Step
<1>1. /\ UNCHANGED <<row, processed, payer, live, event, pc, op, known, applied>>
      /\ \A g \in Handlers \ {h} :
            hpc'[g] = hpc[g] /\ hand'[g] = hand[g] /\ verdict'[g] = verdict[g]
  BY DEF CheckDuplicate, Proceed, Decide, PauseForEvent, HandlerFails, HandlerCrash,
         Deliver, Respond, Die, Finish, callVars, stripeVars, requestVars, TypeOK
<1>2. CallSafety'
  BY <1>1, OthersLeaveCalls
<1>3. EventsKnown' /\ EventEffectOnce' /\ SuspensionNeedsTwoFailures'
  BY <1>1 DEF EventsKnown, SomeFailure, EventEffectOnce, SuspensionNeedsTwoFailures
<1>4. AckedAccounted'
  BY <1>1 DEF CheckDuplicate, Proceed, Decide, PauseForEvent, HandlerFails, HandlerCrash,
              Deliver, Respond, Die, Finish, AckedAccounted
<1>5. /\ hpc'[h] \notin {"decided", "paused"} => verdict'[h] = "nothing"
      /\ hpc'[h] = "paused" => Pauses(verdict'[h])
      /\ verdict'[h] \in {"past_due", "suspend", "cancel"} => row.sub # None
      /\ verdict'[h] \in {"past_due", "suspend"} => event[hand'[h]].kind = "failed"
      /\ verdict'[h] = "activate" => event[hand'[h]].kind = "paid"
      /\ verdict'[h] = "suspend" => SomeFailure
  <2>1. CASE Decide(h)
    <3>1. /\ hpc'[h] = "decided" /\ hand'[h] = hand[h]
          /\ hand[h] \in Events /\ event[hand[h]] \in Letter
      BY <2>1 DEF Decide, HandsHold, TypeOK
    <3>2. verdict'[h] \in {"past_due", "suspend"} =>
              /\ event[hand[h]].kind = "failed" /\ Matches(hand[h])
              /\ verdict'[h] = OnFailure(hand[h])
      BY <2>1, <3>1 DEF Decide, TypeOK, Letter, Kinds
    <3>3. verdict'[h] = "cancel" => Matches(hand[h])
      BY <2>1, <3>1 DEF Decide, TypeOK, Letter, Kinds, OnFailure
    <3>4. Matches(hand[h]) => row.sub # None
      BY <3>1, NoneAssumption DEF Matches, Letter
    <3>5. OnFailure(hand[h]) = "suspend" => row.status = "past_due"
      BY DEF OnFailure
    <3>6. verdict'[h] = "activate" => event[hand[h]].kind = "paid"
      BY <2>1, <3>1 DEF Decide, TypeOK, Letter, Kinds, OnFailure
    <3>7. QED
      BY <3>1, <3>2, <3>3, <3>4, <3>5, <3>6 DEF EventsKnown
  <2>2. CASE CheckDuplicate(h) \/ PauseForEvent(h) \/ HandlerFails(h) \/ HandlerCrash(h)
             \/ \E e \in Events : Deliver(h, e)
    BY <2>2 DEF CheckDuplicate, Proceed, PauseForEvent, HandlerFails, HandlerCrash, Deliver,
                Respond, Die, Finish, HandlersKnow, TypeOK
  <2>3. QED
    BY <2>1, <2>2
<1>6. HandlersKnow'
  <2> SUFFICES ASSUME NEW g \in Handlers
               PROVE  /\ hpc'[g] \notin {"decided", "paused"} => verdict'[g] = "nothing"
                      /\ hpc'[g] = "paused" => Pauses(verdict'[g])
                      /\ verdict'[g] \in {"past_due", "suspend", "cancel"} => row.sub # None
                      /\ verdict'[g] \in {"past_due", "suspend"} =>
                             event[hand'[g]].kind = "failed"
                      /\ verdict'[g] = "activate" => event[hand'[g]].kind = "paid"
                      /\ verdict'[g] = "suspend" => SomeFailure
    BY <1>1 DEF HandlersKnow, SomeFailure, Pauses
  <2>1. CASE g = h
    BY <1>5, <2>1
  <2>2. CASE g # h
    BY <1>1, <2>2 DEF HandlersKnow
  <2>3. QED
    BY <2>1, <2>2
<1>7. QED
  BY <1>2, <1>3, <1>4, <1>6

\* The COMMIT of an event.  Its id was not recorded before, so a suspension's
\* earlier failure is another event's.
LEMMA CommitEventPreserves ==
    ASSUME IInv, TypeOK', NEW h \in Handlers, CommitEvent(h)
    PROVE  EventSafety' /\ CallSafety'
<1> DEFINE e == hand[h]
           v == verdict[h]
<1> USE DEF IInv, EventSafety
<1>1. /\ e \in Events /\ event[e] \in Letter /\ e \notin processed
      /\ v \in Verdicts /\ Apply(v, e)
      /\ processed' = processed \cup {e}
      /\ applied' = [applied EXCEPT ![e] = @ + 1]
      /\ UNCHANGED <<payer, live, event, pc, op, known, captured>>
  BY DEF CommitEvent, Insertable, callVars, stripeVars, requestVars, HandsHold, TypeOK
<1>2. /\ \A g \in Handlers \ {h} :
            hpc'[g] = hpc[g] /\ hand'[g] = hand[g] /\ verdict'[g] = verdict[g]
      /\ hpc'[h] = "idle" /\ verdict'[h] = "nothing"
      /\ acked' \subseteq acked \cup {e}
  BY DEF CommitEvent, Respond, Die, Finish, Step, TypeOK
<1>3. /\ row'.sub = row.sub /\ row'.customer = row.customer
      /\ \/ row'.status = row.status
         \/ row'.status = "active" /\ row.sub # None
         \/ v \in {"past_due", "suspend", "cancel"} /\ row'.status = StatusFor(v)
  <2>1. CASE v \in {"nothing", "activate"}
    <3>1. CASE row' = row
      BY <3>1
    <3>2. CASE v = "activate" /\ Matches(e)
      <4>1. PICK x \in {FALSE, row.expired} :
               row' = [row EXCEPT !.status = "active", !.expired = x]
        BY <1>1, <3>2 DEF Apply
      <4>2. row.sub # None
        BY <1>1, <3>2, NoneAssumption DEF Matches, Letter
      <4>3. QED
        BY <4>1, <4>2 DEF TypeOK, Rows
    <3>3. QED
      BY <1>1, <2>1, <3>1, <3>2 DEF Apply
  <2>2. CASE v \in {"past_due", "suspend", "cancel"}
    BY <1>1, <2>2 DEF Apply, TypeOK, Rows
  <2>3. QED
    BY <1>1, <2>1, <2>2 DEF Verdicts
<1>4. CallSafety'
  <2>1. v \in {"past_due", "suspend", "cancel"} => row.sub # None
    BY DEF HandlersKnow
  <2>2. QED
    BY <1>1, <1>3, <2>1, OthersLeaveCalls
<1>5. SomeFailure => SomeFailure'
  BY <1>1 DEF SomeFailure
<1>6. EventsKnown'
  <2>1. row'.status = "past_due" => row.status = "past_due" \/ v = "past_due"
    BY <1>3 DEF StatusFor
  <2>2. v = "past_due" => SomeFailure'
    BY <1>1 DEF HandlersKnow, SomeFailure
  <2>3. QED
    BY <1>1, <1>5, <2>1, <2>2 DEF EventsKnown
<1>7. HandlersKnow'
  BY <1>1, <1>2, <1>3, <1>5 DEF HandlersKnow, Pauses
<1>8. EventEffectOnce'
  BY <1>1 DEF EventEffectOnce, TypeOK
<1>9. SuspensionNeedsTwoFailures'
  <2> SUFFICES ASSUME row'.status = "suspended"
               PROVE  \E f, g \in processed' :
                         f # g /\ event[f].kind = "failed" /\ event[g].kind = "failed"
    BY <1>1 DEF SuspensionNeedsTwoFailures
  <2>1. CASE row.status = "suspended"
    BY <1>1, <2>1 DEF SuspensionNeedsTwoFailures
  <2>2. CASE row.status # "suspended"
    <3>1. v = "suspend"
      BY <1>3, <2>2 DEF StatusFor
    <3>2. event[e].kind = "failed" /\ SomeFailure
      BY <3>1 DEF HandlersKnow
    <3>3. QED
      BY <1>1, <3>2 DEF SomeFailure
  <2>3. QED
    BY <2>1, <2>2
<1>10. AckedAccounted'
  BY <1>1, <1>2 DEF AckedAccounted
<1>11. QED
  BY <1>4, <1>6, <1>7, <1>8, <1>9, <1>10

\* Stripe sends an event, cancels a subscription; a grace period ends; a bot
\* starts.
LEMMA WorldPreserves ==
    ASSUME IInv,
           \/ \E e \in Events, kind \in Kinds, s \in Requests : Emit(e, kind, s)
           \/ \E s \in Requests : StripeCancels(s)
           \/ GraceEnds \/ BotStarts
    PROVE  EventSafety' /\ CallSafety'
<1> USE DEF IInv, EventSafety
<1>1. /\ UNCHANGED <<processed, payer, acked, pc, op, known, hpc, hand, verdict,
                     captured, applied>>
      /\ live' \subseteq live
  BY DEF Emit, StripeCancels, GraceEnds, BotStarts, apiVars, requestVars, handlerVars
<1>2. row'.sub = row.sub /\ row'.customer = row.customer /\ row'.status = row.status
  BY DEF Emit, StripeCancels, GraceEnds, BotStarts, TypeOK, Rows
<1>3. \A e \in Events : event[e] # None => event'[e] = event[e]
  BY DEF Emit, StripeCancels, GraceEnds, BotStarts, TypeOK
<1>4. \A e \in Events : event[e] \in Letter => event'[e] = event[e]
  BY <1>3, LetterAssumption
<1>5. EventsKnown'
  BY <1>1, <1>2, <1>4 DEF EventsKnown, SomeFailure, TypeOK
<1>6. HandlersKnow'
  <2>1. SomeFailure => SomeFailure'
    BY <1>1, <1>4 DEF SomeFailure, EventsKnown, TypeOK
  <2>2. ASSUME NEW h \in Handlers, verdict[h] \in {"past_due", "suspend", "activate"}
        PROVE  event'[hand[h]].kind = IF verdict[h] = "activate" THEN "paid" ELSE "failed"
    <3>1. hpc[h] # "idle"
      BY <2>2 DEF HandlersKnow
    <3>2. event'[hand[h]] = event[hand[h]]
      BY <1>4, <3>1 DEF HandsHold
    <3>3. QED
      BY <2>2, <3>2 DEF HandlersKnow
  <2>3. QED
    BY <1>1, <1>2, <2>1, <2>2 DEF HandlersKnow
<1>7. EventEffectOnce' /\ AckedAccounted'
  BY <1>1 DEF EventEffectOnce, AckedAccounted
<1>8. SuspensionNeedsTwoFailures'
  BY <1>1, <1>2, <1>4 DEF SuspensionNeedsTwoFailures, EventsKnown, TypeOK
<1>9. CallSafety'
  BY <1>1, <1>2, OthersLeaveCalls
<1>10. QED
  BY <1>5, <1>6, <1>7, <1>8, <1>9

\* No step takes the row away.
LEMMA RowExistsStep ==
    ASSUME IInv, [Next]_vars
    PROVE  RowExists'
<1> USE DEF IInv, TypeOK
<1>1. ASSUME NEW r \in Requests, SelectTier(r) \/ CancelSubscription(r)
      PROVE  RowExists'
  <2>1. CASE StartTrial(r) \/ CommitTier(r) \/ CommitCancel(r)
    <3>1. row'.status \in {"trialing", "active", "cancelled"}
      BY <2>1 DEF StartTrial, CommitTier, CommitCancel, TierRow, Rows
    <3>2. QED
      BY <3>1 DEF RowExists
  <2>2. CASE ReadRow(r) \/ MakeCustomer(r) \/ MakeSubscription(r) \/ CancelAtStripe(r)
             \/ PauseBots(r) \/ Fails(r)
    <3>1. row' = row /\ op' = op /\ \A q \in Requests \ {r} : pc'[q] = pc[q]
      BY <2>2 DEF ReadRow, MakeCustomer, MakeSubscription, CancelAtStripe, PauseBots, Fails,
                  End, Goto, webhookVars
    <3>2. op[r] = "cancel" /\ pc'[r] \in {"read", "unbilled", "paused"} =>
              row.status # "ABSENT"
      BY <2>2 DEF ReadRow, MakeCustomer, MakeSubscription, CancelAtStripe, PauseBots, Fails,
                  End, Goto, RowExists
    <3>3. QED
      BY <3>1, <3>2 DEF RowExists
  <2>3. QED
    BY <1>1, <2>1, <2>2 DEF SelectTier, CancelSubscription
<1>2. ASSUME NEW h \in Handlers, CommitEvent(h)
      PROVE  RowExists'
  <2>1. /\ verdict[h] \in Verdicts /\ Apply(verdict[h], hand[h])
        /\ pc' = pc /\ op' = op
    BY <1>2 DEF CommitEvent, callVars, requestVars
  <2>2. row'.sub = row.sub /\ (row'.status = row.status \/ row'.status # "ABSENT")
    BY <2>1 DEF Apply, StatusFor, Verdicts, Rows
  <2>3. QED
    BY <2>1, <2>2 DEF RowExists
<1>3. ASSUME \/ \E h \in Handlers :
                   \/ CheckDuplicate(h) \/ Decide(h) \/ PauseForEvent(h) \/ HandlerFails(h)
                   \/ HandlerCrash(h) \/ \E e \in Events : Deliver(h, e)
             \/ \E e \in Events, kind \in Kinds, s \in Requests : Emit(e, kind, s)
             \/ \E s \in Requests : StripeCancels(s)
             \/ GraceEnds \/ BotStarts \/ UNCHANGED vars
      PROVE  RowExists'
  <2>1. /\ row'.sub = row.sub /\ row'.status = row.status
        /\ pc' = pc /\ op' = op
    BY <1>3 DEF CheckDuplicate, Decide, PauseForEvent, HandlerFails, HandlerCrash, Deliver,
                Emit, StripeCancels, GraceEnds, BotStarts, vars, callVars, apiVars,
                requestVars, Rows
  <2>2. QED
    BY <2>1 DEF RowExists
<1>4. QED
  BY <1>1, <1>2, <1>3 DEF Next, StripeWebhookHandler

\* A lapse looks for bots when nobody holds the row, and what ends one forgets the
\* late bots.
LEMMA OneLapseStep ==
    ASSUME IInv, [Next]_vars
    PROVE  OneLapse'
<1> USE DEF IInv, TypeOK
<1>1. ASSUME NEW r \in Requests, SelectTier(r) \/ CancelSubscription(r)
      PROVE  OneLapse'
  <2>1. hpc' = hpc /\ \A q \in Requests \ {r} : pc'[q] = pc[q]
    BY <1>1 DEF SelectTier, CancelSubscription, ReadRow, StartTrial, MakeCustomer,
                MakeSubscription, CommitTier, CancelAtStripe, PauseBots, CommitCancel, Fails,
                End, Goto, webhookVars, handlerVars
  <2>2. pc'[r] = "paused" => ~RowLocked
    BY <1>1 DEF SelectTier, CancelSubscription, ReadRow, StartTrial, MakeCustomer,
                MakeSubscription, CommitTier, CancelAtStripe, PauseBots, CommitCancel, Fails,
                End, Goto
  <2>3. late' => trading'
    BY <1>1 DEF SelectTier, CancelSubscription, ReadRow, StartTrial, MakeCustomer,
                MakeSubscription, CommitTier, CancelAtStripe, PauseBots, CommitCancel, Fails,
                botVars, BotsLapse, RollBack, OneLapse
  <2>4. QED
    BY <2>1, <2>2, <2>3 DEF OneLapse, RowLocked
<1>2. ASSUME NEW h \in Handlers,
             \/ StripeWebhookHandler(h) \/ HandlerCrash(h)
             \/ \E e \in Events : Deliver(h, e)
      PROVE  OneLapse'
  <2>1. pc' = pc /\ \A g \in Handlers \ {h} : hpc'[g] = hpc[g]
    BY <1>2 DEF StripeWebhookHandler, CheckDuplicate, Proceed, Decide, PauseForEvent,
                CommitEvent, HandlerFails, HandlerCrash, Deliver, Respond, Die, Finish, Step,
                callVars, requestVars
  <2>2. hpc'[h] = "paused" => ~RowLocked
    BY <1>2 DEF StripeWebhookHandler, CheckDuplicate, Proceed, Decide, PauseForEvent,
                CommitEvent, HandlerFails, HandlerCrash, Deliver, Respond, Die, Finish, Step
  <2>3. late' => trading'
    BY <1>2 DEF StripeWebhookHandler, CheckDuplicate, Decide, PauseForEvent, CommitEvent,
                HandlerFails, HandlerCrash, Deliver, botVars, BotsLapse, RollBack, OneLapse
  <2>4. QED
    BY <2>1, <2>2, <2>3 DEF OneLapse, RowLocked
<1>3. ASSUME \/ \E e \in Events, kind \in Kinds, s \in Requests : Emit(e, kind, s)
             \/ \E s \in Requests : StripeCancels(s)
             \/ GraceEnds \/ BotStarts \/ UNCHANGED vars
      PROVE  OneLapse'
  <2>1. pc' = pc /\ hpc' = hpc /\ (late' => trading')
    BY <1>3 DEF Emit, StripeCancels, GraceEnds, BotStarts, vars, apiVars, requestVars,
                handlerVars, botVars, OneLapse
  <2>2. QED
    BY <2>1 DEF OneLapse
<1>4. QED
  BY <1>1, <1>2, <1>3 DEF Next

-----------------------------------------------------------------------------
\* The invariant holds of every behaviour.
THEOREM BillingInvariant == Spec => []IInv
<1>1. Init => IInv
  <2> SUFFICES ASSUME Init PROVE IInv
    OBVIOUS
  <2>1. TypeOK /\ HandsHold
    BY DEF Init, TypeOK, HandsHold, Rows, Statuses, IdOrNone, Verdicts
  <2>2. EventSafety
    BY DEF Init, EventSafety, EventsKnown, HandlersKnow, EventEffectOnce,
           SuspensionNeedsTwoFailures, AckedAccounted
  <2>3. CallSafety
    BY DEF Init, CallSafety, CallsKnow, RowKnows, RowCoherent, Paid
  <2>4. RowExists
    BY DEF Init, RowExists
  <2>5. OneLapse
    BY DEF Init, OneLapse
  <2>6. QED
    BY <2>1, <2>2, <2>3, <2>4, <2>5 DEF IInv
<1>2. IInv /\ [Next]_vars => IInv'
  <2> SUFFICES ASSUME IInv, [Next]_vars PROVE IInv'
    OBVIOUS
  <2>1. TypeOK' /\ HandsHold'
    BY TypesStep DEF IInv
  <2>2. ASSUME NEW r \in Requests, SelectTier(r) \/ CancelSubscription(r)
        PROVE  EventSafety' /\ CallSafety'
    BY <2>2, MovePreserves, MakeSubscriptionPreserves, WritePreserves,
       CancelAtStripePreserves DEF SelectTier, CancelSubscription
  <2>3. ASSUME NEW h \in Handlers,
               \/ StripeWebhookHandler(h) \/ HandlerCrash(h)
               \/ \E e \in Events : Deliver(h, e)
        PROVE  EventSafety' /\ CallSafety'
    BY <2>1, <2>3, HandlerMovePreserves, CommitEventPreserves DEF StripeWebhookHandler
  <2>4. ASSUME UNCHANGED vars
        PROVE  EventSafety' /\ CallSafety'
    <3>1. UNCHANGED <<row, processed, payer, live, event, acked, pc, op, known, hpc,
                      hand, verdict, captured, applied>>
      BY <2>4 DEF vars, stripeVars, eventVars, requestVars, handlerVars
    <3>2. EventsKnown' /\ HandlersKnow'
      BY <3>1 DEF IInv, EventSafety, EventsKnown, HandlersKnow, SomeFailure
    <3>3. EventEffectOnce' /\ SuspensionNeedsTwoFailures' /\ AckedAccounted'
      BY <3>1 DEF IInv, EventSafety, EventEffectOnce, SuspensionNeedsTwoFailures,
                  AckedAccounted
    <3>4. CallSafety'
      BY <3>1, OthersLeaveCalls
    <3>5. QED
      BY <3>2, <3>3, <3>4 DEF EventSafety
  <2>5. EventSafety' /\ CallSafety'
    BY <2>2, <2>3, <2>4, WorldPreserves DEF Next
  <2>6. QED
    BY <2>1, <2>5, RowExistsStep, OneLapseStep DEF IInv
<1>3. QED
  BY <1>1, <1>2, PTL DEF Spec

\* Every variable keeps its type, the columns their enumerations.
THEOREM BillingTypes == Spec => []TypeOK
<1>1. IInv => TypeOK
  BY DEF IInv
<1>2. QED
  BY <1>1, BillingInvariant, PTL

\* However often Stripe delivers an event, and whatever overlaps, its effects are
\* committed once.
THEOREM EventEffectAlwaysOnce == Spec => []EventEffectOnce
<1>1. IInv => EventEffectOnce
  BY DEF IInv, EventSafety
<1>2. QED
  BY <1>1, BillingInvariant, PTL

\* A suspended row always has two different failed payments behind it.
THEOREM SuspensionAlwaysJustified == Spec => []SuspensionNeedsTwoFailures
<1>1. IInv => SuspensionNeedsTwoFailures
  BY DEF IInv, EventSafety
<1>2. QED
  BY <1>1, BillingInvariant, PTL

\* Every event that Stripe will not send again was processed or reported.
THEOREM AckedAlwaysAccounted == Spec => []AckedAccounted
<1>1. IInv => AckedAccounted
  BY DEF IInv, EventSafety
<1>2. QED
  BY <1>1, BillingInvariant, PTL

\* The row always names a customer and a subscription that belong together.
THEOREM RowAlwaysCoherent == Spec => []RowCoherent
<1>1. IInv => RowCoherent
  BY DEF IInv, CallSafety
<1>2. QED
  BY <1>1, BillingInvariant, PTL

\* Between Stripe's answer and the COMMIT of cancelSubscription, the subscription
\* it read is not billed, whatever selectTier and Stripe do meanwhile.
THEOREM CancelAlwaysStopsBilling == Spec => []CancelStopsBilling
<1>1. IInv => CancelStopsBilling
  BY DEF IInv, CallSafety, CallsKnow, CancelStopsBilling
<1>2. QED
  BY <1>1, BillingInvariant, PTL

\* A lapsed subscription only comes back by a tier that is selected, or by news of
\* a payment that was never counted before.
THEOREM RevivedAlwaysByNews == Spec => RevivedOnlyByNews
<1> DEFINE Selected ==
             \E r \in Requests :
                /\ \/ op[r] = "trial" /\ pc[r] = "read"
                   \/ op[r] = "paid" /\ pc[r] = "subscribed"
                /\ pc'[r] = "done"
           News ==
             \E e \in processed' \ processed :
                \/ event[e].kind = "failed"
                \/ event[e].kind = "paid" /\ Matches(e)
<1>1. IInv /\ [Next]_vars =>
        [row.status \in Lapsed /\ row'.status \notin Lapsed => Selected \/ News]_vars
  <2> SUFFICES ASSUME IInv, Next, row.status \in Lapsed, row'.status \notin Lapsed
               PROVE  Selected \/ News
    OBVIOUS
  <2> USE DEF IInv, TypeOK, Lapsed
  <2>1. ASSUME NEW r \in Requests, SelectTier(r) \/ CancelSubscription(r)
        PROVE  Selected
    <3>1. ~(ReadRow(r) \/ MakeCustomer(r) \/ MakeSubscription(r) \/ CancelAtStripe(r)
            \/ PauseBots(r) \/ Fails(r))
      BY DEF ReadRow, MakeCustomer, MakeSubscription, CancelAtStripe, PauseBots, Fails
    <3>2. ~CommitCancel(r)
      BY DEF CommitCancel, Rows
    <3>3. StartTrial(r) \/ CommitTier(r)
      BY <2>1, <3>1, <3>2 DEF SelectTier, CancelSubscription
    <3>4. pc'[r] = "done"
      BY <3>3 DEF StartTrial, CommitTier, End, Goto
    <3>5. \/ op[r] = "trial" /\ pc[r] = "read"
          \/ op[r] = "paid" /\ pc[r] = "subscribed"
      BY <3>3 DEF StartTrial, CommitTier, CallSafety, CallsKnow
    <3>6. QED
      BY <3>4, <3>5
  <2>2. ASSUME NEW h \in Handlers, CommitEvent(h)
        PROVE  News
    <3>1. /\ hand[h] \in processed' \ processed
          /\ verdict[h] \in Verdicts /\ Apply(verdict[h], hand[h])
      BY <2>2 DEF CommitEvent, Insertable
    <3>2. CASE verdict[h] = "activate"
      <4>1. event[hand[h]].kind = "paid"
        BY <3>2 DEF EventSafety, HandlersKnow
      <4>2. Matches(hand[h])
        BY <3>1, <3>2 DEF Apply
      <4>3. QED
        BY <3>1, <4>1, <4>2
    <3>3. CASE verdict[h] = "past_due"
      <4>1. event[hand[h]].kind = "failed"
        BY <3>3 DEF EventSafety, HandlersKnow
      <4>2. QED
        BY <3>1, <4>1
    <3>4. CASE verdict[h] \in {"nothing", "suspend", "cancel"}
      BY <3>1, <3>4 DEF Apply, StatusFor, Rows
    <3>5. QED
      BY <3>1, <3>2, <3>3, <3>4 DEF Verdicts
  <2>3. ASSUME NEW h \in Handlers,
               \/ CheckDuplicate(h) \/ Decide(h) \/ PauseForEvent(h) \/ HandlerFails(h)
               \/ HandlerCrash(h) \/ \E e \in Events : Deliver(h, e)
        PROVE  FALSE
    BY <2>3 DEF CheckDuplicate, Decide, PauseForEvent, HandlerFails, HandlerCrash, Deliver
  <2>4. ASSUME \/ \E e \in Events, kind \in Kinds, s \in Requests : Emit(e, kind, s)
               \/ \E s \in Requests : StripeCancels(s)
               \/ GraceEnds \/ BotStarts
        PROVE  FALSE
    BY <2>4 DEF Emit, StripeCancels, GraceEnds, BotStarts, Rows
  <2>5. QED
    BY <2>1, <2>2, <2>3, <2>4 DEF Next, StripeWebhookHandler
<1>2. QED
  BY <1>1, BillingInvariant, PTL DEF Spec, RevivedOnlyByNews

-----------------------------------------------------------------------------
(***************************************************************************)
(* Billing implements Entitlement.                                         *)
(***************************************************************************)
Stands == [u \in {TheUser} |-> Standing]
Trades == IF trading THEN {TheUser} ELSE {}
Opens  == IF RowLocked THEN {TheUser} ELSE {}
Lates  == IF late THEN {TheUser} ELSE {}

\* A row that lapsed or not is entitled in the abstract, or lapsed, as its status
\* says.
LEMMA StandingOf ==
    /\ row.status = "ABSENT" <=> Standing = "none"
    /\ row.status \in Lapsed <=> Standing = "lapsed"
    /\ row.status \notin Lapsed \cup {"ABSENT"} <=> Standing = "entitled"
BY DEF Standing, Lapsed

LEMMA StandingOfNext ==
    /\ row'.status = "ABSENT" <=> Standing' = "none"
    /\ row'.status \in Lapsed <=> Standing' = "lapsed"
    /\ row'.status \notin Lapsed \cup {"ABSENT"} <=> Standing' = "entitled"
BY DEF Standing, Lapsed

\* What a step of one call, or of one handler, does to the lock.
LEMMA CallsLock ==
    ASSUME IInv, NEW r \in Requests, hpc' = hpc,
           \A q \in Requests \ {r} : pc'[q] = pc[q]
    PROVE  /\ pc'[r] = "paused" => RowLocked'
           /\ pc[r] = "paused" /\ pc'[r] # "paused" => RowLocked /\ ~RowLocked'
           /\ pc[r] # "paused" /\ pc'[r] # "paused" => (RowLocked' <=> RowLocked)
BY DEF IInv, OneLapse, RowLocked

LEMMA HandlersLock ==
    ASSUME IInv, NEW h \in Handlers, pc' = pc,
           \A g \in Handlers \ {h} : hpc'[g] = hpc[g]
    PROVE  /\ hpc'[h] = "paused" => RowLocked'
           /\ hpc[h] = "paused" /\ hpc'[h] # "paused" => RowLocked /\ ~RowLocked'
           /\ hpc[h] # "paused" /\ hpc'[h] # "paused" => (RowLocked' <=> RowLocked)
BY DEF IInv, OneLapse, RowLocked

\* A step that leaves the status or, with nobody holding the row, makes it one that
\* counts; no bot stops or starts.
LEMMA GrantOrStutter ==
    ASSUME UNCHANGED <<trading, late>>, RowLocked' <=> RowLocked,
           \/ row'.status = row.status
           \/ row'.status \notin Lapsed \cup {"ABSENT"} /\ ~RowLocked
    PROVE  [Ent!Next]_(Ent!vars)
<1>1. Trades' = Trades /\ Opens' = Opens /\ Lates' = Lates
  BY DEF Trades, Opens, Lates
<1>2. CASE row'.status = row.status
  BY <1>1, <1>2 DEF Trades, Opens, Lates, Ent!vars, Standing
<1>3. CASE row'.status \notin Lapsed \cup {"ABSENT"} /\ ~RowLocked
  <2>1. Stands' = [Stands EXCEPT ![TheUser] = "entitled"]
    BY <1>3, StandingOfNext DEF Stands
  <2>2. TheUser \notin Opens
    BY <1>3 DEF Opens
  <2>3. Ent!Grant(TheUser)
    BY <1>1, <2>1, <2>2 DEF Ent!Grant, Stands, Trades, Opens, Lates
  <2>4. QED
    BY <2>3 DEF Ent!Next, Ent!Bill
<1>4. QED
  BY <1>2, <1>3

\* A step that takes the row's lock and looks for the bots.
LEMMA LookAtExisting ==
    ASSUME UNCHANGED <<row, trading, late>>, ~RowLocked, RowLocked', row.status # "ABSENT"
    PROVE  Ent!Next
<1>1. Stands' = Stands /\ Trades' = Trades /\ Lates' = Lates
  BY DEF Stands, Trades, Lates, Standing
<1>2. TheUser \notin Opens /\ Opens' = Opens \cup {TheUser}
  BY DEF Opens
<1>3. Stands[TheUser] # "none"
  BY StandingOf DEF Stands
<1>4. Ent!Look(TheUser)
  BY <1>1, <1>2, <1>3 DEF Ent!Look, Stands, Trades, Opens, Lates
<1>5. QED
  BY <1>4 DEF Ent!Next, Ent!Bill

\* The COMMIT of a lapse, and its rollback.
LEMMA CommitIsLapse ==
    ASSUME RowLocked, ~RowLocked', BotsLapse, late => trading, row'.status \in Lapsed,
           trading \in BOOLEAN, late \in BOOLEAN
    PROVE  Ent!Next
<1>1. Stands' = [Stands EXCEPT ![TheUser] = "lapsed"]
  BY StandingOfNext DEF Stands
<1>2. /\ TheUser \in Opens /\ Opens' = Opens \ {TheUser}
      /\ Lates' = Lates \ {TheUser}
      /\ Trades' = IF TheUser \in Lates THEN Trades ELSE Trades \ {TheUser}
  BY DEF Opens, Lates, Trades, BotsLapse
<1>3. Ent!Lapse(TheUser)
  BY <1>1, <1>2 DEF Ent!Lapse, Ent!Close, Stands, Trades, Opens, Lates
<1>4. QED
  BY <1>3 DEF Ent!Next, Ent!Bill

LEMMA RollBackIsGiveUp ==
    ASSUME RowLocked, ~RowLocked', late' = FALSE, trading' = trading,
           row'.status = row.status
    PROVE  Ent!Next
<1>1. Stands' = Stands /\ Trades' = Trades
  BY DEF Stands, Trades, Standing
<1>2. TheUser \in Opens /\ Opens' = Opens \ {TheUser} /\ Lates' = Lates \ {TheUser}
  BY DEF Opens, Lates
<1>3. Ent!GiveUp(TheUser)
  BY <1>1, <1>2 DEF Ent!GiveUp, Ent!Close, Stands, Trades, Opens, Lates
<1>4. QED
  BY <1>3 DEF Ent!Next, Ent!Bill

LEMMA StepsImplement ==
    ASSUME IInv, [Next]_vars
    PROVE  [Ent!Next]_(Ent!vars)
<1> USE DEF IInv, TypeOK
<1>1. ASSUME NEW r \in Requests, SelectTier(r) \/ CancelSubscription(r)
      PROVE  [Ent!Next]_(Ent!vars)
  <2>1. hpc' = hpc /\ \A q \in Requests \ {r} : pc'[q] = pc[q]
    BY <1>1 DEF SelectTier, CancelSubscription, ReadRow, StartTrial, MakeCustomer,
                MakeSubscription, CommitTier, CancelAtStripe, PauseBots, CommitCancel, Fails,
                End, Goto, webhookVars, handlerVars
  <2>2. CASE CommitCancel(r)
    <3>1. pc[r] = "paused" /\ pc'[r] = "done" /\ BotsLapse /\ row'.status \in Lapsed
      BY <2>2 DEF CommitCancel, End, Goto, Rows, Lapsed
    <3>2. RowLocked /\ ~RowLocked'
      BY <2>1, <3>1, CallsLock
    <3>3. QED
      BY <3>1, <3>2, CommitIsLapse DEF OneLapse
  <2>3. CASE PauseBots(r)
    <3>1. row.status # "ABSENT"
      BY <2>3 DEF PauseBots, CallSafety, CallsKnow, RowExists
    <3>2. pc'[r] = "paused" /\ ~RowLocked /\ UNCHANGED <<row, trading, late>>
      BY <2>3 DEF PauseBots, Goto, botVars
    <3>3. QED
      BY <2>1, <3>1, <3>2, CallsLock, LookAtExisting
  <2>4. CASE Fails(r)
    <3>1. pc'[r] = "done" /\ row' = row /\ trading' = trading /\ RollBack(pc[r])
      BY <2>4 DEF Fails, End, Goto
    <3>2. CASE pc[r] = "paused"
      <4>1. RowLocked /\ ~RowLocked' /\ late' = FALSE
        BY <2>1, <3>1, <3>2, CallsLock DEF RollBack
      <4>2. QED
        BY <3>1, <4>1, RollBackIsGiveUp
    <3>3. CASE pc[r] # "paused"
      <4>1. (RowLocked' <=> RowLocked) /\ late' = late
        BY <2>1, <3>1, <3>3, CallsLock DEF RollBack
      <4>2. QED
        BY <3>1, <4>1, GrantOrStutter
    <3>4. QED
      BY <3>2, <3>3
  <2>5. CASE \/ StartTrial(r) \/ CommitTier(r) \/ ReadRow(r) \/ MakeCustomer(r)
             \/ MakeSubscription(r) \/ CancelAtStripe(r)
    <3>1. /\ UNCHANGED <<trading, late>>
          /\ \/ row'.status = row.status
             \/ row'.status \in {"trialing", "active"} /\ ~RowLocked
      BY <2>5 DEF StartTrial, CommitTier, TierRow, ReadRow, MakeCustomer, MakeSubscription,
                  CancelAtStripe, botVars, Rows
    <3>2. pc[r] # "paused" /\ pc'[r] # "paused"
      BY <2>5 DEF StartTrial, CommitTier, ReadRow, MakeCustomer, MakeSubscription,
                  CancelAtStripe, End, Goto
    <3>3. QED
      BY <2>1, <3>1, <3>2, CallsLock, GrantOrStutter DEF Lapsed
  <2>6. QED
    BY <1>1, <2>2, <2>3, <2>4, <2>5 DEF SelectTier, CancelSubscription
<1>2. ASSUME NEW h \in Handlers,
             \/ StripeWebhookHandler(h) \/ HandlerCrash(h)
             \/ \E e \in Events : Deliver(h, e)
      PROVE  [Ent!Next]_(Ent!vars)
  <2>1. pc' = pc /\ \A g \in Handlers \ {h} : hpc'[g] = hpc[g]
    BY <1>2 DEF StripeWebhookHandler, CheckDuplicate, Proceed, Decide, PauseForEvent,
                CommitEvent, HandlerFails, HandlerCrash, Deliver, Respond, Die, Finish, Step,
                callVars, requestVars
  <2>2. CASE CommitEvent(h)
    <3>1. /\ verdict[h] \in Verdicts /\ Apply(verdict[h], hand[h])
          /\ hpc[h] = IF Pauses(verdict[h]) THEN "paused" ELSE "decided"
          /\ IF Pauses(verdict[h]) THEN BotsLapse ELSE UNCHANGED <<trading, late>>
          /\ Writes(verdict[h], hand[h]) => ~RowLocked
          /\ hpc'[h] = "idle"
      BY <2>2 DEF CommitEvent, botVars, Respond, Die, Finish, Step
    <3>2. CASE Pauses(verdict[h])
      <4>1. row'.status \in Lapsed
        BY <3>1, <3>2 DEF Apply, Pauses, StatusFor, Rows, Lapsed
      <4>2. RowLocked /\ ~RowLocked'
        BY <2>1, <3>1, <3>2, HandlersLock
      <4>3. QED
        BY <3>1, <3>2, <4>1, <4>2, CommitIsLapse DEF OneLapse
    <3>3. CASE ~Pauses(verdict[h])
      <4>1. RowLocked' <=> RowLocked
        BY <2>1, <3>1, <3>3, HandlersLock
      <4>2. \/ row'.status = row.status
            \/ row'.status \in {"active", "past_due"} /\ ~RowLocked
        BY <3>1, <3>3 DEF Apply, Pauses, Writes, StatusFor, Verdicts, Rows
      <4>3. QED
        BY <3>1, <3>3, <4>1, <4>2, GrantOrStutter DEF Lapsed
    <3>4. QED
      BY <3>2, <3>3
  <2>3. CASE PauseForEvent(h)
    <3>1. row.status # "ABSENT"
      BY <2>3 DEF PauseForEvent, Pauses, EventSafety, HandlersKnow, RowExists
    <3>2. hpc'[h] = "paused" /\ ~RowLocked /\ UNCHANGED <<row, trading, late>>
      BY <2>3 DEF PauseForEvent, Step, botVars
    <3>3. QED
      BY <2>1, <3>1, <3>2, HandlersLock, LookAtExisting
  <2>4. CASE HandlerFails(h) \/ HandlerCrash(h)
    <3>1. hpc'[h] = "idle" /\ row' = row /\ trading' = trading /\ RollBack(hpc[h])
      BY <2>4 DEF HandlerFails, HandlerCrash, Respond, Die, Finish, Step
    <3>2. CASE hpc[h] = "paused"
      <4>1. RowLocked /\ ~RowLocked' /\ late' = FALSE
        BY <2>1, <3>1, <3>2, HandlersLock DEF RollBack
      <4>2. QED
        BY <3>1, <4>1, RollBackIsGiveUp
    <3>3. CASE hpc[h] # "paused"
      <4>1. (RowLocked' <=> RowLocked) /\ late' = late
        BY <2>1, <3>1, <3>3, HandlersLock DEF RollBack
      <4>2. QED
        BY <3>1, <4>1, GrantOrStutter
    <3>4. QED
      BY <3>2, <3>3
  <2>5. CASE CheckDuplicate(h) \/ Decide(h) \/ \E e \in Events : Deliver(h, e)
    <3>1. UNCHANGED <<row, trading, late>>
      BY <2>5 DEF CheckDuplicate, Decide, Deliver, botVars
    <3>2. hpc[h] # "paused" /\ hpc'[h] # "paused"
      BY <2>5 DEF CheckDuplicate, Proceed, Decide, Deliver, Respond, Finish, Step
    <3>3. QED
      BY <2>1, <3>1, <3>2, HandlersLock, GrantOrStutter
  <2>6. QED
    BY <1>2, <2>2, <2>3, <2>4, <2>5 DEF StripeWebhookHandler
<1>3. ASSUME BotStarts
      PROVE  [Ent!Next]_(Ent!vars)
  <2>1. UNCHANGED <<row, pc, hpc>> /\ trading' = TRUE /\ late' = (late \/ RowLocked)
    BY <1>3 DEF BotStarts, apiVars, requestVars, handlerVars
  <2>2. RowLocked' <=> RowLocked
    BY <2>1 DEF RowLocked
  <2>3. Trades' = Trades \cup {TheUser} /\ Stands' = Stands
    BY <2>1 DEF Trades, Stands, Standing
  <2>4. /\ Opens' = Opens
        /\ Lates' = IF TheUser \in Opens THEN Lates \cup {TheUser} ELSE Lates
    BY <2>1, <2>2 DEF Opens, Lates
  <2>5. Ent!Start(TheUser)
    BY <2>3, <2>4 DEF Ent!Start, Trades, Stands, Opens, Lates
  <2>6. QED
    BY <2>5 DEF Ent!Next, Ent!RunBots
<1>4. ASSUME \/ \E e \in Events, kind \in Kinds, s \in Requests : Emit(e, kind, s)
             \/ \E s \in Requests : StripeCancels(s)
             \/ GraceEnds \/ UNCHANGED vars
      PROVE  [Ent!Next]_(Ent!vars)
  <2>1. /\ UNCHANGED <<trading, late, pc, hpc>> /\ row'.status = row.status
    BY <1>4 DEF Emit, StripeCancels, GraceEnds, vars, apiVars, botVars, requestVars,
                handlerVars, Rows
  <2>2. RowLocked' <=> RowLocked
    BY <2>1 DEF RowLocked
  <2>3. QED
    BY <2>1, <2>2, GrantOrStutter
<1>5. QED
  BY <1>1, <1>2, <1>3, <1>4 DEF Next

\* Billing grants and lapses as Entitlement says, for any number of calls, events
\* and handlers: one lapse at a time, which stops every bot that was ACTIVE when it
\* looked as it becomes visible, and none when it fails.
THEOREM BillingImplementsEntitlement == Spec => ImplementsEntitlement
<1>1. Init => Ent!Init
  <2> SUFFICES ASSUME Init PROVE Ent!Init
    OBVIOUS
  <2>1. Stands = [u \in {TheUser} |-> "none"] /\ Trades \in SUBSET {TheUser}
    BY StandingOf DEF Init, Stands, Trades
  <2>2. Opens = {} /\ Lates = {}
    BY DEF Init, Opens, Lates, RowLocked
  <2>3. QED
    BY <2>1, <2>2 DEF Ent!Init, Stands, Trades, Opens, Lates
<1>2. IInv /\ [Next]_vars => [Ent!Next]_(Ent!vars)
  BY StepsImplement
<1>3. QED
  BY <1>1, <1>2, BillingInvariant, PTL DEF Spec, ImplementsEntitlement, Ent!Spec
=============================================================================
