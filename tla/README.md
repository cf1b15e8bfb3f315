# tachyon-api in TLA+

Specifications of the server-side logic of tachyon-api: a stateless Node
process (several of them in production) that answers GraphQL mutations and two
webhooks over one Postgres database, Valkey, two BullMQ queues, Stripe and
Clerk. Every resolver is a chain of awaits, and nothing but the database's own
transactions and keys holds two chains apart; that is what these modules are
about. They model each await as a step and ask what is left of the checks,
promises and invariants of the code when other calls, other processes, crashes
and lost answers come in between.

All paths below are relative to the repository's root; `.../domains` stands for
`src/graphql/domains`.

## 1. Inventory

| component | state it keeps | operations | module |
|---|---|---|---|
| proposal decisions (`.../proposals/proposal.mutations.ts`) | `trade_proposals.status`, `proposal_actions`, reconciliation queue | approveProposal, skipProposal | `Proposals` |
| bot lifecycle (`.../bots/bot.mutations.ts`) | `bots.status`, scan-bot queue | createBot, activateBot, pauseBot, deleteBot | `BotLifecycle` |
| bot configuration (same file) | `bots`, `bot_settings`, `bot_brain_configs` | createBot, updateAgentIdentity, updateAgentRiskSettings, updateBotBrain | `BotConfiguration` |
| billing (`.../subscriptions/subscription.mutations.ts`, `src/webhooks/stripe.ts`) | `user_subscriptions`, `processed_stripe_events`, bots' status; Stripe's customers and subscriptions | selectTier, cancelSubscription, stripeWebhookHandler | `Billing` |
| user provisioning (`src/middleware/auth.ts`, `src/webhooks/clerk.ts`) | `users`, `user_cash_accounts` | clerkJwtMiddleware, clerkWebhookHandler | `Provisioning` |
| rate limiting (`src/middleware/operationRateLimit.ts`, `rateLimit.ts`, `correlationId.ts`) | one Valkey sorted set per caller and operation | SLIDING_WINDOW_LUA and its two callers | `SlidingWindow` |
| read queries and data loaders (`src/dataloaders`, `src/context.ts`, the types and queries under `.../domains`) | the loaders' answers, for one request | the fields of Bot, Proposal, Position and User; bots, bot, proposals, positions, me, botPerformance | `BotReads` |
| onboarding (`.../user/user.mutations.ts`) | `user_settings` | completeOnboarding | `BotReads` |
| broker stub | none | connectBroker | not modelled (it always answers the same) |
| brain key validation (`validateBrainKey`) | none | one outgoing request | not modelled |
| queues (`src/queues`) | lazy singletons | `add` | as seen by their callers |
| server, health, Sentry, Bull board | none | wiring, I/O | not modelled |
| db, valkey, stripe, crypto, jwks, logger, schema, enums | client singletons, constants | I/O | not modelled |
| workers (tachyon-workers, another repository) | write proposals, positions, bots | scan, expire, stand down, trade | external actions |

How they interact:

- Everything meets in Postgres. A mutation reads a row, perhaps reads another
  table, and writes with an UPDATE that matches on the id alone; transactions
  run under READ COMMITTED, where a statement sees what had been committed when
  it began, and an UPDATE waits for a row that another transaction has written.
- `activateBot` reads the subscription that billing writes; `cancelSubscription`
  and the Stripe webhook pause the bots that the lifecycle mutations write.
- `approveProposal`, `createBot` and `activateBot` hand a job to BullMQ after
  their commit; workers act on it and write proposals, positions and bots.
- Stripe and Clerk (through Svix) call back at least once, in any order.
- A response is put together by resolvers that read while others write, some of
  them through the loaders of its request.
- The JWT middleware runs in front of every request and may create the user;
  the rate limiter is the first await of all mutations but `deleteBot`.

What is hard, and what makes each component correct:

- **Proposals.** Two calls pass the PENDING filter together; the sweep closes a
  proposal between SELECT and UPDATE; the process dies, or the queue fails,
  after the commit. Audit trail and status must agree, every order must go back
  to an approval by the owner, late calls must lose, and an answer must come from
  the outcome it stands for, whatever member of the result union it is called.
- **Bot lifecycle.** Status, subscription, settings and positions are checked
  at different instants and none of them need hold at the write. Each check
  must still have held at *some* instant of the call; only a stale call may
  revive an archived bot. A lapse of the subscription stops the bots that it
  finds ACTIVE, and the ways in which one then runs unpaid are four and no more:
  `createBot`, an activation under way, the end of a stand-down, and any of these
  between the UPDATEs of the lapse and its COMMIT.
- **Bot configuration.** A creation is one transaction of four statements, an
  identity update one of two. No orphans, no mixing of two edits.
- **Billing.** Stripe calls sit inside a transaction; webhooks race the
  mutations and each other, with the duplicate check outside the transaction.
  Effects of an event once; no suspension after a single failure; row and
  Stripe's data coherent; no bot that a lapse has found goes on trading.
- **Provisioning.** Two paths insert the same two rows, statement by statement.
  One identity per person, and in the end both rows.
- **Rate limiting.** The script is atomic, its time is not: every server stamps
  with its own clock, the member is a client-supplied id, and a call may run it
  more than once. Never over the limit, never rejected without cause.
- **Reads.** A response is read by many queries at many instants. What it shows
  must have been true while the request ran, one row must not appear in two
  versions through one loader, and a client must see its own writes. Loaders
  trade the second against the third: a mutation document that reads a row before
  it writes it shows the old version again.

The hazards are listed one by one, at their lines, in `PROJECT.json`.

## 2. How the modules correspond to the code

A request (or a delivery) is a process with a program counter, one label per
point between two awaits, and one action per await: the query, Stripe call or
queue call with the synchronous code that follows it, up to the next await. A
committed transaction is one action where its statements cannot be told apart
from outside; what it *read* before, or which rows its UPDATE has found, is an
action of its own where another transaction may interfere. `Crash`, `DbFails` and their like end a call at any
label. A statement may take effect and its acknowledgement be lost: then the
caller sees an error.

- **Proposals** — `Receive` (rate limit), `Lookup` (SELECT on id and PENDING,
  then `assertOwnership`), `Commit` (UPDATE on the id alone and INSERT into
  `proposal_actions`), `Dispatch` (`queue.add`). `Propose` and `Close` are the
  workers. `trail` is `proposal_actions` in commit order, with a history field
  naming the request. `resolveType` is that of the two result unions: what the
  resolver returns goes through it before it is an answer, so `AuthError` is the
  answer of a committed decision, and `Proposal` none that a call ever gets.
- **ProposalLedger** — what the two mutations promise taken together, without
  requests' steps: a request that saw a proposal open holds a *ticket*, uses it
  for at most one decision, and an approval may become one order. `Proposals`
  ends with the refinement mapping and `ImplementsLedger`.
- **BotLifecycle** — `ReadBot`, `CheckActivation`, `CheckDeletion`,
  `WriteStatus`, `CreateBot`, `DispatchScan` for the mutations; `StandDown`,
  `NextTradingDay`, `OpenPosition`, `ClosePosition` for the workers;
  `Subscribe`, `PauseBots`, `Lapse`, `LapseFails` for billing. A lapse is a
  transaction: `PauseBots` is its two UPDATEs, which lock the user's row
  (`lapsing`) and the bots that are ACTIVE at that moment (`held`); `Lapse` is the
  COMMIT, `LapseFails` the rollback. In between, writers of those rows wait, and
  other bots go on as before; `late` is a history variable, the bots that became
  ACTIVE meanwhile. `seen` is another: the preconditions that held at some instant
  of each call. `flat`, `subscribed` and `entitled` hold the positions and the
  subscriptions as far as the checks look at them; a subscription that has lapsed
  can lapse again, as when Stripe reports a deletion after `cancelSubscription`,
  and pauses the bots once more. A bot may be there from the beginning, in any
  status.
  The settings guard of `activateBot` is left out because no bot of the model
  lacks settings (`NoOrphans` in BotConfiguration says why).
- **Billing** — the two mutations with Stripe's calls as steps, and handlers of
  the webhook (`CheckDuplicate`, `Decide`, `CommitEvent`, `HandlerFails`). A
  customer or a subscription at Stripe is named by the call that created it.
  `Decide` is the SELECT inside the transaction, `CommitEvent` the UPDATE, the
  INSERT of the event's id under its primary key and the COMMIT. A cancellation or
  suspension has a step before its COMMIT (`PauseBots`, `PauseForEvent`): its
  UPDATEs lock the subscription's row (`RowLocked`, for which all other writes of
  it wait) and find the ACTIVE bots, and what `BotStarts` makes ACTIVE after that
  is `late` and goes on (`BotsLapse`). Time is one bit of the row: whether
  `current_period_end` plus seven days has passed.
- **Entitlement** — what the two sides that write `bots.status` may rely on of each
  other, for each user: billing grants and lapses; a lapse looks for ACTIVE bots,
  and when it becomes visible those it found are stopped with it, while bots
  that started in between go on; everything else starts and stops bots and leaves
  the subscription alone. `Billing` has the starting of bots as a step of somebody
  else (`BotStarts`), `BotLifecycle` has granting and lapsing so (`Subscribe`,
  `PauseBots`, `Lapse`), and each ends with the mapping under which it implements
  `Entitlement`. That is what composes them: each module's picture of the other
  one is the part of `Entitlement` that the other one implements. `Standing`
  groups the statuses as the guard of `activateBot` does.
- **Provisioning** — `LookUp` (fast path), `InsertUser`, `Reselect`,
  `InsertCash`, shared by both paths, and `Deliver`, the webhook's entry. Row
  ids are told apart by the process that inserted them.
- **UserRegistry** — what the two paths promise together, with no word of
  statements, conflicts and repeated deliveries: a person is registered at one
  instant, under one id for good, and every session is opened under it; who
  confirms a sign-up leaves an account behind, and so does a client that came
  before the registration. `Provisioning` ends with the mapping and
  `ImplementsRegistry`.
- **SlidingWindow** — `Stamp` (`Date.now()` on one of several servers), `Script`
  (one execution of the script, atomic in Valkey) and `Evaluate` (an execution
  and the caller's comparison of what it returns). `ReplyLost` is an execution
  whose reply never arrives: the client in `src/lib/valkey.ts` keeps ioredis'
  defaults, which send a pending command again after a reconnection, so that it
  may run several times before it is answered or given up (`EvalFails`). `zset`
  and `expireAt` are the key; one key is enough, since keys share nothing.
  `recorded` is history: the requests that the script had room for.
- **BotConfiguration** — `CheckDraft`, `CommitCreate`, and the three updates
  with their reads. A column's value stands for the call that wrote it; model
  variants stand for their provider.
- **BotReads** — a request brings a document: a query whose root fields run
  together, or a mutation whose root fields run one by one. `Begin` is
  `buildContext` with its fresh loaders, `Query` and `Mutate` are root fields,
  and each leaves *tasks*, the resolvers that wait. `Batch` is one batch function
  of `createDataLoaders` (its SELECT and the distribution of the rows, null
  where there is none), `Deliver` a later load of a key that is kept, `LoadFails`
  a batch that fails, `OwnQuery` a resolver with a SELECT of its own (`brain`,
  the subscription, `onboardingCompleted`, the two SELECTs of `botPerformance`).
  A row's value is the number of its writes. `since`, `wrote`, `acked` and
  `floor` are history: the databases that a request ran over, its own writes, and
  those that clients had been told of when it began. The loaders of users,
  frames and open positions work like that of the settings and are not listed
  again. DataLoader itself and the order in which GraphQL executes a document are
  modelled from how the code uses them.

Definitions named `Fault...` are not part of any specification. Each is a
plausible bug in the definition that follows it (a forgotten guard, a torn
transaction, a call that is not awaited); putting it in that definition's place
makes TLC find a property violated, which shows that the property can fail.

## 3. What is model-checked

`tlc -config <cfg> <module>`; distinct states in parentheses.

| run | shows |
|---|---|
| `Proposals.cfg` (144k) | three overlapping calls on one proposal, by owner and stranger, with the sweep, crashes, lost acknowledgements: all safety properties, `CallsEnd`, and the refinement of the ledger |
| `BotLifecycle.cfg` (287k) | two overlapping mutations of any kind, of the owner or of another user, on one bot in any status, with every worker and billing action; the bots' side of `Entitlement` |
| `Billing.cfg` (783k, symmetry, view) | two calls, two events, two handlers, bots that start at any moment: duplicates, reordering, crashes anywhere; what revives a lapsed row, what an answer of 200 means; billing's side of `Entitlement` |
| `Provisioning.cfg` (191k) | three first requests and two deliveries for one person, two failures: identity, `EventuallyProvisioned`, and the refinement of the registry, which says who must have an account when |
| `SlidingWindow.cfg` (3.2M, symmetry) | four requests against a limit of two over two windows, clocks one unit apart, any reply lost |
| `BotConfiguration.cfg` (452k) | one creation and two overlapping updates, every combination of inputs |
| `BotReads.cfg` (454k) | seven pairs of documents over each other's writes and two writes of others: two paths to one row, two brains, a row read before and after it is written, onboarding, performances |

`VIEW Shown` (in `MCBilling`) makes TLC take two states of `Billing` for one when
they differ in `acked` and `captured` in a way that cannot matter. These two
record what was answered and reported, and no action reads them; `AckedAccounted`
asks whether each answered event was processed or reported, and the view keeps
that, with the reports it may still need. What is processed or reported remains
so, which makes the view exact.

Five runs are expected to end in a violation. Each checks one sentence of the
repository that the code does not keep:

| run | sentence | what TLC shows |
|---|---|---|
| `ProposalsActionedOnce.cfg` | "Proposal not found or already actioned" | both of two overlapping calls decide |
| `BotLifecycleStandDown.cfg` | "Bot is stood down and will reactivate next trading day" | an activation that read the bot before brings it back at once |
| `BillingTrial.cfg` | "no-op for FREE_TRIAL (no stripe_subscription_id)" | the trial row keeps a live Stripe subscription |
| `SlidingWindowRetry.cfg` | correlation id "unique per request" | a repeated id overwrites its entry and the limit never bites |
| `BotConfigurationRetry.cfg` | "return existing DRAFT bot if same name was created within 60s" | no DRAFT ever commits, so the repetition creates a second bot |

Four more sentences are not kept, and the properties that hold say so by what
they leave open:

| sentence | what the code does | where the modules show it |
|---|---|---|
| "union ApproveProposalResult = AuthError \| NotFoundError \| Proposal" (`schema.graphql:10`); a test asks for `... on Proposal` of an approval (`graphql.integration.test.ts:969`) | `resolveType` wants a `message` of a Proposal, which the updated row lacks, so every committed approval or skip is answered as an `AuthError`, whose non-null `message` it cannot give (`proposal.mutations.ts:18-20`, `27-29`) | `Proposals`: `AnswersMatchTraces` has `AuthError` as the answer that comes only with a decision, and `Proposal` as one that no call gets |
| "Atomic: mark cancelled + pause all ACTIVE bots" (`subscription.mutations.ts:238`) | under READ COMMITTED the second UPDATE pauses the bots that are ACTIVE when it runs; one that starts between it and the COMMIT goes on (so do `stripe.ts:145-155`, `176-186`) | `Billing`, `BotLifecycle`: `late`; the last way that `UnpaidOnlyByLateWrite` permits |
| "ZADD rl:\<key> \<now> \<corrId> # record this request", one of four commands pipelined (`README.md:127-132`) | the script returns before its ZADD when the limit is reached (`operationRateLimit.ts:56`); the comment at `rateLimit.ts:65` agrees with the code | `SlidingWindow`: `Script`; `RejectionJustified` counts `recorded` requests, which a rejected one is not |
| "Cannot delete a bot with an open position" (`bot.mutations.ts:877`) | the look-up is a query of its own (line 868), and an order may fill before the UPDATE (line 882) | `BotLifecycle`: `OpenPosition` between `CheckDeletion` and `WriteStatus`; `ChecksHeldDuringCall` asks for some instant of the call |

### Bounds, and why they are enough

The hazards are races of two writers, observed by a third at most. Two calls
per table give every such race; Proposals has three, so that a late call can
follow two that overlap; Provisioning has three requests, so that one can be
fast, one slow and one between. One bot, proposal or person is enough because
rows share nothing but their owner's subscription, and the sets that
matter are those of calls on the same row. A bot starts in any status, so that
both calls can meet one that is archived or stood down. The two calls are
interchangeable, so of two assignments that differ in who brings which call
`Bounds` (in `MCBotLifecycle`) takes one; and only the owner subscribes, since a
stranger's subscription is never read: the call is refused at its first query.
Billing needs two events for two failures and two handlers for a duplicate that
overlaps its twin. MaxFailures
(Provisioning) bounds failures at two: one per path. SlidingWindow's time runs
to two windows, so that every entry can expire and be replaced; more requests
than the limit, twice over; a clock that is right and one that is ahead by the
drift. BotReads has two requests, since a response is
disturbed by one writer at a time, and pairs of documents instead of all of them
(`MCTraffic`): each pair is a race that the loaders, the resolvers' own queries
or the order of root fields decide. MaxWrites gives the workers and webhooks two
writes besides the two requests' own; two bots are needed where one batch answers
several keys. Everything else (crashes, lapses, stand-downs,
deliveries, lost replies) is unbounded.

`CHECK_DEADLOCK FALSE` stands where a system with finitely many calls really
ends: Proposals, SlidingWindow, BotConfiguration, BotReads, and violation runs. The others have an action of a worker, Stripe or Svix that is always
possible.

### Fairness

Liveness is checked with weak fairness of the steps of a call that has been
received, and nothing else: Node runs a continuation once its promise settles,
and pg, BullMQ and Stripe's client are assumed to settle every call, if with an
error (BullMQ's own reconnections may make a call wait while Valkey is down; it
then ends when Valkey is back). No client has to call, no worker to act, no process
to die or to stay alive. In BotLifecycle a write may have to wait for a row that a
lapse has locked: the lapse ends, by its COMMIT or its rollback (weak fairness of
the two), and although another lapse may follow, Postgres hands a lock on to who
waits for it (strong fairness of `WriteStatus`).
Provisioning adds strong fairness of `Deliver` for a person whose event has not
been acknowledged: Svix repeats a delivery until it is told 200, however many
deliveries of others come first. BotReads has no liveness property: DataLoader settles every
load of a batch whatever the batch function returns, so nothing in this code could
keep a response waiting. Nor has Billing: the webhook answers 200 even when it fails, so nothing
guarantees an event's effect, and `AckedAccounted` says what is guaranteed
instead.

## 4. What is proved

TLAPS proofs, for every value of the constants, in seven modules. They assume
only what the modules' ASSUMEs say: a proposal has an owner among the users
(`OwnerAssumption`), requests and deliveries are different processes and `None`
is neither a row nor an id (`ProcessAssumption`, `NoneAssumption`,
`LetterAssumption`), `MaxFailures` and `MaxWrites` are numbers
(`MaxFailuresAssumption`, `MaxWritesAssumption`), `createBot` calls and updates
are different (`RequestAssumption`), every request carries some correlation id
(`MemberAssumption`), limit, window and drift are numbers and no clock is off by
more than the drift (`TimeAssumption`), the allowed providers are providers
(`ProviderAssumption`), `Null` is no value and the user no bot
(`NullAssumption`, `RowsAssumption`), and a request brings a document
(`TrafficAssumption`): any document, where the run has seven pairs.

| Module | Theorem | States |
|---|---|---|
| `ProposalsProofs` | `TypeInvariant` | `TypeOK` |
| | `InductiveInvariant` | `IInv`, below |
| | `AuditTrailAlwaysAgrees`, `JobsAlwaysAccounted`, `OneRowPerRequestAlways`, `AnswersAlwaysMatchTraces`, `LateRequestsAlwaysLose` | the safety properties of run `proposals` |
| | `MutationsImplementLedger` | `ImplementsLedger`: the detailed module implements `ProposalLedger` |
| | `LedgerAlwaysSound`, `MutationsAlwaysSound` | what the ledger guarantees, and that the mutations inherit it |
| `BillingProofs` | `BillingInvariant` | `IInv`, below |
| | `BillingTypes`, `EventEffectAlwaysOnce`, `SuspensionAlwaysJustified`, `RowAlwaysCoherent`, `CancelAlwaysStopsBilling`, `AckedAlwaysAccounted`, `RevivedAlwaysByNews` | the other properties of run `billing` |
| | `BillingImplementsEntitlement` | `ImplementsEntitlement` of run `billing` |
| `BotLifecycleProofs` | `LifecycleInvariant` | `IInv`, below |
| | `LifecycleTypes`, `ChecksHold` (with `ScansAlwaysJustified`), `AnswersAlwaysTruthful`, `OnlyStaleCallsRevive`, `UnpaidOnlyLate` | the properties of run `bots` but liveness |
| | `LapsesAlwaysKnown` | what an open lapse knows of the bots, below |
| | `BotsImplementEntitlement` | `ImplementsEntitlement` of run `bots` |
| `BotConfigurationProofs` | `ConfigurationInvariant` | `IInv`, below |
| | `ConfigurationTypes`, `NeverOrphans`, `IdentityNeverMixed`, `BrainStaysSettled` | every property of run `configuration` |
| `BotReadsProofs` | `ReadsInvariant` | `IInv`, below |
| | `ReadsTypes`, `ReadsAlwaysRecent`, `OneAnswerAlways`, `OwnWriteAlwaysShown` | every property of run `bot_reads` |
| `ProvisioningProofs` | `ProvisioningInvariant` | `IInv`, below |
| | `ProvisioningTypes`, `OneIdentityAlways` | the invariants of run `provisioning` |
| | `WebhookAlwaysCompletes`, `SlowPathAlwaysCompletes` | nobody is told 200, and nobody let in on the slow path, before the cash account exists |
| | `PathsImplementRegistry` | `ImplementsRegistry`: the two paths implement `UserRegistry` |
| | `RegistryAlwaysSound`, `PathsAlwaysSound` | what the registry guarantees, and that the paths inherit it |
| `SlidingWindowProofs` | `SlidingWindowInvariant` | `IInv`, below |
| | `SlidingWindowTypes`, `LimitAlwaysKept`, `RejectionAlwaysJustified` | every property of run `rate_limit`; `LimitAlwaysKept` for requests whose ids differ (`UniqueMembers`) |
| | `MembersAlwaysLimited` | what is left of the limit when they do not |

Each module has one lemma per action (or per group of actions that disturb the
same parts), named for it: `CommitPreserves`, `InsertUserPreserves`,
`CommitEventPreserves`, ... Steps that only move a counter share a lemma
(`QuietStep`, `MovePreserves`, `HandlerMovePreserves`). The invariants:

**Proposals.** `AuditTrailAgrees` is nearly inductive, but `OneRowPerRequest` is
broken by a commit of a request that already has a row, and nothing in it says
that such a request is out of the "found" window. `IInv` adds what the program
counter knows: every row is the row of the request it names, which owns the
proposal and has left the window (`RowsOfRequests`); a request past its commit
has its row, one that has not ended has no answer (`PcMeaning`); a job is its
request's and comes from a recorded approval (`JobsOfRequests`); and a late
request never gets past the look-up, since a decided proposal is never PENDING
again (`LateRequestsStop` with `AuditTrailAgrees`). What a commit appends is in
`CommitExtendsTrail`.

**The refinement.** The ledger's tickets are the requests in the "found" window,
its decisions the rows, its orders the jobs. `LookupIsConsider`,
`CommitIsDecide`, `DispatchIsOrder` and `WorkersOpenAndShut` map the steps; a
reply or a failure is a stutter or gives a ticket back. That a commit is one
*new* decision, of a request that never decided, is where `IInv` is used.

**Billing.** A handler decides on a row it selected and writes later, over what
the row has become. `SuspensionNeedsTwoFailures` is therefore not inductive: it
needs that a handler holding "suspend" found a failure that was processed
before (`HandlersKnow`), that a past_due row has one behind it (`EventsKnown`),
and that its own event is not that one, which only the primary key gives at the
COMMIT. `RowCoherent` needs that a verdict is only held for a row that had a
subscription, and that rows never lose one; and that a call between Stripe and
its COMMIT knows the customer it billed. `CancelStopsBilling` needs that the
subscription it read was made by a call that is over and cannot make it again
(`CallsKnow`, `RowKnows`). `RevivedOnlyByNews` needs what a handler's event says
(a verdict "activate" is of a paid invoice), and that its id was not recorded
before, which again only the primary key gives.

**Billing and bots.** In `Entitlement` only what exists can lapse. In the code
nothing at the write says so: the COMMIT of `cancelSubscription` and the UPDATEs
of the webhook go by an id that was read before. `RowExists` closes the gap: a
call that is to cancel has found the row, a verdict names a row with a
subscription, and no step takes the row away (`RowExistsStep`). At most one
lapse is open, since it holds the row's lock (`OneLapse`), which is what makes
`late` that lapse's and lets the COMMIT stop all the others. On the other side a
mutation or a worker writes one bot at most, so it starts or stops the bots of
one user (`OneBotWritten`). What the COMMIT pauses is what the UPDATE had found
some time before, and that these are still the ACTIVE bots but for the late ones
is `LapsesKnown`: locked bots do not move, and whatever becomes ACTIVE meanwhile
is late. `UnpaidOnlyLate` rests on it too.

**Provisioning.** The unique key (`OneRowEach`) is not enough: a process also
has to go on finding what it found. `Progress` says that a process past its
INSERT has a row to read and one past its SELECT holds it, and both last because
no users row is ever deleted; `SlowRequests` adds the account.

In the refinement the registration is the INSERT that meets no conflict, of
whichever path comes first; the others' INSERTs are stutters. A request comes
early when its look-up finds nothing, and opens its session with its last
statement, or with the look-up when that finds the row; a delivery confirms with
the INSERT of the account that it is answered 200 for. That the id of a session is
the person's is `OneRowEach` with `Progress`; that only newcomers owe an account
needs that whoever executes statements is slow (`SlowRequests`), and that a
delivery that gets so far has an email (`DeliveriesHaveEmail`).

**Bot lifecycle.** `ChecksHeldDuringCall` speaks of calls at their write; why a
call gets there is in what it read two awaits before. `RequestOK` says it label
by label: past the first query the call is the owner's and the row it read was
listed; the status that `activateBot` needs was seen if the row it holds allows
it (`AtRead`), which is what its later guard looks at; and a call that has not
ended has no answer and no scan of its own in the queue (`Pending`), which is
what makes a refusal mean that there is none.

**Bot configuration.** The properties relate three tables that four transactions
write. `NoOrphans` is inductive once it is known that only the call that creates
a bot touches its absence (`CreatedByCall`). `BrainSettled` needs that what
`updateBotBrain` read in one query still holds when it writes in another: no
transaction changes a brain's type or provider (`BrainReadHolds`), and no
creation hits a bot that exists (`UpdatesFindTheirBot`, `TunedExist`).

**Reads.** A loader's answer is shown long after it was read, so
`ReadsAreRecent` needs `CacheIsRecent`: what a loader keeps was true at an
instant of the request, for each resolver that shares the loader; with
`ShownIsKept` and `CacheIsSingle` it also gives `OneAnswer`. `OwnWriteShown`
compares versions across time, and rests on a second invariant, `WInv`: the rows
that mutations write never lose a write (`ReportsHold`, `FloorsHold` and
`WritesHold`, for the writes that clients were told of, those told before a
request began, and those of a request's own fields), root fields of a mutation
run in their order (`InOrder`), and what a loader keeps has the write of an
earlier field, unless it was shown before that field (`CacheKnowsWrites`,
`ShownKnowsWrites`).

**Rate limiting.** What the script limits is distinct members, and
`MembersAlwaysLimited` holds whatever ids the clients send: run
`rate_limit_retry` is its converse, and `LimitAlwaysKept` follows with
`UniqueMembers`, by an injection from requests to members. The count of one
window is not inductive, since entries are pruned by the clock of whichever
server asks. `EntriesLast` says what pruning cannot take away: while an admitted
request is within `Window - 2 * Drift` of the time, its member is in the set with
a score no older than its own; pruning is off by a drift and the stamp by
another. `KeyLasts` says that the key outlives them all, for which every
admission must renew its time to live. An admission into a window then finds the
members of that window in the set, which `Full` has counted (`WindowIsCounted`,
`AdmitPreserves`). An execution whose reply is lost is one of the same script, so
it disturbs none of this. The other way round, `EntriesRecorded` gives a rejection
as many recorded requests as it counted entries.

Only model-checked: liveness (`CallsEnd`, `EventuallyProvisioned`), which with
ENABLED is out of the prover's reach and will stay with TLC. Every other property of a passing run is stated by a theorem.

## 5. Not modelled, and why

- Tokens, signatures and encryption: assumed to work; a request of the model
  carries a valid token, a delivery a valid signature.
- Validation of input: `createBot`'s many checks pass or fail; a module of the
  limits would repeat the comparisons one by one. Two slips in
  them (the test of `dayAvoidance.length === 5`, the always-zero `retryAfter`)
  are hazards without a property.
- `createBot` accepts only `ALLOWED_BYOK_PROVIDERS` (Anthropic, OpenAI), so the
  Groq and Gemini branches of `updateBotBrain` are reached by no bot of the
  model.
- The connection pool that `selectTier` holds through four Stripe calls.
- `balance` and `account`, the columns that a root field's own SELECT returns,
  the catalogues of sectors and providers, `validateBrainKey`: one SELECT, one
  request to a provider or a constant, without anything to disturb them.
- The figures of `botPerformance`: they are sums and quotients of binary floats,
  of rows in no particular order, and a model in integers would prove of them what
  is not so. That the two SELECTs are read at different moments is in `BotReads`.
- Schema, wiring, health, logging.

## 6. Plan

Order of work, most important first; all of it is done.

1. `Proposals`, `ProposalLedger` and their proofs
2. `BotLifecycle`
3. `Billing`, `BillingProofs`
4. `Provisioning`, `ProvisioningProofs`
5. `SlidingWindow`
6. `BotConfiguration`
7. `BotReads`, `BotReadsProofs`
8. `BotLifecycleProofs`, `BotConfigurationProofs`
9. `SlidingWindowProofs`
10. `UserRegistry` and `Entitlement`, with the proofs that the detailed modules
    implement them

One module that runs `BotLifecycle` and `Billing` in one state space is not
written: their product is beyond TLC, and `Entitlement` composes them instead.
What could follow is a specification of a response as a whole, of which
`BotReads` would be the refinement.
