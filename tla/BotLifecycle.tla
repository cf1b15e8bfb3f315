----------------------------- MODULE BotLifecycle -----------------------------
(***************************************************************************)
(* The status of a bot: createBot, activateBot, pauseBot and deleteBot     *)
(* against the workers that stand bots down and trade, and against the     *)
(* billing code that pauses the bots of a lapsed subscription.             *)
(*                                                                         *)
(* Every mutation reads the row, perhaps reads another table, and then     *)
(* writes the status with an UPDATE that matches on the id alone:          *)
(*                                                                         *)
(*   idle -> admitted -> read -> checked -> written -> done                *)
(*                                                                         *)
(* so each precondition is checked against an instant of its own, and none *)
(* of them need hold any more when the status is written.                  *)
(*                                                                         *)
(* A lapse is a transaction under READ COMMITTED: its UPDATE of bots pauses *)
(* the rows that are ACTIVE then and locks them, and everything it wrote   *)
(* appears at its COMMIT.  What becomes ACTIVE in between, it misses.      *)
(***************************************************************************)
EXTENDS Naturals, FiniteSets

CONSTANTS
    Bots,      \* ids of bots, present or still to be created
    Users,     \* ids of users
    Requests,  \* calls of the four mutations
    Owner      \* bots.user_id

ASSUME OwnerAssumption == Owner \in [Bots -> Users]

VARIABLES
    status,    \* bots.status; "ABSENT" while there is no such row
    flat,      \* bots without an OPEN row in positions
    subscribed, \* users with a row of user_subscriptions
    entitled,  \* users whose subscription is neither missing, suspended
               \* nor cancelled
    scans,     \* jobs the scan-bot queue has accepted
    lapsing,   \* users with a lapse between its UPDATEs and its COMMIT, which
               \* holds their row of user_subscriptions
    held,      \* bots that an open lapse has paused, and has locked
    pc, call, answer,
    row,       \* the status each request read, in its own memory
    seen,      \* history: the preconditions that held at some instant of a call
    stood,     \* history: bots a worker stood down, until a worker resets them
    late       \* history: bots that became ACTIVE while a lapse was open

billing == <<subscribed, entitled, lapsing, held>>
vars == <<status, flat, billing, scans, pc, call, answer, row, seen, stood, late>>

-----------------------------------------------------------------------------
Ops == {"create", "activate", "pause", "delete"}

Statuses == {"ABSENT", "ACTIVE", "PAUSED", "ARCHIVED", "STOOD_DOWN"}

Calls == [op : Ops, bot : Bots, user : Users]

\* A scan job's payload; "request" stands for the job id.
Scans == [bot : Bots, user : Users, request : Requests]

InFlight == {"admitted", "read", "checked", "written"}
Ended    == {"done", "dead"}
Answers  == {"none", "ok", "not_found", "forbidden", "stood_down",
             "open_position", "error"}

\* WHERE id = args.id AND status != 'ARCHIVED'.
Listed(s) == s \notin {"ABSENT", "ARCHIVED"}

\* The status the operation's first query must find for it to go on.
RowAllows(op, s) ==
    CASE op = "create"   -> TRUE
      [] op = "activate" -> Listed(s) /\ s # "STOOD_DOWN"
      [] OTHER           -> Listed(s)

Preconditions(op) ==
    CASE op = "create"   -> {}
      [] op = "activate" -> {"row", "entitled"}
      [] op = "pause"    -> {"row"}
      [] op = "delete"   -> {"row", "flat"}

\* Fault: deleting writes a status the enum does not have.
FaultDeletedStatus(op) ==
    CASE op = "pause"  -> "PAUSED"
      [] op = "delete" -> "DELETED"
      [] OTHER         -> "ACTIVE"

Target(op) ==
    CASE op = "pause"  -> "PAUSED"
      [] op = "delete" -> "ARCHIVED"
      [] OTHER         -> "ACTIVE"

\* The bots of earlier calls, in any state they may have been left in.  createBot
\* names a bot of its caller's: the row it is about to insert.
Init ==
    /\ status \in [Bots -> Statuses]
    /\ flat = Bots
    /\ subscribed = {} /\ entitled = {}
    /\ lapsing = {} /\ held = {}
    /\ scans = {}
    /\ pc = [r \in Requests |-> "idle"]
    /\ call \in {c \in [Requests -> Calls] :
                    \A r \in Requests : c[r].op = "create" =>
                        /\ c[r].user = Owner[c[r].bot]
                        /\ status[c[r].bot] = "ABSENT"}
    /\ answer = [r \in Requests |-> "none"]
    /\ row = [r \in Requests |-> "ABSENT"]
    /\ seen = [r \in Requests |-> {}]
    /\ stood = {b \in Bots : status[b] = "STOOD_DOWN"}
    /\ late = {}

tables == <<status, flat, billing, scans, stood>>

Goto(r, label) ==
    /\ pc' = [pc EXCEPT ![r] = label]
    /\ UNCHANGED answer

Reply(r, value) ==
    /\ pc' = [pc EXCEPT ![r] = "done"]
    /\ answer' = [answer EXCEPT ![r] = value]

SetStatus(b, s) == status' = [status EXCEPT ![b] = s]

-----------------------------------------------------------------------------
(***************************************************************************)
(* Steps of a request.                                                     *)
(***************************************************************************)

\* The call arrives; withOpRateLimit, which deleteBot does not call, lets it
\* through or throws.
Receive(r) ==
    /\ pc[r] = "idle"
    /\ \/ Goto(r, "admitted")
       \/ call[r].op # "delete" /\ Reply(r, "error")
    /\ UNCHANGED <<tables, call, row>>

Owns(r) == call[r].user = Owner[call[r].bot]

\* The first query and, with no await between, assertOwnership.
ReadBot(r) ==
    /\ pc[r] = "admitted"
    /\ call[r].op # "create"
    /\ LET s == status[call[r].bot] IN
       \/ ~Listed(s) /\ Reply(r, "not_found") /\ UNCHANGED row
       \/ Listed(s) /\ ~Owns(r) /\ Reply(r, "forbidden") /\ UNCHANGED row
       \/ /\ Listed(s) /\ Owns(r)
          /\ Goto(r, IF call[r].op = "pause" THEN "checked" ELSE "read")
          /\ row' = [row EXCEPT ![r] = s]
    /\ UNCHANGED <<tables, call>>

\* Fault: the subscription guard is missing.
FaultFreeActivation(r) ==
    /\ pc[r] = "read"
    /\ call[r].op = "activate"
    /\ \/ row[r] = "STOOD_DOWN" /\ Reply(r, "stood_down")
       \/ row[r] # "STOOD_DOWN" /\ Goto(r, "checked")
    /\ UNCHANGED <<tables, call, row>>

\* activateBot: the subscription is read now, and the stand-down guard then
\* looks at the row read before.  The settings guard after them lets every bot
\* of this model through: createBot inserts the settings with the bot.
CheckActivation(r) ==
    /\ pc[r] = "read"
    /\ call[r].op = "activate"
    /\ \/ call[r].user \notin entitled /\ Reply(r, "forbidden")
       \/ /\ call[r].user \in entitled
          /\ row[r] = "STOOD_DOWN"
          /\ Reply(r, "stood_down")
       \/ /\ call[r].user \in entitled
          /\ row[r] # "STOOD_DOWN"
          /\ Goto(r, "checked")
    /\ UNCHANGED <<tables, call, row>>

\* deleteBot: the bot must have no open position.
CheckDeletion(r) ==
    /\ pc[r] = "read"
    /\ call[r].op = "delete"
    /\ \/ call[r].bot \notin flat /\ Reply(r, "open_position")
       \/ call[r].bot \in flat /\ Goto(r, "checked")
    /\ UNCHANGED <<tables, call, row>>

\* The UPDATE, on the id alone: it waits for the row, and no status is compared
\* again.  pauseBot and deleteBot are then finished; the acknowledgement may also
\* be lost.
WriteStatus(r) ==
    /\ pc[r] = "checked"
    /\ call[r].bot \notin held
    /\ SetStatus(call[r].bot, Target(call[r].op))
    /\ \/ call[r].op = "activate" /\ Goto(r, "written")
       \/ call[r].op # "activate" /\ Reply(r, "ok")
       \/ Reply(r, "error")
    /\ UNCHANGED <<flat, billing, scans, stood, call, row>>

\* createBot, when its input is valid: one transaction inserts the bot as DRAFT,
\* its settings and its brain, and promotes it, so that only ACTIVE commits.
CreateBot(r) ==
    /\ pc[r] = "admitted"
    /\ call[r].op = "create"
    /\ \/ /\ status[call[r].bot] = "ABSENT"
          /\ SetStatus(call[r].bot, "ACTIVE")
          /\ Goto(r, "written") \/ Reply(r, "error")
       \/ UNCHANGED status /\ Reply(r, "error")
    /\ UNCHANGED <<flat, billing, scans, stood, call, row>>

ScanFor(r) == [bot |-> call[r].bot, user |-> call[r].user, request |-> r]

\* Fault: add() is not awaited, so its failure is nobody's.
FaultUnawaitedScan(r) ==
    /\ pc[r] = "written"
    /\ scans' \in {scans, scans \cup {ScanFor(r)}}
    /\ Reply(r, "ok")
    /\ UNCHANGED <<status, flat, billing, stood, call, row>>

\* Fault: the scan is awaited only while the bot is still ACTIVE.
FaultScanWaitsForActive(r) ==
    /\ pc[r] = "written"
    /\ status[call[r].bot] = "ACTIVE"
    /\ scans' = scans \cup {ScanFor(r)}
    /\ Reply(r, "ok")
    /\ UNCHANGED <<status, flat, billing, stood, call, row>>

\* The awaited getScanBotQueue().add: accepted; refused; or accepted with the
\* acknowledgement lost.  A failure leaves the bot ACTIVE and the call failed.
DispatchScan(r) ==
    /\ pc[r] = "written"
    /\ \/ scans' = scans \cup {ScanFor(r)} /\ Reply(r, "ok")
       \/ scans' = scans /\ Reply(r, "error")
       \/ scans' = scans \cup {ScanFor(r)} /\ Reply(r, "error")
    /\ UNCHANGED <<status, flat, billing, stood, call, row>>

\* A query fails before the status is written.
DbFails(r) ==
    /\ pc[r] \in {"admitted", "read", "checked"}
    /\ Reply(r, "error")
    /\ UNCHANGED <<tables, call, row>>

Crash(r) ==
    /\ pc[r] \in InFlight
    /\ Goto(r, "dead")
    /\ UNCHANGED <<tables, call, row>>

-----------------------------------------------------------------------------
(***************************************************************************)
(* The mutations, the workers outside this repository, and billing.        *)
(***************************************************************************)
requests == <<pc, call, answer, row>>

ActivateBot(r) ==
    /\ call[r].op = "activate"
    /\ \/ Receive(r) \/ ReadBot(r) \/ CheckActivation(r)
       \/ WriteStatus(r) \/ DispatchScan(r)

PauseBot(r) ==
    /\ call[r].op = "pause"
    /\ Receive(r) \/ ReadBot(r) \/ WriteStatus(r)

DeleteBot(r) ==
    /\ call[r].op = "delete"
    /\ Receive(r) \/ ReadBot(r) \/ CheckDeletion(r) \/ WriteStatus(r)

Create(r) ==
    /\ call[r].op = "create"
    /\ Receive(r) \/ CreateBot(r) \/ DispatchScan(r)

Mutation(r) == ActivateBot(r) \/ PauseBot(r) \/ DeleteBot(r) \/ Create(r)

\* The rule engine stands an ACTIVE bot down, and resets it on the next trading
\* day unless somebody has moved it on.  Both wait for a row that is locked.
StandDown(b) ==
    /\ status[b] = "ACTIVE" /\ b \notin held
    /\ SetStatus(b, "STOOD_DOWN")
    /\ stood' = stood \cup {b}
    /\ UNCHANGED <<flat, billing, scans, requests>>

NextTradingDay(b) ==
    /\ b \in stood /\ b \notin held
    /\ SetStatus(b, IF status[b] = "STOOD_DOWN" THEN "ACTIVE" ELSE status[b])
    /\ stood' = stood \ {b}
    /\ UNCHANGED <<flat, billing, scans, requests>>

\* An order of a live bot fills, and its position is closed later.
OpenPosition(b) ==
    /\ Listed(status[b])
    /\ flat' = flat \ {b}
    /\ UNCHANGED <<status, billing, scans, stood, requests>>

ClosePosition(b) ==
    /\ flat' = flat \cup {b}
    /\ UNCHANGED <<status, billing, scans, stood, requests>>

\* Fault: a new subscription resumes the bots that the lapse paused.
FaultSubscribeResumes(u) ==
    /\ u \notin lapsing
    /\ subscribed' = subscribed \cup {u}
    /\ entitled' = entitled \cup {u}
    /\ status' = [b \in Bots |->
                    IF Owner[b] = u /\ status[b] = "PAUSED" THEN "ACTIVE" ELSE status[b]]
    /\ UNCHANGED <<flat, lapsing, held, scans, stood, requests>>

\* selectTier or an invoice event makes the status trialing, active or past_due;
\* it waits for the row of user_subscriptions.
Subscribe(u) ==
    /\ u \notin lapsing
    /\ subscribed' = subscribed \cup {u}
    /\ entitled' = entitled \cup {u}
    /\ UNCHANGED <<status, flat, lapsing, held, scans, stood, requests>>

BotsOf(u) == {b \in Bots : Owner[b] = u}

\* cancelSubscription, a deletion at Stripe or a second failed invoice makes the
\* status cancelled or suspended and pauses the bots that it finds ACTIVE, in a
\* transaction: also when the subscription has lapsed already.  The first UPDATE
\* locks the user's row, the second the bots; nothing is visible yet.
PauseBots(u) ==
    /\ u \in subscribed \ lapsing
    /\ lapsing' = lapsing \cup {u}
    /\ held' = held \cup {b \in BotsOf(u) : status[b] = "ACTIVE"}
    /\ UNCHANGED <<status, flat, subscribed, entitled, scans, stood, requests>>

\* The transaction is over, and its locks with it.
EndLapse(u) ==
    /\ u \in lapsing
    /\ lapsing' = lapsing \ {u}
    /\ held' = held \ BotsOf(u)
    /\ UNCHANGED <<flat, subscribed, scans, stood, requests>>

\* Fault: a lapse pauses every bot of the user, not only the ACTIVE ones.
FaultLapsePausesAll(u) ==
    /\ EndLapse(u)
    /\ entitled' = entitled \ {u}
    /\ status' = [b \in Bots |-> IF b \in BotsOf(u) THEN "PAUSED" ELSE status[b]]

\* Fault: a lapse leaves the bots to somebody else.
FaultLapseAlone(u) ==
    /\ EndLapse(u)
    /\ entitled' = entitled \ {u}
    /\ UNCHANGED status

\* The COMMIT, whose acknowledgement may be lost.
Lapse(u) ==
    /\ EndLapse(u)
    /\ entitled' = entitled \ {u}
    /\ status' = [b \in Bots |-> IF b \in held \cap BotsOf(u) THEN "PAUSED" ELSE status[b]]

\* A statement or the COMMIT fails, or the process dies: the rollback.
LapseFails(u) ==
    /\ EndLapse(u)
    /\ UNCHANGED <<status, entitled>>

-----------------------------------------------------------------------------
HoldsNow(r) ==
    {g \in {"row", "entitled", "flat"} :
        \/ g = "row" /\ RowAllows(call[r].op, status[call[r].bot])
        \/ g = "entitled" /\ call[r].user \in entitled
        \/ g = "flat" /\ call[r].bot \in flat}

\* The history variable: what holds in each state of a call, from its receipt
\* to its end.
Observe ==
    seen' = [r \in Requests |->
                IF pc'[r] = "idle" \/ pc[r] \in Ended THEN seen[r]
                ELSE seen[r] \cup (HoldsNow(r)' \cap Preconditions(call[r].op))]

\* And the bots that become ACTIVE under an open lapse, while they are and it is.
ObserveLapses ==
    late' = {b \in Bots : /\ status'[b] = "ACTIVE"
                          /\ Owner[b] \in lapsing \cap lapsing'
                          /\ b \in late \/ status[b] # "ACTIVE"}

Step ==
    \/ \E r \in Requests : Mutation(r) \/ DbFails(r) \/ Crash(r)
    \/ \E b \in Bots : \/ StandDown(b) \/ NextTradingDay(b)
                       \/ OpenPosition(b) \/ ClosePosition(b)
    \/ \E u \in Users : Subscribe(u) \/ PauseBots(u) \/ Lapse(u) \/ LapseFails(u)

Next == Step /\ Observe /\ ObserveLapses

Spec == Init /\ [][Next]_vars

\* Queries and queue calls settle, and Node then runs the continuation; so a lapse
\* ends, and Postgres gives a row to those who wait for it in turn.
Fairness ==
    /\ \A r \in Requests :
          /\ WF_vars(pc[r] # "idle" /\ Mutation(r) /\ Observe /\ ObserveLapses)
          /\ SF_vars(WriteStatus(r) /\ Observe /\ ObserveLapses)
    /\ \A u \in Users :
          WF_vars((Lapse(u) \/ LapseFails(u)) /\ Observe /\ ObserveLapses)

FairSpec == Spec /\ Fairness

-----------------------------------------------------------------------------
(***************************************************************************)
(* Properties.                                                             *)
(***************************************************************************)
TypeOK ==
    /\ status \in [Bots -> Statuses]
    /\ flat \subseteq Bots
    /\ subscribed \subseteq Users /\ entitled \subseteq subscribed
    /\ lapsing \subseteq subscribed /\ held \subseteq Bots
    /\ scans \subseteq Scans
    /\ pc \in [Requests -> {"idle"} \cup InFlight \cup Ended]
    /\ call \in [Requests -> Calls]
    /\ answer \in [Requests -> Answers]
    /\ row \in [Requests -> Statuses]
    /\ seen \in [Requests -> SUBSET {"row", "entitled", "flat"}]
    /\ stood \subseteq Bots /\ late \subseteq Bots

\* A scan is queued only for the owner, by a call that had the right to make the
\* bot ACTIVE.
ScansJustified ==
    \A s \in scans :
        LET r == s.request IN
        /\ s.user = Owner[s.bot]
        /\ call[r].op \in {"create", "activate"}
        /\ Preconditions(call[r].op) \subseteq seen[r]

\* Each check of a mutation counts: a call that reaches its write, or reports
\* success, is its bot's owner's, and each of its preconditions (a status that
\* allows it, a subscription for activateBot, no open position for deleteBot)
\* held at some instant between its receipt and now; and so it was with the call
\* behind every queued scan.  This is exactly what the checks still guarantee when
\* other calls and workers come in between.
ChecksHeldDuringCall ==
    /\ \A r \in Requests :
          pc[r] \in {"checked", "written"} \/ answer[r] = "ok" =>
              Owns(r) /\ Preconditions(call[r].op) \subseteq seen[r]
    /\ ScansJustified

\* Success is never reported without its effect in the queue, and a refusal
\* never after one.
AnswersTruthful ==
    \A r \in Requests :
        /\ answer[r] = "ok" /\ call[r].op \in {"create", "activate"} =>
              ScanFor(r) \in scans
        /\ answer[r] \notin {"ok", "none", "error"} => ScanFor(r) \notin scans

\* A deleted bot does not trade: it leaves ARCHIVED only in the hands of a call
\* that read it before it was deleted, never by a worker or by billing.
RevivedOnlyByStaleCall ==
    [][\A b \in Bots :
          status[b] = "ARCHIVED" /\ status'[b] # "ARCHIVED" =>
              \E r \in Requests :
                  /\ pc[r] = "checked" /\ call[r].bot = b
                  /\ Listed(row[r])]_vars

Unpaid == {b \in Bots : status[b] = "ACTIVE" /\ Owner[b] \notin entitled}

\* A lapse stops the user's bots, and what brings one to life without a
\* subscription is one of four late writes: createBot's, which asks for none; that
\* of an activation that found one before it lapsed; the end of a stand-down, since
\* a lapse pauses only the bots that are ACTIVE; or one of these between the UPDATEs
\* of the lapse and its COMMIT, which leaves the bot ACTIVE as the lapse becomes
\* visible.  A bot that was ACTIVE when the lapse looked never goes on.
UnpaidOnlyByLateWrite ==
    [][\A b \in Unpaid' \ Unpaid :
          \/ b \in stood
          \/ b \in late
          \/ \E r \in Requests :
                /\ call[r].bot = b
                /\ \/ call[r].op = "create" /\ pc[r] = "admitted"
                   \/ call[r].op = "activate" /\ pc[r] = "checked" /\ "entitled" \in seen[r]]_vars

\* Every call that was received ends.
CallsEnd == \A r \in Requests : pc[r] # "idle" ~> pc[r] \in Ended

\* "Bot is stood down and will reactivate next trading day": until a worker
\* resets it, a bot that was stood down does not become ACTIVE.
StandDownLasts == \A b \in stood : status[b] # "ACTIVE"

-----------------------------------------------------------------------------
(***************************************************************************)
(* What billing sees of the bots.                                          *)
(***************************************************************************)
Standing(u) ==
    CASE u \in entitled               -> "entitled"
      [] u \in subscribed \ entitled  -> "lapsed"
      [] OTHER                        -> "none"

Trading == {Owner[b] : b \in {c \in Bots : status[c] = "ACTIVE"}}

Ent == INSTANCE Entitlement WITH
          standing <- [u \in Users |-> Standing(u)], trading <- Trading,
          open <- lapsing, late <- {Owner[b] : b \in late}

\* The mutations and the workers keep their part of what they share with billing:
\* one step starts or stops the bots of one user and leaves every subscription
\* alone; and what this module lets billing do is what Billing does: after a lapse,
\* the user only has bots that became ACTIVE while it was under way.
ImplementsEntitlement == Ent!Spec
=============================================================================
