------------------------------ MODULE Proposals ------------------------------
(***************************************************************************)
(* The approveProposal and skipProposal mutations of the API.              *)
(*                                                                         *)
(* Several API processes serve the same trade_proposals table, and a       *)
(* resolver gives up the CPU at every await, so each request is a process  *)
(* of its own whose steps are the database and queue calls it awaits:      *)
(*                                                                         *)
(*   idle -> admitted -> found -> committed -> done                        *)
(*                                                                         *)
(* "found" is the window that matters: the row was read as PENDING, and    *)
(* the UPDATE that follows matches on the id alone.  "committed" is the    *)
(* window of approveProposal between its transaction and the queue.  A     *)
(* request whose process dies goes to "dead", wherever it was.             *)
(***************************************************************************)
EXTENDS Naturals, Sequences, FiniteSets

CONSTANTS
    Proposals,  \* ids of trade_proposals
    Users,      \* ids of users
    Requests,   \* calls of the two mutations, each with its correlation id
    Owner       \* trade_proposals.user_id, fixed when the row is inserted

ASSUME OwnerAssumption == Owner \in [Proposals -> Users]

VARIABLES
    status,  \* trade_proposals.status; "ABSENT" while there is no such row
    trail,   \* rows of proposal_actions per proposal, in commit order
    jobs,    \* jobs the reconciliation queue has accepted
    pc,      \* where each request is
    call,    \* the arguments and the caller of each request
    answer,  \* what the client of each request has been told
    late     \* history: requests received after their proposal was decided

db   == <<status, trail>>
vars == <<status, trail, jobs, pc, call, answer, late>>

-----------------------------------------------------------------------------
Actions == {"APPROVE", "SKIP"}

\* Fault: the action's name is written into the status column.
FaultStatusIsAction(action) == action

\* The status a decision writes: APPROVED with approved_at, SKIPPED with
\* skipped_at.
StatusOf(action) == IF action = "APPROVE" THEN "APPROVED" ELSE "SKIPPED"

Statuses == {"ABSENT", "PENDING", "APPROVED", "SKIPPED", "EXPIRED", "CANCELLED"}

Calls == [op : Actions, id : Proposals, user : Users]

\* "by" is a history field: it names the request that inserted the row.
Rows == [proposal : Proposals, user : Users, action : Actions, by : Requests]

\* The payload's ids.  "request" stands for the correlation id and the job id.
Jobs == [proposal : Proposals, user : Users, request : Requests]

InFlight == {"admitted", "found", "committed"}
Ended    == {"done", "dead"}
Answers  == {"none", "Proposal", "NotFoundError", "AuthError",
             "FORBIDDEN", "RATE_LIMITED", "error"}

\* What a resolver may return, as the fields of the object that the unions look
\* for: the row that the transaction returned, or { message: ... }.
UpdatedRow == {"bot_id"}
Refusal    == {"message"}

\* resolveType of ApproveProposalResult and SkipProposalResult.  It takes an
\* object for a Proposal only if it has a message, which a row of
\* trade_proposals has not: a committed decision is answered as an AuthError.
resolveType(value) ==
    IF {"message", "bot_id"} \subseteq value THEN "Proposal"
    ELSE IF "message" \in value THEN "NotFoundError"
    ELSE "AuthError"

Init ==
    /\ status = [p \in Proposals |-> "ABSENT"]
    /\ trail = [p \in Proposals |-> << >>]
    /\ jobs = {}
    /\ pc = [r \in Requests |-> "idle"]
    /\ call \in [Requests -> Calls]
    /\ answer = [r \in Requests |-> "none"]
    /\ late = {}

Reply(r, value) ==
    /\ pc' = [pc EXCEPT ![r] = "done"]
    /\ answer' = [answer EXCEPT ![r] = value]

Goto(r, label) ==
    /\ pc' = [pc EXCEPT ![r] = label]
    /\ UNCHANGED answer

-----------------------------------------------------------------------------
(***************************************************************************)
(* Steps of a request.                                                     *)
(***************************************************************************)

\* The call arrives and awaits withOpRateLimit, which lets it through, throws
\* RATE_LIMITED, or fails with Valkey; nothing has been read yet.
Receive(r) ==
    /\ pc[r] = "idle"
    /\ late' = IF trail[call[r].id] # << >> THEN late \cup {r} ELSE late
    /\ \/ Goto(r, "admitted")
       \/ Reply(r, "RATE_LIMITED")
       \/ Reply(r, "error")
    /\ UNCHANGED <<status, trail, jobs, call>>

\* Fault: assertOwnership is forgotten.
FaultAnyCaller(r) == call[r].user \in Users

\* assertOwnership: the caller's id against the row's denormalised user_id.
Owns(r) == call[r].user = Owner[call[r].id]

\* Fault: the look-up matches on the id alone.
FaultAnyStatus(p) == status[p] # "ABSENT"

\* Fault: the look-up misses the statuses that a worker writes.
FaultUndecided(p) == status[p] \in {"PENDING", "EXPIRED", "CANCELLED"}

\* WHERE id = args.id AND status = 'PENDING'.
Selected(p) == status[p] = "PENDING"

\* SELECT ... WHERE id AND status = 'PENDING', then, with no await between,
\* the "already actioned" answer or the ownership check, which
\* throws FORBIDDEN.
Lookup(r) ==
    /\ pc[r] = "admitted"
    /\ \/ /\ ~Selected(call[r].id)
          /\ Reply(r, resolveType(Refusal))
       \/ /\ Selected(call[r].id)
          /\ ~Owns(r)
          /\ Reply(r, "FORBIDDEN")
       \/ /\ Selected(call[r].id)
          /\ Owns(r)
          /\ Goto(r, "found")
    /\ UNCHANGED <<status, trail, jobs, call, late>>

\* What the transaction inserts into proposal_actions.
ActionRow(r) ==
    [proposal |-> call[r].id, user |-> call[r].user,
     action |-> call[r].op, by |-> r]

\* Fault: a transaction whose acknowledgement was lost is run again.
FaultRetriedCommit(r) ==
    \/ call[r].op = "APPROVE" /\ Goto(r, "committed")
    \/ call[r].op = "SKIP" /\ Reply(r, resolveType(UpdatedRow))
    \/ Goto(r, "found")

\* approveProposal goes on to the queue and skipProposal is finished.  Either
\* may lose its connection after the COMMIT took effect: execute() rejects.
AfterCommit(r) ==
    \/ call[r].op = "APPROVE" /\ Goto(r, "committed")
    \/ call[r].op = "SKIP" /\ Reply(r, resolveType(UpdatedRow))
    \/ Reply(r, "error")

\* Fault: the UPDATE and the INSERT run without a transaction, and the INSERT
\* fails.
FaultTornCommit(r) ==
    /\ pc[r] = "found"
    /\ status' = [status EXCEPT ![call[r].id] = StatusOf(call[r].op)]
    /\ \/ /\ trail' = [trail EXCEPT ![call[r].id] = Append(@, ActionRow(r))]
          /\ AfterCommit(r)
       \/ /\ trail' = trail
          /\ Reply(r, "error")
    /\ UNCHANGED <<jobs, call, late>>

\* The transaction: UPDATE ... SET status WHERE id (and only id), INSERT INTO
\* proposal_actions, COMMIT.
Commit(r) ==
    /\ pc[r] = "found"
    /\ status' = [status EXCEPT ![call[r].id] = StatusOf(call[r].op)]
    /\ trail' = [trail EXCEPT ![call[r].id] = Append(@, ActionRow(r))]
    /\ AfterCommit(r)
    /\ UNCHANGED <<jobs, call, late>>

\* A query of the look-up or of the transaction fails, or the COMMIT does: the
\* transaction rolls back and the client gets an error.
DbFails(r) ==
    /\ pc[r] \in {"admitted", "found"}
    /\ Reply(r, "error")
    /\ UNCHANGED <<status, trail, jobs, call, late>>

JobFor(r) ==
    [proposal |-> call[r].id, user |-> call[r].user, request |-> r]

\* Fault: add() is not awaited, so its failure is nobody's.
FaultUnawaitedDispatch(r) ==
    /\ pc[r] = "committed"
    /\ jobs' \in {jobs, jobs \cup {JobFor(r)}}
    /\ Reply(r, resolveType(UpdatedRow))
    /\ UNCHANGED <<status, trail, call, late>>

\* Fault: the resolver awaits the job's completion, not its acceptance.
FaultAwaitsCompletion(r) ==
    /\ pc[r] = "committed"
    /\ JobFor(r) \notin jobs
    /\ jobs' = jobs \cup {JobFor(r)}
    /\ UNCHANGED <<status, trail, pc, call, answer, late>>

\* The awaited getReconciliationQueue().add: the job is accepted and the row
\* returned; or Valkey refuses it and the client gets an error; or the job is
\* accepted and only the acknowledgement is lost, an error too.
Dispatch(r) ==
    /\ pc[r] = "committed"
    /\ \/ jobs' = jobs \cup {JobFor(r)} /\ Reply(r, resolveType(UpdatedRow))
       \/ jobs' = jobs /\ Reply(r, "error")
       \/ jobs' = jobs \cup {JobFor(r)} /\ Reply(r, "error")
    /\ UNCHANGED <<status, trail, call, late>>

\* The process that serves the request dies.  A transaction in flight rolls
\* back (no step) or had already committed (Commit, then this step).
Crash(r) ==
    /\ pc[r] \in InFlight
    /\ Goto(r, "dead")
    /\ UNCHANGED <<status, trail, jobs, call, late>>

-----------------------------------------------------------------------------
(***************************************************************************)
(* The two operations, and the workers outside this repository.            *)
(***************************************************************************)

ApproveProposal(r) ==
    /\ call[r].op = "APPROVE"
    /\ Receive(r) \/ Lookup(r) \/ Commit(r) \/ DbFails(r) \/ Dispatch(r)

SkipProposal(r) ==
    /\ call[r].op = "SKIP"
    /\ Receive(r) \/ Lookup(r) \/ Commit(r) \/ DbFails(r)

\* A scan inserts a proposal.
Propose(p) ==
    /\ status[p] = "ABSENT"
    /\ status' = [status EXCEPT ![p] = "PENDING"]
    /\ UNCHANGED <<trail, jobs, pc, call, answer, late>>

\* The expiry sweep (or a cancellation) closes a proposal nobody has decided.
Close(p) ==
    /\ status[p] = "PENDING"
    /\ \E s \in {"EXPIRED", "CANCELLED"} : status' = [status EXCEPT ![p] = s]
    /\ UNCHANGED <<trail, jobs, pc, call, answer, late>>

Next ==
    \/ \E r \in Requests : ApproveProposal(r) \/ SkipProposal(r) \/ Crash(r)
    \/ \E p \in Proposals : Propose(p) \/ Close(p)

Spec == Init /\ [][Next]_vars

\* Node runs a pending continuation once its database or queue call settles,
\* and those calls settle: pg and BullMQ reject on a lost connection.  Nothing
\* obliges a client to call, a worker to act or a process to die.
Fairness ==
    \A r \in Requests :
        WF_vars(pc[r] # "idle" /\ (ApproveProposal(r) \/ SkipProposal(r)))

FairSpec == Spec /\ Fairness

-----------------------------------------------------------------------------
(***************************************************************************)
(* Properties.                                                             *)
(***************************************************************************)

TypeOK ==
    /\ status \in [Proposals -> Statuses]
    /\ trail \in [Proposals -> Seq(Rows)]
    /\ jobs \subseteq Jobs
    /\ pc \in [Requests -> {"idle"} \cup InFlight \cup Ended]
    /\ call \in [Requests -> Calls]
    /\ answer \in [Requests -> Answers]
    /\ late \subseteq Requests

Decided(p) == trail[p] # << >>

\* Rows of proposal_actions that request r inserted on the proposal it names.
Decides(r) == \E i \in DOMAIN trail[call[r].id] : trail[call[r].id][i].by = r

Dispatched(r) == JobFor(r) \in jobs

\* The audit trail and the status column never disagree, whatever overlaps:
\* a decided proposal carries the status of the last action recorded on it, and
\* an undecided one is still PENDING or was closed by the sweep.  Both writes
\* of a decision are in one transaction for this.
AuditTrailAgrees ==
    \A p \in Proposals :
        IF Decided(p)
        THEN status[p] = StatusOf(trail[p][Len(trail[p])].action)
        ELSE status[p] \notin {"APPROVED", "SKIPPED"}

\* No order is requested out of thin air: every job in the reconciliation
\* queue goes back to an APPROVE row that the same request committed before,
\* for the same proposal and in the name of the proposal's owner.
JobsAccounted ==
    \A j \in jobs :
        /\ j.user = Owner[j.proposal]
        /\ \E i \in DOMAIN trail[j.proposal] :
              /\ trail[j.proposal][i].by = j.request
              /\ trail[j.proposal][i].action = "APPROVE"
              /\ trail[j.proposal][i].user = j.user

\* No request writes two audit rows, so the orders of a proposal never exceed
\* its APPROVE rows even when several requests decide it.
OneRowPerRequest ==
    \A p, q \in Proposals :
        \A i \in DOMAIN trail[p], j \in DOMAIN trail[q] :
            trail[p][i].by = trail[q][j].by => p = q /\ i = j

\* What an answer tells about the tables, whatever it is called: AuthError
\* comes from a decision that is recorded and, for an approval, whose order is
\* in the queue; NotFoundError, FORBIDDEN and RATE_LIMITED come from a call that
\* left no trace.  Any other error tells nothing.
AnswersMatchTraces ==
    \A r \in Requests :
        /\ answer[r] = "AuthError" =>
              Decides(r) /\ (call[r].op = "APPROVE" => Dispatched(r))
        /\ answer[r] \in {"NotFoundError", "FORBIDDEN", "RATE_LIMITED"} =>
              ~Decides(r) /\ ~Dispatched(r)

\* A repeated tap or a retry that arrives after a decision was committed never
\* decides again: two decisions on one proposal need two requests in flight at
\* the same time.
LateRequestsLose ==
    \A r \in late : ~Decides(r) /\ ~Dispatched(r) /\ answer[r] # "AuthError"

\* Every call that was received is answered, unless its process dies.
CallsEnd == \A r \in Requests : pc[r] # "idle" ~> pc[r] \in Ended

\* What the answer "Proposal not found or already actioned" leads a reader to
\* expect of the status filter: a proposal is actioned at most once.
ActionedOnce == \A p \in Proposals : Len(trail[p]) <= 1

-----------------------------------------------------------------------------
(***************************************************************************)
(* The mutations implement the ledger: a request in the "found" window is  *)
(* a ticket, an audit row a decision, a queued job an order.               *)
(***************************************************************************)
OpenProposals == {p \in Proposals : status[p] = "PENDING"}

Tickets == {t \in Requests \X Proposals :
               pc[t[1]] = "found" /\ call[t[1]].id = t[2]}

Decision(row) ==
    [by |-> row.by, proposal |-> row.proposal, action |-> row.action]

Recorded == {d \in [by : Requests, proposal : Proposals, action : Actions] :
                \E i \in DOMAIN trail[d.proposal] :
                    Decision(trail[d.proposal][i]) = d}

Ordered == {o \in Requests \X Proposals :
               \E j \in jobs : j.request = o[1] /\ j.proposal = o[2]}

Ledger == INSTANCE ProposalLedger WITH
              open      <- OpenProposals,
              tickets   <- Tickets,
              decisions <- Recorded,
              orders    <- Ordered

\* Every step of the two mutations, of the workers and of a crash is a step of
\* the ledger or leaves it as it was.
ImplementsLedger == Ledger!Spec
=============================================================================
