--------------------------- MODULE ProposalsProofs ---------------------------
(***************************************************************************)
(* Safety of Proposals, for any number of proposals, users and concurrent  *)
(* requests; that it implements ProposalLedger, and what it inherits.      *)
(***************************************************************************)
EXTENDS Proposals, TLAPS

-----------------------------------------------------------------------------
(***************************************************************************)
(* Types.                                                                  *)
(***************************************************************************)

\* The row a transaction inserts and the job it dispatches have their types.
LEMMA RowAndJobTypes ==
    ASSUME TypeOK, NEW r \in Requests
    PROVE  /\ call[r] \in Calls
           /\ call[r].id \in Proposals
           /\ call[r].user \in Users
           /\ call[r].op \in Actions
           /\ ActionRow(r) \in Rows
           /\ JobFor(r) \in Jobs
           /\ StatusOf(call[r].op) \in Statuses
  BY DEF TypeOK, Calls, ActionRow, Rows, JobFor, Jobs, StatusOf, Statuses, Actions

\* What the unions make of the two objects the resolvers return.
LEMMA ResolvedTypes ==
    resolveType(Refusal) = "NotFoundError" /\ resolveType(UpdatedRow) = "AuthError"
  BY DEF resolveType, Refusal, UpdatedRow

\* Every variable keeps its type: no step writes a status, an audit row, a job
\* or an answer outside the sets the schema allows.
THEOREM TypeInvariant == Spec => []TypeOK
<1>1. Init => TypeOK
  BY DEF Init, TypeOK, Statuses, Answers
<1>2. TypeOK /\ [Next]_vars => TypeOK'
  <2> SUFFICES ASSUME TypeOK, [Next]_vars PROVE TypeOK'
    OBVIOUS
  <2>1. ASSUME NEW r \in Requests, Receive(r) PROVE TypeOK'
    BY <2>1 DEF Receive, Goto, Reply, TypeOK, InFlight, Ended, Answers
  <2>2. ASSUME NEW r \in Requests, Lookup(r) PROVE TypeOK'
    BY <2>2, ResolvedTypes DEF Lookup, Goto, Reply, TypeOK, InFlight, Ended, Answers
  <2>3. ASSUME NEW r \in Requests, Commit(r) PROVE TypeOK'
    <3>1. pc' \in [Requests -> {"idle"} \cup InFlight \cup Ended]
          /\ answer' \in [Requests -> Answers]
      BY <2>3, ResolvedTypes DEF Commit, AfterCommit, Goto, Reply, TypeOK, InFlight, Ended, Answers
    <3>2. trail' \in [Proposals -> Seq(Rows)]
      BY <2>3, RowAndJobTypes DEF Commit, TypeOK
    <3>3. status' \in [Proposals -> Statuses]
      BY <2>3, RowAndJobTypes DEF Commit, TypeOK
    <3>4. QED
      BY <2>3, <3>1, <3>2, <3>3 DEF Commit, TypeOK
  <2>4. ASSUME NEW r \in Requests, DbFails(r) PROVE TypeOK'
    BY <2>4 DEF DbFails, Reply, TypeOK, InFlight, Ended, Answers
  <2>5. ASSUME NEW r \in Requests, Dispatch(r) PROVE TypeOK'
    BY <2>5, RowAndJobTypes, ResolvedTypes DEF Dispatch, Reply, TypeOK, InFlight, Ended, Answers
  <2>6. ASSUME NEW r \in Requests, Crash(r) PROVE TypeOK'
    BY <2>6 DEF Crash, Goto, TypeOK, InFlight, Ended
  <2>7. ASSUME NEW p \in Proposals, Propose(p) \/ Close(p) PROVE TypeOK'
    BY <2>7 DEF Propose, Close, TypeOK, Statuses
  <2>8. CASE UNCHANGED vars
    BY <2>8 DEF vars, TypeOK
  <2>9. QED
    BY <2>1, <2>2, <2>3, <2>4, <2>5, <2>6, <2>7, <2>8
       DEF Next, ApproveProposal, SkipProposal
<1>3. QED
  BY <1>1, <1>2, PTL DEF Spec

-----------------------------------------------------------------------------
(***************************************************************************)
(* The inductive invariant.  The safety properties are not inductive: they *)
(* speak of rows, jobs and answers, and a step preserves them because of   *)
(* what a program counter says about the rows already written.  The parts  *)
(* below say it.                                                           *)
(***************************************************************************)

\* An audit row is its request's own: it sits on the proposal the request
\* names, the request has passed the ownership check and has left the window.
RowsOfRequests ==
    \A p \in Proposals : \A i \in DOMAIN trail[p] :
        LET row == trail[p][i] IN
        /\ row = ActionRow(row.by)
        /\ row.proposal = p
        /\ Owns(row.by)
        /\ pc[row.by] \in {"committed", "done", "dead"}

\* What a program counter says about the request.
PcMeaning ==
    \A r \in Requests :
        /\ pc[r] \in {"found", "committed"} => Owns(r)
        /\ pc[r] = "committed" => call[r].op = "APPROVE" /\ Decides(r)
        /\ pc[r] # "done" => answer[r] = "none"

\* A job is its request's own, and the request is over.
JobsOfRequests ==
    \A j \in jobs :
        /\ j = JobFor(j.request)
        /\ Owns(j.request)
        /\ call[j.request].op = "APPROVE"
        /\ Decides(j.request)
        /\ pc[j.request] = "done"

\* A late request never gets past the look-up: its proposal stays decided.
LateRequestsStop ==
    \A r \in late :
        /\ Decided(call[r].id)
        /\ pc[r] \in {"admitted", "done", "dead"}
        /\ ~Decides(r)
        /\ answer[r] # "AuthError"

IInv ==
    /\ TypeOK
    /\ AuditTrailAgrees
    /\ RowsOfRequests
    /\ OneRowPerRequest
    /\ PcMeaning
    /\ JobsOfRequests
    /\ AnswersMatchTraces
    /\ LateRequestsStop

\* Nothing is decided, recorded or queued at the start.
LEMMA InitInvariant == Init => IInv
<1> SUFFICES ASSUME Init PROVE IInv
  OBVIOUS
<1>1. TypeOK
  BY DEF Init, TypeOK, Statuses, Answers
<1>2. \A p \in Proposals : trail[p] = << >> /\ DOMAIN trail[p] = {}
  BY DEF Init
<1>3. AuditTrailAgrees /\ RowsOfRequests /\ OneRowPerRequest
  BY <1>2 DEF Init, AuditTrailAgrees, RowsOfRequests, OneRowPerRequest, Decided
<1>4. PcMeaning /\ JobsOfRequests /\ AnswersMatchTraces /\ LateRequestsStop
  BY DEF Init, PcMeaning, JobsOfRequests, AnswersMatchTraces, LateRequestsStop
<1>5. QED
  BY <1>1, <1>3, <1>4 DEF IInv

\* What the typing of the tables says about their members.
LEMMA MemberTypes ==
    ASSUME TypeOK
    PROVE  /\ \A p \in Proposals : \A i \in DOMAIN trail[p] :
                 trail[p][i] \in Rows /\ trail[p][i].by \in Requests
           /\ \A j \in jobs : j \in Jobs /\ j.request \in Requests
           /\ \A r \in late : r \in Requests
<1>1. ASSUME NEW p \in Proposals, NEW i \in DOMAIN trail[p]
      PROVE  trail[p][i] \in Rows
  <2>1. trail[p] \in Seq(Rows)
    BY DEF TypeOK
  <2>2. i \in 1 .. Len(trail[p])
    BY <2>1
  <2>3. QED
    BY <2>1, <2>2
<1>2. QED
  BY <1>1 DEF TypeOK, Rows, Jobs

\* A request that has not committed has left no row and no job.
LEMMA NoTraceBeforeCommit ==
    ASSUME IInv, NEW r \in Requests, pc[r] \in {"idle", "admitted", "found"}
    PROVE  ~Decides(r) /\ ~Dispatched(r)
<1>1. call[r].id \in Proposals /\ JobFor(r).request = r
  BY RowAndJobTypes DEF IInv, JobFor
<1>2. ~Decides(r)
  BY <1>1 DEF IInv, RowsOfRequests, Decides
<1>3. ~Dispatched(r)
  BY <1>1 DEF IInv, JobsOfRequests, Dispatched
<1>4. QED
  BY <1>2, <1>3

\* A step that only moves one request's program counter and answers it keeps
\* the invariant, as long as the new counter and the answer are justified.
LEMMA QuietStep ==
    ASSUME IInv, TypeOK', NEW r \in Requests,
           UNCHANGED <<status, trail, jobs, call>>,
           \A q \in Requests \ {r} : pc'[q] = pc[q] /\ answer'[q] = answer[q],
           pc[r] \notin {"done", "dead"},
           pc'[r] \in {"admitted", "found", "done", "dead"},
           pc[r] = "committed" => pc'[r] \in {"done", "dead"},
           pc'[r] = "found" => Owns(r),
           pc'[r] # "done" => answer'[r] = "none",
           answer'[r] # "AuthError",
           answer'[r] \in {"NotFoundError", "FORBIDDEN", "RATE_LIMITED"} =>
               ~Decides(r) /\ ~Dispatched(r),
           \A q \in late' : q \in late \/ q = r,
           r \in late' => /\ Decided(call[r].id)
                         /\ ~Decides(r)
                         /\ pc'[r] \in {"admitted", "done", "dead"}
    PROVE  IInv'
<1> USE MemberTypes DEF IInv
<1>1. AuditTrailAgrees'
  BY DEF AuditTrailAgrees, Decided
<1>2. RowsOfRequests'
  <2> SUFFICES ASSUME NEW p \in Proposals, NEW i \in DOMAIN trail[p]
               PROVE  /\ trail[p][i] = ActionRow(trail[p][i].by)
                      /\ trail[p][i].proposal = p
                      /\ Owns(trail[p][i].by)
                      /\ pc'[trail[p][i].by] \in {"committed", "done", "dead"}
    BY DEF RowsOfRequests, ActionRow, Owns
  <2>1. /\ trail[p][i] = ActionRow(trail[p][i].by)
        /\ trail[p][i].proposal = p
        /\ Owns(trail[p][i].by)
        /\ pc[trail[p][i].by] \in {"committed", "done", "dead"}
    BY DEF RowsOfRequests
  <2>2. pc'[trail[p][i].by] \in {"committed", "done", "dead"}
    BY <2>1
  <2>3. QED
    BY <2>1, <2>2
<1>3. OneRowPerRequest'
  BY DEF OneRowPerRequest
<1>4. PcMeaning'
  BY DEF PcMeaning, Owns, Decides
<1>5. JobsOfRequests'
  <2> SUFFICES ASSUME NEW j \in jobs
               PROVE  /\ j = JobFor(j.request)
                      /\ Owns(j.request)
                      /\ call[j.request].op = "APPROVE"
                      /\ Decides(j.request)
                      /\ pc'[j.request] = "done"
    BY DEF JobsOfRequests, JobFor, Owns, Decides
  <2>1. /\ j = JobFor(j.request)
        /\ Owns(j.request)
        /\ call[j.request].op = "APPROVE"
        /\ Decides(j.request)
        /\ pc[j.request] = "done"
    BY DEF JobsOfRequests
  <2>2. j.request \in Requests \ {r}
    BY <2>1
  <2>3. QED
    BY <2>1, <2>2
<1>6. AnswersMatchTraces'
  BY DEF AnswersMatchTraces, Decides, Dispatched, JobFor
<1>7. LateRequestsStop'
  <2> SUFFICES ASSUME NEW q \in late'
               PROVE  /\ Decided(call[q].id)
                      /\ pc'[q] \in {"admitted", "done", "dead"}
                      /\ ~Decides(q)
                      /\ answer'[q] # "AuthError"
    BY DEF LateRequestsStop, Decided, Decides
  <2>1. CASE q = r
    BY <2>1
  <2>2. CASE q \in late /\ q # r
    BY <2>2 DEF LateRequestsStop
  <2>3. QED
    BY <2>1, <2>2
<1>8. QED
  BY <1>1, <1>2, <1>3, <1>4, <1>5, <1>6, <1>7

\* Receiving a request marks it late when its proposal is not PENDING.
LEMMA ReceivePreserves ==
    ASSUME IInv, TypeOK', NEW r \in Requests, Receive(r)
    PROVE  IInv'
<1>1. /\ pc[r] = "idle"
      /\ answer[r] = "none"
      /\ ~Decides(r) /\ ~Dispatched(r)
  BY NoTraceBeforeCommit DEF Receive, IInv, PcMeaning
<1>2. /\ \A q \in Requests \ {r} : pc'[q] = pc[q] /\ answer'[q] = answer[q]
      /\ pc'[r] \in {"admitted", "done"}
      /\ pc'[r] = "admitted" => answer'[r] = "none"
      /\ answer'[r] \in {"none", "RATE_LIMITED", "error"}
  BY <1>1 DEF Receive, Goto, Reply, IInv, TypeOK
<1>3. r \notin late
  BY <1>1 DEF IInv, LateRequestsStop
<1>4. QED
  BY <1>1, <1>2, <1>3, QuietStep DEF Receive, Decided

\* A late request ends at the look-up, so the window opens on PENDING rows only.
LEMMA LookupPreserves ==
    ASSUME IInv, TypeOK', NEW r \in Requests, Lookup(r)
    PROVE  IInv'
<1>1. /\ pc[r] = "admitted"
      /\ answer[r] = "none"
      /\ ~Decides(r) /\ ~Dispatched(r)
  BY NoTraceBeforeCommit DEF Lookup, IInv, PcMeaning
<1>2. /\ \A q \in Requests \ {r} : pc'[q] = pc[q] /\ answer'[q] = answer[q]
      /\ pc'[r] \in {"found", "done"}
      /\ pc'[r] = "found" => Selected(call[r].id) /\ Owns(r) /\ answer'[r] = "none"
      /\ answer'[r] \in {"none", "NotFoundError", "FORBIDDEN"}
  BY <1>1, ResolvedTypes DEF Lookup, Goto, Reply, IInv, TypeOK
<1>3. r \in late => Decided(call[r].id) /\ pc'[r] = "done"
  <2>1. SUFFICES ASSUME r \in late PROVE Decided(call[r].id) /\ ~Selected(call[r].id)
    BY <1>2
  <2>2. Decided(call[r].id)
    BY <2>1 DEF IInv, LateRequestsStop
  <2>3. status[call[r].id] \in {"APPROVED", "SKIPPED"}
    BY <2>2, RowAndJobTypes DEF IInv, AuditTrailAgrees, StatusOf
  <2>4. QED
    BY <2>2, <2>3 DEF Selected
<1>4. QED
  BY <1>1, <1>2, <1>3, QuietStep DEF Lookup

\* A failed query or transaction writes nothing and answers with an error.
LEMMA DbFailsPreserves ==
    ASSUME IInv, TypeOK', NEW r \in Requests, DbFails(r)
    PROVE  IInv'
<1>1. /\ \A q \in Requests \ {r} : pc'[q] = pc[q] /\ answer'[q] = answer[q]
      /\ pc'[r] = "done"
      /\ answer'[r] = "error"
  BY DEF DbFails, Reply, IInv, TypeOK
<1>2. r \in late => Decided(call[r].id) /\ ~Decides(r)
  BY DEF IInv, LateRequestsStop
<1>3. QED
  BY <1>1, <1>2, QuietStep DEF DbFails

\* A crash forgets the request and leaves what it committed.
LEMMA CrashPreserves ==
    ASSUME IInv, TypeOK', NEW r \in Requests, Crash(r)
    PROVE  IInv'
<1>1. /\ \A q \in Requests \ {r} : pc'[q] = pc[q] /\ answer'[q] = answer[q]
      /\ pc[r] \in InFlight
      /\ pc'[r] = "dead"
      /\ answer'[r] = "none"
  BY DEF Crash, Goto, IInv, TypeOK, PcMeaning, InFlight
<1>2. r \in late => Decided(call[r].id) /\ ~Decides(r)
  BY DEF IInv, LateRequestsStop
<1>3. QED
  BY <1>1, <1>2, QuietStep DEF Crash, InFlight

\* A worker's step touches the status of a proposal nobody has decided.
LEMMA WorkerPreserves ==
    ASSUME IInv, TypeOK', NEW p \in Proposals, Propose(p) \/ Close(p)
    PROVE  IInv'
<1> USE DEF IInv
<1>1. /\ UNCHANGED <<trail, jobs, pc, call, answer, late>>
      /\ \A q \in Proposals \ {p} : status'[q] = status[q]
      /\ status[p] \in {"ABSENT", "PENDING"}
      /\ status'[p] \notin {"APPROVED", "SKIPPED"}
  BY DEF Propose, Close, TypeOK
<1>2. ~Decided(p)
  BY <1>1 DEF AuditTrailAgrees, StatusOf
<1>3. AuditTrailAgrees'
  BY <1>1, <1>2 DEF AuditTrailAgrees, Decided
<1>4. RowsOfRequests' /\ OneRowPerRequest'
  BY <1>1 DEF RowsOfRequests, OneRowPerRequest, ActionRow, Owns
<1>5. PcMeaning' /\ JobsOfRequests' /\ AnswersMatchTraces' /\ LateRequestsStop'
  BY <1>1 DEF PcMeaning, JobsOfRequests, AnswersMatchTraces, LateRequestsStop,
              JobFor, Owns, Decides, Decided, Dispatched
<1>6. QED
  BY <1>3, <1>4, <1>5

\* What a commit does to the audit trail: every old row stays where it was, and
\* the one new row is the request's own, last on its proposal.
LEMMA CommitExtendsTrail ==
    ASSUME TypeOK, NEW r \in Requests, Commit(r)
    PROVE  /\ \A p \in Proposals : \A i \in DOMAIN trail[p] :
                 i \in DOMAIN trail'[p] /\ trail'[p][i] = trail[p][i]
           /\ \A p \in Proposals : \A i \in DOMAIN trail'[p] :
                 \/ i \in DOMAIN trail[p] /\ trail'[p][i] = trail[p][i]
                 \/ p = call[r].id /\ i = Len(trail'[p]) /\ trail'[p][i] = ActionRow(r)
           /\ Len(trail'[call[r].id]) \in DOMAIN trail'[call[r].id]
           /\ trail'[call[r].id][Len(trail'[call[r].id])] = ActionRow(r)
           /\ Len(trail'[call[r].id]) \notin DOMAIN trail[call[r].id]
           /\ \A p \in Proposals \ {call[r].id} : trail'[p] = trail[p]
<1> DEFINE t == call[r].id
<1>1. /\ t \in Proposals
      /\ \A p \in Proposals : trail[p] \in Seq(Rows)
      /\ ActionRow(r) \in Rows
  BY RowAndJobTypes DEF TypeOK
<1>2. /\ trail'[t] = Append(trail[t], ActionRow(r))
      /\ \A p \in Proposals \ {t} : trail'[p] = trail[p]
  BY <1>1 DEF Commit, TypeOK
<1>3. /\ Len(trail'[t]) = Len(trail[t]) + 1
      /\ DOMAIN trail'[t] = 1 .. Len(trail[t]) + 1
      /\ DOMAIN trail[t] = 1 .. Len(trail[t])
      /\ Len(trail[t]) \in Nat
      /\ \A i \in 1 .. Len(trail[t]) : trail'[t][i] = trail[t][i]
      /\ trail'[t][Len(trail[t]) + 1] = ActionRow(r)
  BY <1>1, <1>2
<1>4. ASSUME NEW p \in Proposals, NEW i \in DOMAIN trail[p]
      PROVE  i \in DOMAIN trail'[p] /\ trail'[p][i] = trail[p][i]
  <2>1. CASE p = t
    <3>1. i \in 1 .. Len(trail[t]) /\ i \in 1 .. Len(trail[t]) + 1
      BY <1>3, <2>1
    <3>2. QED
      BY <1>3, <2>1, <3>1
  <2>2. CASE p # t
    BY <1>2, <2>2
  <2>3. QED
    BY <2>1, <2>2
<1>5. ASSUME NEW p \in Proposals, NEW i \in DOMAIN trail'[p]
      PROVE  \/ i \in DOMAIN trail[p] /\ trail'[p][i] = trail[p][i]
             \/ p = t /\ i = Len(trail'[p]) /\ trail'[p][i] = ActionRow(r)
  <2>1. CASE p = t
    <3>1. i \in 1 .. Len(trail[t]) \/ i = Len(trail[t]) + 1
      BY <1>3, <2>1
    <3>2. QED
      BY <1>3, <2>1, <3>1
  <2>2. CASE p # t
    BY <1>2, <2>2
  <2>3. QED
    BY <2>1, <2>2
<1>6. /\ Len(trail'[t]) \in DOMAIN trail'[t]
      /\ trail'[t][Len(trail'[t])] = ActionRow(r)
      /\ Len(trail'[t]) \notin DOMAIN trail[t]
  BY <1>3
<1>7. QED
  BY <1>2, <1>4, <1>5, <1>6

\* The transaction: the status, the audit row and, for a skip, the answer.
LEMMA CommitPreserves ==
    ASSUME IInv, TypeOK', NEW r \in Requests, Commit(r)
    PROVE  IInv'
<1> DEFINE t == call[r].id
<1> USE MemberTypes DEF IInv
<1>1. /\ pc[r] = "found" /\ Owns(r) /\ answer[r] = "none"
      /\ ~Decides(r) /\ ~Dispatched(r)
      /\ t \in Proposals /\ ActionRow(r) \in Rows
      /\ call[r].op \in Actions
  BY NoTraceBeforeCommit, RowAndJobTypes DEF Commit, PcMeaning
<1>2. /\ UNCHANGED <<jobs, call, late>>
      /\ \A q \in Requests \ {r} : pc'[q] = pc[q] /\ answer'[q] = answer[q]
      /\ \/ pc'[r] = "committed" /\ answer'[r] = "none" /\ call[r].op = "APPROVE"
         \/ pc'[r] = "done" /\ answer'[r] = "AuthError" /\ call[r].op = "SKIP"
         \/ pc'[r] = "done" /\ answer'[r] = "error"
  BY <1>1, ResolvedTypes DEF Commit, AfterCommit, Goto, Reply, TypeOK
<1>3. r \notin late
  BY <1>1 DEF LateRequestsStop
<1>4. /\ Decides(r)'
      /\ \A q \in Requests : Decides(q) => Decides(q)'
      /\ \A q \in Requests \ {r} : Decides(q)' => Decides(q)
      /\ \A p \in Proposals : Decided(p) => Decided(p)'
  <2>1. call' = call /\ \A q \in Requests : call[q].id \in Proposals
    BY <1>2, RowAndJobTypes
  <2>2. ActionRow(r).by = r
    BY DEF ActionRow
  <2>3. Decides(r)'
    <3>1. trail'[t][Len(trail'[t])].by = r /\ Len(trail'[t]) \in DOMAIN trail'[t]
      BY <2>2, CommitExtendsTrail
    <3>2. QED
      BY <2>1, <3>1 DEF Decides
  <2>4. ASSUME NEW q \in Requests, Decides(q) PROVE Decides(q)'
    <3>1. PICK i \in DOMAIN trail[call[q].id] : trail[call[q].id][i].by = q
      BY <2>4 DEF Decides
    <3>2. i \in DOMAIN trail'[call[q].id] /\ trail'[call[q].id][i].by = q
      BY <2>1, <3>1, CommitExtendsTrail
    <3>3. QED
      BY <2>1, <3>2 DEF Decides
  <2>5. ASSUME NEW q \in Requests \ {r}, Decides(q)' PROVE Decides(q)
    <3>1. PICK i \in DOMAIN trail'[call[q].id] : trail'[call[q].id][i].by = q
      BY <2>1, <2>5 DEF Decides
    <3>2. i \in DOMAIN trail[call[q].id] /\ trail[call[q].id][i].by = q
      BY <2>1, <2>2, <3>1, CommitExtendsTrail
    <3>3. QED
      BY <3>2 DEF Decides
  <2>6. ASSUME NEW p \in Proposals, Decided(p) PROVE Decided(p)'
    <3>1. CASE p = t
      BY <3>1, CommitExtendsTrail DEF Decided
    <3>2. CASE p # t
      BY <2>6, <3>2, CommitExtendsTrail DEF Decided
    <3>3. QED
      BY <3>1, <3>2
  <2>7. QED
    BY <2>3, <2>4, <2>5, <2>6
<1>5. AuditTrailAgrees'
  <2> SUFFICES ASSUME NEW p \in Proposals
               PROVE  IF Decided(p)'
                      THEN status'[p] = StatusOf(trail'[p][Len(trail'[p])].action)
                      ELSE status'[p] \notin {"APPROVED", "SKIPPED"}
    BY DEF AuditTrailAgrees, Decided, StatusOf
  <2>1. CASE p = t
    <3>1. status'[t] = StatusOf(call[r].op)
      BY <1>1 DEF Commit, TypeOK
    <3>2. ActionRow(r).action = call[r].op
      BY DEF ActionRow
    <3>3. trail'[t] # << >>
      BY CommitExtendsTrail
    <3>4. trail'[t][Len(trail'[t])] = ActionRow(r)
      BY CommitExtendsTrail
    <3>5. QED
      BY <2>1, <3>1, <3>2, <3>3, <3>4 DEF Decided
  <2>2. CASE p # t
    <3>1. status'[p] = status[p] /\ trail'[p] = trail[p]
      BY <1>1, <2>2 DEF Commit, TypeOK
    <3>2. QED
      BY <3>1 DEF AuditTrailAgrees, Decided
  <2>3. QED
    BY <2>1, <2>2
<1>6. RowsOfRequests'
  <2> SUFFICES ASSUME NEW p \in Proposals, NEW i \in DOMAIN trail'[p]
               PROVE  /\ trail'[p][i] = ActionRow(trail'[p][i].by)
                      /\ trail'[p][i].proposal = p
                      /\ Owns(trail'[p][i].by)
                      /\ pc'[trail'[p][i].by] \in {"committed", "done", "dead"}
    BY <1>2 DEF RowsOfRequests, ActionRow, Owns
  <2>1. CASE i \in DOMAIN trail[p] /\ trail'[p][i] = trail[p][i]
    <3>1. /\ trail[p][i] = ActionRow(trail[p][i].by)
          /\ trail[p][i].proposal = p
          /\ Owns(trail[p][i].by)
          /\ pc[trail[p][i].by] \in {"committed", "done", "dead"}
      BY <2>1 DEF RowsOfRequests
    <3>2. trail[p][i].by \in Requests \ {r}
      BY <1>1, <2>1, <3>1
    <3>3. QED
      BY <1>2, <2>1, <3>1, <3>2
  <2>2. CASE p = t /\ trail'[p][i] = ActionRow(r)
    BY <1>1, <1>2, <2>2 DEF ActionRow
  <2>3. QED
    BY <2>1, <2>2, CommitExtendsTrail
<1>7. OneRowPerRequest'
  <2> SUFFICES ASSUME NEW p \in Proposals, NEW q \in Proposals,
                      NEW i \in DOMAIN trail'[p], NEW j \in DOMAIN trail'[q],
                      trail'[p][i].by = trail'[q][j].by
               PROVE  p = q /\ i = j
    BY DEF OneRowPerRequest
  <2> DEFINE Old(u, k) == k \in DOMAIN trail[u] /\ trail'[u][k] = trail[u][k]
             New(u, k) == /\ u = t /\ k = Len(trail'[u])
                          /\ trail'[u][k] = ActionRow(r)
  <2>1. ASSUME NEW u \in Proposals, NEW k, Old(u, k) PROVE trail[u][k].by # r
    <3>1. /\ trail[u][k] = ActionRow(trail[u][k].by)
          /\ trail[u][k].proposal = u
          /\ pc[trail[u][k].by] \in {"committed", "done", "dead"}
      BY <2>1 DEF RowsOfRequests
    <3>2. QED
      BY <1>1, <3>1
  <2>2. ActionRow(r).by = r
    BY DEF ActionRow
  <2>3. (Old(p, i) \/ New(p, i)) /\ (Old(q, j) \/ New(q, j))
    BY CommitExtendsTrail
  <2>4. CASE Old(p, i) /\ Old(q, j)
    BY <2>4 DEF OneRowPerRequest
  <2>5. CASE New(p, i) /\ New(q, j)
    BY <2>5
  <2>6. CASE Old(p, i) /\ New(q, j)
    BY <2>1, <2>2, <2>6
  <2>7. CASE New(p, i) /\ Old(q, j)
    BY <2>1, <2>2, <2>7
  <2>8. QED
    BY <2>3, <2>4, <2>5, <2>6, <2>7
<1>8. PcMeaning'
  BY <1>1, <1>2, <1>4 DEF PcMeaning, Owns
<1>9. JobsOfRequests'
  <2> SUFFICES ASSUME NEW j \in jobs
               PROVE  /\ j = JobFor(j.request)
                      /\ Owns(j.request)
                      /\ call[j.request].op = "APPROVE"
                      /\ Decides(j.request)'
                      /\ pc'[j.request] = "done"
    BY <1>2 DEF JobsOfRequests, JobFor, Owns
  <2>1. /\ j = JobFor(j.request)
        /\ Owns(j.request)
        /\ call[j.request].op = "APPROVE"
        /\ Decides(j.request)
        /\ pc[j.request] = "done"
        /\ j.request \in Requests
    BY DEF JobsOfRequests
  <2>2. j.request # r
    BY <1>1, <2>1
  <2>3. QED
    BY <1>2, <1>4, <2>1, <2>2
<1>10. AnswersMatchTraces'
  <2> SUFFICES ASSUME NEW q \in Requests
               PROVE  /\ answer'[q] = "AuthError" =>
                            Decides(q)' /\ (call[q].op = "APPROVE" => Dispatched(q))
                      /\ answer'[q] \in {"NotFoundError", "FORBIDDEN", "RATE_LIMITED"} =>
                            ~Decides(q)' /\ ~Dispatched(q)
    BY <1>2 DEF AnswersMatchTraces, Dispatched, JobFor
  <2>1. CASE q = r
    BY <1>2, <1>4, <2>1
  <2>2. CASE q # r
    BY <1>2, <1>4, <2>2 DEF AnswersMatchTraces
  <2>3. QED
    BY <2>1, <2>2
<1>11. LateRequestsStop'
  <2> SUFFICES ASSUME NEW q \in late
               PROVE  /\ Decided(call[q].id)'
                      /\ pc'[q] \in {"admitted", "done", "dead"}
                      /\ ~Decides(q)'
                      /\ answer'[q] # "AuthError"
    BY <1>2 DEF LateRequestsStop, Decided
  <2>1. /\ Decided(call[q].id)
        /\ pc[q] \in {"admitted", "done", "dead"}
        /\ ~Decides(q)
        /\ answer[q] # "AuthError"
        /\ q \in Requests /\ q # r
        /\ call[q].id \in Proposals
    BY <1>3, RowAndJobTypes DEF LateRequestsStop
  <2>2. QED
    BY <1>2, <1>4, <2>1
<1>12. QED
  BY <1>5, <1>6, <1>7, <1>8, <1>9, <1>10, <1>11

\* The enqueueing of the order, which may succeed without being acknowledged.
LEMMA DispatchPreserves ==
    ASSUME IInv, TypeOK', NEW r \in Requests, Dispatch(r)
    PROVE  IInv'
<1> USE MemberTypes DEF IInv
<1>1. /\ pc[r] = "committed" /\ Owns(r) /\ answer[r] = "none"
      /\ call[r].op = "APPROVE" /\ Decides(r)
      /\ r \notin late
  BY DEF Dispatch, PcMeaning, LateRequestsStop
<1>2. /\ UNCHANGED <<status, trail, call, late>>
      /\ \A q \in Requests \ {r} : pc'[q] = pc[q] /\ answer'[q] = answer[q]
      /\ pc'[r] = "done"
      /\ answer'[r] \in {"AuthError", "error"}
  BY ResolvedTypes DEF Dispatch, Reply, TypeOK
<1>3. CASE jobs' = jobs /\ answer'[r] = "error"
  BY <1>1, <1>2, <1>3, QuietStep
<1>4. CASE jobs' = jobs \cup {JobFor(r)}
  <2>1. JobFor(r).request = r /\ JobFor(r) = JobFor(JobFor(r).request)
    BY DEF JobFor
  <2>2. \A q \in Requests \ {r} : Dispatched(q)' => Dispatched(q)
    BY <1>2, <1>4, <2>1 DEF Dispatched, JobFor
  <2>3. \A q \in Requests : Dispatched(q) => Dispatched(q)'
    BY <1>2, <1>4 DEF Dispatched, JobFor
  <2>4. Dispatched(r)'
    BY <1>2, <1>4 DEF Dispatched, JobFor
  <2>5. \A q \in Requests : Decides(q)' <=> Decides(q)
    BY <1>2 DEF Decides
  <2>6. AuditTrailAgrees' /\ OneRowPerRequest'
    BY <1>2 DEF AuditTrailAgrees, Decided, OneRowPerRequest
  <2>7. RowsOfRequests'
    <3> SUFFICES ASSUME NEW p \in Proposals, NEW i \in DOMAIN trail[p]
                 PROVE  /\ trail[p][i] = ActionRow(trail[p][i].by)
                        /\ trail[p][i].proposal = p
                        /\ Owns(trail[p][i].by)
                        /\ pc'[trail[p][i].by] \in {"committed", "done", "dead"}
      BY <1>2 DEF RowsOfRequests, ActionRow, Owns
    <3>1. /\ trail[p][i] = ActionRow(trail[p][i].by)
          /\ trail[p][i].proposal = p
          /\ Owns(trail[p][i].by)
          /\ pc[trail[p][i].by] \in {"committed", "done", "dead"}
      BY DEF RowsOfRequests
    <3>2. pc'[trail[p][i].by] \in {"committed", "done", "dead"}
      BY <1>2, <3>1
    <3>3. QED
      BY <3>1, <3>2
  <2>8. PcMeaning'
    BY <1>1, <1>2 DEF PcMeaning, Owns, Decides
  <2>9. JobsOfRequests'
    <3> SUFFICES ASSUME NEW j \in jobs'
                 PROVE  /\ j = JobFor(j.request)
                        /\ Owns(j.request)
                        /\ call[j.request].op = "APPROVE"
                        /\ Decides(j.request)
                        /\ pc'[j.request] = "done"
      BY <1>2 DEF JobsOfRequests, JobFor, Owns, Decides
    <3>1. CASE j \in jobs
      BY <1>2, <3>1 DEF JobsOfRequests
    <3>2. CASE j = JobFor(r)
      BY <1>1, <1>2, <2>1, <3>2
    <3>3. QED
      BY <1>4, <3>1, <3>2
  <2>10. AnswersMatchTraces'
    <3> SUFFICES ASSUME NEW q \in Requests
                 PROVE  /\ answer'[q] = "AuthError" =>
                              Decides(q) /\ (call[q].op = "APPROVE" => Dispatched(q)')
                        /\ answer'[q] \in {"NotFoundError", "FORBIDDEN", "RATE_LIMITED"} =>
                              ~Decides(q) /\ ~Dispatched(q)'
      BY <1>2, <2>5 DEF AnswersMatchTraces
    <3>1. CASE q = r
      BY <1>1, <1>2, <2>4, <3>1
    <3>2. CASE q # r
      BY <1>2, <2>2, <2>3, <3>2 DEF AnswersMatchTraces
    <3>3. QED
      BY <3>1, <3>2
  <2>11. LateRequestsStop'
    <3> SUFFICES ASSUME NEW q \in late
                 PROVE  /\ Decided(call[q].id)
                        /\ pc'[q] \in {"admitted", "done", "dead"}
                        /\ ~Decides(q)
                        /\ answer'[q] # "AuthError"
      BY <1>2 DEF LateRequestsStop, Decided, Decides
    <3>1. q \in Requests \ {r}
      BY <1>1
    <3>2. QED
      BY <1>2, <3>1 DEF LateRequestsStop
  <2>12. QED
    BY <2>6, <2>7, <2>8, <2>9, <2>10, <2>11
<1>5. QED
  BY <1>1, <1>3, <1>4, ResolvedTypes DEF Dispatch, Reply, TypeOK

-----------------------------------------------------------------------------
\* The inductive invariant holds in every state of every behaviour.
THEOREM InductiveInvariant == Spec => []IInv
<1>1. IInv /\ TypeOK' /\ [Next]_vars => IInv'
  <2> SUFFICES ASSUME IInv, TypeOK', [Next]_vars PROVE IInv'
    OBVIOUS
  <2>1. ASSUME NEW r \in Requests, ApproveProposal(r) PROVE IInv'
    BY <2>1, ReceivePreserves, LookupPreserves, CommitPreserves,
       DbFailsPreserves, DispatchPreserves DEF ApproveProposal
  <2>2. ASSUME NEW r \in Requests, SkipProposal(r) PROVE IInv'
    BY <2>2, ReceivePreserves, LookupPreserves, CommitPreserves,
       DbFailsPreserves DEF SkipProposal
  <2>3. ASSUME NEW r \in Requests, Crash(r) PROVE IInv'
    BY <2>3, CrashPreserves
  <2>4. ASSUME NEW p \in Proposals, Propose(p) \/ Close(p) PROVE IInv'
    BY <2>4, WorkerPreserves
  <2>5. CASE UNCHANGED vars
    <3>1. UNCHANGED <<status, trail, jobs, pc, call, answer, late>>
      BY <2>5 DEF vars
    <3>2. AuditTrailAgrees' /\ OneRowPerRequest'
      BY <3>1 DEF IInv, AuditTrailAgrees, OneRowPerRequest, Decided
    <3>3. RowsOfRequests'
      BY <3>1 DEF IInv, RowsOfRequests, ActionRow, Owns
    <3>4. PcMeaning' /\ JobsOfRequests'
      BY <3>1 DEF IInv, PcMeaning, JobsOfRequests, JobFor, Owns, Decides
    <3>5. AnswersMatchTraces' /\ LateRequestsStop'
      BY <3>1 DEF IInv, AnswersMatchTraces, LateRequestsStop, Decided, Decides,
                  Dispatched, JobFor
    <3>6. QED
      BY <3>2, <3>3, <3>4, <3>5 DEF IInv
  <2>6. QED
    BY <2>1, <2>2, <2>3, <2>4, <2>5 DEF Next
<1>2. QED
  BY <1>1, InitInvariant, TypeInvariant, PTL DEF Spec

\* The status column and the last audit row of a proposal agree in every
\* reachable state, however many approve and skip calls overlap on it.
THEOREM AuditTrailAlwaysAgrees == Spec => []AuditTrailAgrees
<1>1. IInv => AuditTrailAgrees
  BY DEF IInv
<1>2. QED
  BY <1>1, InductiveInvariant, PTL

\* Every order request in the queue was approved before, by the proposal's
\* owner, in a committed transaction of the same call.
THEOREM JobsAlwaysAccounted == Spec => []JobsAccounted
<1>1. ASSUME IInv PROVE JobsAccounted
  <2> SUFFICES ASSUME NEW j \in jobs
               PROVE  /\ j.user = Owner[j.proposal]
                      /\ \E i \in DOMAIN trail[j.proposal] :
                            /\ trail[j.proposal][i].by = j.request
                            /\ trail[j.proposal][i].action = "APPROVE"
                            /\ trail[j.proposal][i].user = j.user
    BY DEF JobsAccounted
  <2> DEFINE r == j.request
  <2>1. /\ r \in Requests /\ j = JobFor(r) /\ Owns(r)
        /\ call[r].op = "APPROVE" /\ Decides(r)
    BY <1>1, MemberTypes DEF IInv, JobsOfRequests
  <2>2. j.proposal = call[r].id /\ j.user = call[r].user /\ call[r].id \in Proposals
    BY <1>1, <2>1, RowAndJobTypes DEF JobFor, IInv
  <2>3. PICK i \in DOMAIN trail[call[r].id] : trail[call[r].id][i].by = r
    BY <2>1 DEF Decides
  <2>4. trail[call[r].id][i] = ActionRow(r)
    BY <1>1, <2>2, <2>3 DEF IInv, RowsOfRequests
  <2>5. trail[call[r].id][i].action = "APPROVE" /\ trail[call[r].id][i].user = j.user
    BY <2>1, <2>2, <2>4 DEF ActionRow
  <2>6. QED
    BY <2>1, <2>2, <2>3, <2>5 DEF Owns
<1>2. QED
  BY <1>1, InductiveInvariant, PTL

\* No request decides twice, so a proposal never has more orders than approvals.
THEOREM OneRowPerRequestAlways == Spec => []OneRowPerRequest
<1>1. IInv => OneRowPerRequest
  BY DEF IInv
<1>2. QED
  BY <1>1, InductiveInvariant, PTL

\* The AuthError that the unions make of a committed decision never comes
\* without the record and the order behind it, and NotFoundError, FORBIDDEN and
\* RATE_LIMITED never after a trace.
THEOREM AnswersAlwaysMatchTraces == Spec => []AnswersMatchTraces
<1>1. IInv => AnswersMatchTraces
  BY DEF IInv
<1>2. QED
  BY <1>1, InductiveInvariant, PTL

\* A call received after the proposal was decided never decides it again.
THEOREM LateRequestsAlwaysLose == Spec => []LateRequestsLose
<1>1. ASSUME IInv PROVE LateRequestsLose
  <2> SUFFICES ASSUME NEW r \in late
               PROVE  ~Decides(r) /\ ~Dispatched(r) /\ answer[r] # "AuthError"
    BY DEF LateRequestsLose
  <2>1. r \in Requests /\ ~Decides(r) /\ answer[r] # "AuthError"
    BY <1>1, MemberTypes DEF IInv, LateRequestsStop
  <2>2. ~Dispatched(r)
    BY <1>1, <2>1 DEF IInv, JobsOfRequests, Dispatched, JobFor
  <2>3. QED
    BY <2>1, <2>2
<1>2. QED
  BY <1>1, InductiveInvariant, PTL

-----------------------------------------------------------------------------
(***************************************************************************)
(* The two mutations implement the ledger, for any number of proposals,    *)
(* users and concurrent requests.  Each lemma says which step of the       *)
(* ledger an action of Proposals is.                                       *)
(***************************************************************************)

\* The decision that a request's audit row stands for.
DecisionOf(r) == [by |-> r, proposal |-> call[r].id, action |-> call[r].op]

\* The ledger records a decision exactly when the request has its audit row.
LEMMA RecordedAreRows ==
    ASSUME IInv
    PROVE  /\ \A d \in Recorded :
                 d.by \in Requests /\ Decides(d.by) /\ d = DecisionOf(d.by)
           /\ \A d \in Recorded : Decided(d.proposal)
           /\ \A r \in Requests : Decides(r) => DecisionOf(r) \in Recorded
<1>1. ASSUME NEW d \in Recorded
      PROVE  /\ d.by \in Requests /\ Decides(d.by) /\ d = DecisionOf(d.by)
             /\ Decided(d.proposal)
  <2>1. d \in [by : Requests, proposal : Proposals, action : Actions]
    BY DEF Recorded
  <2>2. PICK i \in DOMAIN trail[d.proposal] : Decision(trail[d.proposal][i]) = d
    BY DEF Recorded
  <2>3. /\ trail[d.proposal][i].by = d.by
        /\ trail[d.proposal][i] = ActionRow(d.by)
        /\ d.proposal = trail[d.proposal][i].proposal
        /\ d.action = trail[d.proposal][i].action
    BY <2>1, <2>2 DEF Decision, IInv, RowsOfRequests
  <2>4. d.proposal = call[d.by].id /\ d.action = call[d.by].op
    BY <2>3 DEF ActionRow
  <2>5. Decides(d.by)
    BY <2>2, <2>3, <2>4 DEF Decides
  <2>6. d = DecisionOf(d.by)
    BY <2>1, <2>4 DEF DecisionOf
  <2>7. Decided(d.proposal)
    BY <2>1, <2>2 DEF Decided, IInv, TypeOK
  <2>8. QED
    BY <2>1, <2>5, <2>6, <2>7
<1>2. ASSUME NEW r \in Requests, Decides(r)
      PROVE  DecisionOf(r) \in Recorded
  <2>1. PICK i \in DOMAIN trail[call[r].id] : trail[call[r].id][i].by = r
    BY <1>2 DEF Decides
  <2>2. call[r].id \in Proposals /\ call[r].op \in Actions
    BY RowAndJobTypes DEF IInv
  <2>3. trail[call[r].id][i] = ActionRow(r)
    BY <2>1, <2>2 DEF IInv, RowsOfRequests
  <2>4. Decision(trail[call[r].id][i]) = DecisionOf(r)
    BY <2>3 DEF Decision, DecisionOf, ActionRow
  <2>5. DecisionOf(r).proposal = call[r].id
    BY DEF DecisionOf
  <2>6. DecisionOf(r) \in [by : Requests, proposal : Proposals, action : Actions]
    BY <2>2 DEF DecisionOf
  <2>7. QED
    BY <2>1, <2>4, <2>5, <2>6 DEF Recorded
<1>3. QED
  BY <1>1, <1>2

\* A request's ticket is for the proposal it names, while it is in the window.
LEMMA TicketsAreWindows ==
    ASSUME TypeOK
    PROVE  \A t : t \in Tickets <=>
              \E r \in Requests : pc[r] = "found" /\ t = <<r, call[r].id>>
  BY RowAndJobTypes DEF Tickets

\* An order is a job's request and proposal.
LEMMA OrdersAreJobs ==
    ASSUME IInv
    PROVE  \A o : o \in Ordered <=>
              \E r \in Requests : Dispatched(r) /\ o = <<r, call[r].id>>
<1>1. \A j \in jobs : j.request \in Requests /\ j = JobFor(j.request)
  BY MemberTypes DEF IInv, JobsOfRequests
<1>2. \A r \in Requests : /\ JobFor(r).request = r
                          /\ JobFor(r).proposal = call[r].id
                          /\ call[r].id \in Proposals
  BY RowAndJobTypes DEF JobFor, IInv
<1>3. QED
  BY <1>1, <1>2 DEF Ordered, Dispatched

-----------------------------------------------------------------------------
\* What the ledger sees of a step that leaves the tables alone.
LEMMA QuietStepIsStutter ==
    ASSUME TypeOK, TypeOK', UNCHANGED <<status, trail, jobs, call>>,
           \A r \in Requests : pc[r] = "found" <=> pc'[r] = "found"
    PROVE  UNCHANGED Ledger!vars
<1>1. OpenProposals' = OpenProposals
  BY DEF OpenProposals
<1>2. Recorded' = Recorded
  BY DEF Recorded, Decision
<1>3. Ordered' = Ordered
  BY DEF Ordered
<1>4. Tickets' = Tickets
  BY DEF Tickets
<1>5. QED
  BY <1>1, <1>2, <1>3, <1>4 DEF Ledger!vars

\* Opening the window takes a ticket on a PENDING proposal; a look-up that ends the request is a stutter.
LEMMA LookupIsConsider ==
    ASSUME IInv, IInv', NEW r \in Requests, Lookup(r)
    PROVE  Ledger!Consider(r, call[r].id) \/ UNCHANGED Ledger!vars
<1>1. CASE pc'[r] = "found"
  <2>1. /\ UNCHANGED <<status, trail, jobs, call>>
        /\ pc[r] = "admitted" /\ Selected(call[r].id)
        /\ \A q \in Requests \ {r} : pc'[q] = pc[q]
        /\ call[r].id \in Proposals
    BY <1>1, RowAndJobTypes DEF Lookup, Goto, Reply, IInv, TypeOK
  <2>2. call[r].id \in OpenProposals
    BY <2>1 DEF OpenProposals, Selected
  <2>3. ~Decides(r)
    BY <2>1, NoTraceBeforeCommit
  <2>4. ~Ledger!DecidedBy(r)
    BY <2>3, RecordedAreRows DEF Ledger!DecidedBy
  <2>5. Tickets' = Tickets \cup {<<r, call[r].id>>}
    BY <1>1, <2>1 DEF Tickets
  <2>6. UNCHANGED <<OpenProposals, Recorded, Ordered>>
    BY <2>1 DEF OpenProposals, Recorded, Decision, Ordered
  <2>7. QED
    BY <2>2, <2>4, <2>5, <2>6 DEF Ledger!Consider
<1>2. CASE pc'[r] # "found"
  BY <1>2, QuietStepIsStutter DEF Lookup, Goto, Reply, IInv, TypeOK
<1>3. QED
  BY <1>1, <1>2

\* A request that gives up its place in the window forgets its ticket.
LEMMA EndIsForget ==
    ASSUME IInv, IInv', NEW r \in Requests, DbFails(r) \/ Crash(r)
    PROVE  Ledger!Forget(r, call[r].id) \/ UNCHANGED Ledger!vars
<1>1. /\ UNCHANGED <<status, trail, jobs, call>>
      /\ pc'[r] \in {"done", "dead"}
      /\ \A q \in Requests \ {r} : pc'[q] = pc[q]
  BY DEF DbFails, Crash, Goto, Reply, IInv, TypeOK
<1>2. CASE pc[r] = "found"
  <2>1. Tickets' = Tickets \ {<<r, call[r].id>>}
    BY <1>1, <1>2 DEF Tickets
  <2>2. UNCHANGED <<OpenProposals, Recorded, Ordered>>
    BY <1>1 DEF OpenProposals, Recorded, Decision, Ordered
  <2>3. QED
    BY <2>1, <2>2 DEF Ledger!Forget
<1>3. CASE pc[r] # "found"
  BY <1>1, <1>3, QuietStepIsStutter DEF IInv
<1>4. QED
  BY <1>2, <1>3

\* The transaction turns the request's ticket into the proposal's next decision.
LEMMA CommitIsDecide ==
    ASSUME IInv, IInv', NEW r \in Requests, Commit(r)
    PROVE  Ledger!Decide(r, call[r].id, call[r].op)
<1> DEFINE t == call[r].id
<1>1. /\ pc[r] = "found" /\ ~Decides(r)
      /\ t \in Proposals /\ call[r].op \in Actions
      /\ UNCHANGED <<jobs, call>>
      /\ \A q \in Requests \ {r} : pc'[q] = pc[q]
      /\ pc'[r] \in {"committed", "done"}
  BY NoTraceBeforeCommit, RowAndJobTypes
     DEF Commit, AfterCommit, Goto, Reply, IInv, TypeOK
<1>2. <<r, t>> \in Tickets
  BY <1>1 DEF Tickets
<1>3. ~Ledger!DecidedBy(r)
  BY <1>1, RecordedAreRows DEF Ledger!DecidedBy
<1>4. Tickets' = Tickets \ {<<r, t>>}
  BY <1>1 DEF Tickets
<1>5. OpenProposals' = OpenProposals \ {t}
  <2>1. status'[t] = StatusOf(call[r].op)
    BY <1>1 DEF Commit, IInv, TypeOK
  <2>2. \A p \in Proposals \ {t} : status'[p] = status[p]
    BY <1>1 DEF Commit, IInv, TypeOK
  <2>3. status'[t] # "PENDING"
    BY <2>1 DEF StatusOf
  <2>4. QED
    BY <2>2, <2>3 DEF OpenProposals
<1>6. Recorded' = Recorded \cup {DecisionOf(r)}
  <2>1. ASSUME NEW d \in Recorded' PROVE d \in Recorded \cup {DecisionOf(r)}
    <3>1. d \in [by : Requests, proposal : Proposals, action : Actions]
      BY DEF Recorded
    <3>2. PICK i \in DOMAIN trail'[d.proposal] : Decision(trail'[d.proposal][i]) = d
      BY DEF Recorded, Decision
    <3>3. CASE i \in DOMAIN trail[d.proposal] /\ trail'[d.proposal][i] = trail[d.proposal][i]
      BY <3>1, <3>2, <3>3 DEF Recorded
    <3>4. CASE trail'[d.proposal][i] = ActionRow(r)
      BY <3>1, <3>2, <3>4 DEF Decision, DecisionOf, ActionRow
    <3>5. QED
      BY <3>1, <3>2, <3>3, <3>4, CommitExtendsTrail DEF IInv
  <2>2. ASSUME NEW d \in Recorded PROVE d \in Recorded'
    <3>1. d \in [by : Requests, proposal : Proposals, action : Actions]
      BY DEF Recorded
    <3>2. PICK i \in DOMAIN trail[d.proposal] : Decision(trail[d.proposal][i]) = d
      BY DEF Recorded
    <3>3. i \in DOMAIN trail'[d.proposal] /\ trail'[d.proposal][i] = trail[d.proposal][i]
      BY <3>1, <3>2, CommitExtendsTrail DEF IInv
    <3>4. QED
      BY <3>1, <3>2, <3>3 DEF Recorded, Decision
  <2>3. DecisionOf(r) \in Recorded'
    <3>1. Len(trail'[t]) \in DOMAIN trail'[t] /\ trail'[t][Len(trail'[t])] = ActionRow(r)
      BY CommitExtendsTrail DEF IInv
    <3>2. Decision(ActionRow(r)) = DecisionOf(r)
      BY DEF Decision, DecisionOf, ActionRow
    <3>3. /\ DecisionOf(r) \in [by : Requests, proposal : Proposals, action : Actions]
          /\ DecisionOf(r).proposal = t
      BY <1>1 DEF DecisionOf
    <3>4. QED
      BY <3>1, <3>2, <3>3 DEF Recorded, Decision
  <2>4. QED
    BY <2>1, <2>2, <2>3
<1>7. Ordered' = Ordered
  BY <1>1 DEF Ordered
<1>8. QED
  BY <1>2, <1>3, <1>4, <1>5, <1>6, <1>7 DEF Ledger!Decide, DecisionOf

\* An accepted job is an order for a recorded approval; a refused one is a stutter.
LEMMA DispatchIsOrder ==
    ASSUME IInv, IInv', NEW r \in Requests, Dispatch(r)
    PROVE  Ledger!Order(r, call[r].id) \/ UNCHANGED Ledger!vars
<1> DEFINE t == call[r].id
<1>1. /\ UNCHANGED <<status, trail, call>>
      /\ pc[r] = "committed" /\ pc'[r] = "done"
      /\ \A q \in Requests \ {r} : pc'[q] = pc[q]
      /\ jobs' = jobs \/ jobs' = jobs \cup {JobFor(r)}
      /\ t \in Proposals
  BY RowAndJobTypes DEF Dispatch, Reply, IInv, TypeOK
<1>2. CASE jobs' = jobs
  BY <1>1, <1>2, QuietStepIsStutter DEF IInv
<1>3. CASE jobs' = jobs \cup {JobFor(r)}
  <2>1. Decides(r) /\ call[r].op = "APPROVE"
    BY <1>1 DEF IInv, PcMeaning
  <2>2. [by |-> r, proposal |-> t, action |-> "APPROVE"] \in Recorded
    BY <2>1, RecordedAreRows DEF DecisionOf
  <2>3. ~Dispatched(r)
    <3>1. JobFor(r).request = r
      BY DEF JobFor
    <3>2. QED
      BY <1>1, <3>1 DEF IInv, JobsOfRequests, Dispatched
  <2>4. <<r, t>> \notin Ordered
    BY <2>3, OrdersAreJobs
  <2>5. Ordered' = Ordered \cup {<<r, t>>}
    <3>1. JobFor(r).request = r /\ JobFor(r).proposal = t
      BY DEF JobFor
    <3>2. QED
      BY <1>1, <1>3, <3>1 DEF Ordered
  <2>6. UNCHANGED <<OpenProposals, Tickets, Recorded>>
    BY <1>1 DEF OpenProposals, Tickets, Recorded, Decision
  <2>7. QED
    BY <2>2, <2>4, <2>5, <2>6 DEF Ledger!Order
<1>4. QED
  BY <1>1, <1>2, <1>3

\* What the workers do to a proposal is what the ledger lets them do.
LEMMA WorkersOpenAndShut ==
    ASSUME IInv, NEW p \in Proposals, Propose(p) \/ Close(p)
    PROVE  Ledger!Open(p) \/ Ledger!Shut(p)
<1>1. UNCHANGED <<Tickets, Recorded, Ordered>>
  BY DEF Propose, Close, Tickets, Recorded, Decision, Ordered
<1>2. CASE Propose(p)
  <2>1. ~Decided(p)
    BY <1>2 DEF Propose, IInv, AuditTrailAgrees, StatusOf
  <2>2. ~Ledger!DecidedOn(p)
    BY <2>1, RecordedAreRows DEF Ledger!DecidedOn
  <2>3. OpenProposals' = OpenProposals \cup {p}
    BY <1>2 DEF Propose, OpenProposals, IInv, TypeOK
  <2>4. QED
    BY <1>1, <2>2, <2>3 DEF Ledger!Open
<1>3. CASE Close(p)
  <2>1. OpenProposals' = OpenProposals \ {p}
    BY <1>3 DEF Close, OpenProposals, IInv, TypeOK
  <2>2. QED
    BY <1>1, <2>1 DEF Ledger!Shut
<1>4. QED
  BY <1>2, <1>3

-----------------------------------------------------------------------------
\* approveProposal and skipProposal, however many calls overlap and whatever
\* fails, do no more than the ledger allows: a decision needs a ticket taken
\* while the proposal was open, a request decides once, an order needs the same
\* request's approval, and a decided proposal is never offered again.
THEOREM MutationsImplementLedger == Spec => ImplementsLedger
<1>1. Init => Ledger!Init
  <2> SUFFICES ASSUME Init PROVE Ledger!Init
    OBVIOUS
  <2>1. OpenProposals = {} /\ Tickets = {} /\ Ordered = {}
    BY DEF Init, OpenProposals, Tickets, Ordered
  <2>2. Recorded = {}
    BY DEF Init, Recorded
  <2>3. QED
    BY <2>1, <2>2 DEF Ledger!Init
<1>2. IInv /\ IInv' /\ [Next]_vars => [Ledger!Next]_(Ledger!vars)
  <2> SUFFICES ASSUME IInv, IInv', [Next]_vars
               PROVE  Ledger!Next \/ UNCHANGED Ledger!vars
    OBVIOUS
  <2>1. \A r \in Requests : call[r].id \in Proposals /\ call[r].op \in Ledger!Actions
    BY RowAndJobTypes DEF IInv, Actions, Ledger!Actions
  <2>2. ASSUME NEW r \in Requests, Receive(r) PROVE UNCHANGED Ledger!vars
    BY <2>2, QuietStepIsStutter DEF Receive, Goto, Reply, IInv, TypeOK
  <2>3. ASSUME NEW r \in Requests, Lookup(r)
        PROVE  Ledger!Next \/ UNCHANGED Ledger!vars
    BY <2>1, <2>3, LookupIsConsider DEF Ledger!Next
  <2>4. ASSUME NEW r \in Requests, DbFails(r) \/ Crash(r)
        PROVE  Ledger!Next \/ UNCHANGED Ledger!vars
    BY <2>1, <2>4, EndIsForget DEF Ledger!Next
  <2>5. ASSUME NEW r \in Requests, Commit(r) PROVE Ledger!Next
    BY <2>1, <2>5, CommitIsDecide DEF Ledger!Next
  <2>6. ASSUME NEW r \in Requests, Dispatch(r)
        PROVE  Ledger!Next \/ UNCHANGED Ledger!vars
    BY <2>1, <2>6, DispatchIsOrder DEF Ledger!Next
  <2>7. ASSUME NEW p \in Proposals, Propose(p) \/ Close(p) PROVE Ledger!Next
    BY <2>7, WorkersOpenAndShut DEF Ledger!Next
  <2>8. CASE UNCHANGED vars
    BY <2>8, QuietStepIsStutter DEF vars, IInv
  <2>9. QED
    BY <2>2, <2>3, <2>4, <2>5, <2>6, <2>7, <2>8
       DEF Next, ApproveProposal, SkipProposal
<1>3. QED
  BY <1>1, <1>2, InductiveInvariant, PTL DEF Spec, ImplementsLedger, Ledger!Spec

-----------------------------------------------------------------------------
(***************************************************************************)
(* The ledger keeps its own promise, and the mutations inherit it.         *)
(***************************************************************************)
LEMMA LedgerKeepsSound ==
    ASSUME Ledger!TypeOK, Ledger!LedgerSound, [Ledger!Next]_(Ledger!vars)
    PROVE  Ledger!TypeOK' /\ Ledger!LedgerSound'
<1> USE DEF Ledger!TypeOK, Ledger!LedgerSound, Ledger!DecidedBy, Ledger!DecidedOn
<1>1. ASSUME NEW p \in Proposals, Ledger!Open(p) \/ Ledger!Shut(p)
      PROVE  Ledger!TypeOK' /\ Ledger!LedgerSound'
  BY <1>1 DEF Ledger!Open, Ledger!Shut
<1>2. ASSUME NEW p \in Proposals, NEW r \in Requests,
             Ledger!Consider(r, p) \/ Ledger!Forget(r, p)
      PROVE  Ledger!TypeOK' /\ Ledger!LedgerSound'
  BY <1>2 DEF Ledger!Consider, Ledger!Forget
<1>3. ASSUME NEW p \in Proposals, NEW r \in Requests, Ledger!Order(r, p)
      PROVE  Ledger!TypeOK' /\ Ledger!LedgerSound'
  BY <1>3 DEF Ledger!Order
<1>4. ASSUME NEW p \in Proposals, NEW r \in Requests, NEW a \in Ledger!Actions,
             Ledger!Decide(r, p, a)
      PROVE  Ledger!TypeOK' /\ Ledger!LedgerSound'
  <2>1. Ledger!TypeOK'
    BY <1>4 DEF Ledger!Decide, Ledger!Decisions
  <2>2. \A d, e \in Recorded' : d.by = e.by => d = e
    BY <1>4 DEF Ledger!Decide
  <2>3. /\ \A o \in Ordered' :
              [by |-> o[1], proposal |-> o[2], action |-> "APPROVE"] \in Recorded'
        /\ \A q \in OpenProposals' : ~\E d \in Recorded' : d.proposal = q
    BY <1>4 DEF Ledger!Decide
  <2>4. QED
    BY <2>1, <2>2, <2>3
<1>5. CASE UNCHANGED Ledger!vars
  BY <1>5 DEF Ledger!vars
<1>6. QED
  BY <1>1, <1>2, <1>3, <1>4, <1>5 DEF Ledger!Next

\* Whatever implements the ledger decides once per request, orders only what the
\* same request approved, and never offers a decided proposal again.
THEOREM LedgerAlwaysSound == Ledger!Spec => [](Ledger!TypeOK /\ Ledger!LedgerSound)
<1>1. Ledger!Init => Ledger!TypeOK /\ Ledger!LedgerSound
  BY DEF Ledger!Init, Ledger!TypeOK, Ledger!LedgerSound
<1>2. QED
  BY <1>1, LedgerKeepsSound, PTL DEF Ledger!Spec

\* So do approveProposal and skipProposal.
THEOREM MutationsAlwaysSound == Spec => []Ledger!LedgerSound
  BY MutationsImplementLedger, LedgerAlwaysSound, PTL DEF ImplementsLedger
=============================================================================
