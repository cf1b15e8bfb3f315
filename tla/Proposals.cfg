\* Three concurrent calls, any mix of operations, callers and targets.
SPECIFICATION FairSpec
CONSTANTS
    alice = alice
    Proposals = {p1}
    Users = {alice, bob}
    Requests = {r1, r2, r3}
    Owner <- MCOwner
INVARIANTS
    TypeOK
    AuditTrailAgrees
    JobsAccounted
    OneRowPerRequest
    AnswersMatchTraces
    LateRequestsLose
PROPERTIES
    CallsEnd
    ImplementsLedger
CHECK_DEADLOCK FALSE
