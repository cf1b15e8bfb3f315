\* Two concurrent calls, of the owner or of somebody else, any mix of operations, on
\* a bot that is in any state when they start.
SPECIFICATION FairSpec
CONSTANTS
    alice = alice
    r1 = r1
    r2 = r2
    Bots = {b1}
    Users = {alice, bob}
    Requests = {r1, r2}
    Owner <- MCOwner
CONSTRAINT Bounds
INVARIANTS
    TypeOK
    ChecksHeldDuringCall
    AnswersTruthful
PROPERTIES
    RevivedOnlyByStaleCall
    UnpaidOnlyByLateWrite
    ImplementsEntitlement
    CallsEnd
