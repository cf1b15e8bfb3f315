\* Safety: two concurrent calls, two events, two deliveries at a time.
SPECIFICATION Spec
CONSTANTS
    None = None
    Requests = {r1, r2}
    Events = {e1, e2}
    Handlers = {h1, h2}
SYMMETRY Symmetry
VIEW Shown
INVARIANTS
    TypeOK
    EventEffectOnce
    SuspensionNeedsTwoFailures
    RowCoherent
    CancelStopsBilling
    AckedAccounted
PROPERTIES
    RevivedOnlyByNews
    ImplementsEntitlement
