\* A paid tier and then the free trial.
SPECIFICATION Spec
CONSTANTS
    None = None
    Requests = {r1, r2}
    Events = {e1}
    Handlers = {h1}
INVARIANT TrialHasNoSubscription
CHECK_DEADLOCK FALSE
