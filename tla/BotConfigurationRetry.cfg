\* A call of createBot and its repetition.
SPECIFICATION Spec
CONSTANTS
    None = None
    Creates = {c1, c2}
    Updates = {}
    Names = {n1}
    Providers = {"anthropic"}
    Allowed = {"anthropic"}
INVARIANT CreatedOnce
CHECK_DEADLOCK FALSE
