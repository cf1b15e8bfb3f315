\* One bot, two updates of it that overlap, any mix.
SPECIFICATION Spec
CONSTANTS
    None = None
    Creates = {c1}
    Updates = {u1, u2}
    Names = {n1}
    Providers = {"anthropic", "openai", "groq"}
    Allowed = {"anthropic", "openai"}
INVARIANTS
    TypeOK
    NoOrphans
    IdentityNotMixed
    BrainSettled
CHECK_DEADLOCK FALSE
