\* Three requests and two deliveries at a time for one person, two failures.
SPECIFICATION FairSpec
CONSTANTS
    None = None
    Subjects = {s1}
    Requests = {r1, r2, r3}
    Deliveries = {d1, d2}
    MaxFailures = 2
INVARIANTS
    TypeOK
    OneIdentity
PROPERTIES
    
    EventuallyProvisioned
