\* Two requests, any two of the documents, and two writes of others.
SPECIFICATION Spec
CONSTANTS
    b1 = b1
    b2 = b2
    Bots = {b1, b2}
    User = User
    r1 = r1
    r2 = r2
    Requests = {r1, r2}
    Traffic <- MCTraffic
    Null = Null
    MaxWrites = 2
INVARIANTS
    TypeOK
    ReadsAreRecent
    OneAnswer
    OwnWriteShown
CHECK_DEADLOCK FALSE
