\* Two calls of the owner that overlap.
SPECIFICATION Spec
CONSTANTS
    alice = alice
    Proposals = {p1}
    Users = {alice}
    Requests = {r1, r2}
    Owner <- MCOwner
INVARIANT ActionedOnce
CHECK_DEADLOCK FALSE
