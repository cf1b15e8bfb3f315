\* Two calls of the owner.
SPECIFICATION Spec
CONSTANTS
    alice = alice
    r1 = r1
    r2 = r2
    Bots = {b1}
    Users = {alice}
    Requests = {r1, r2}
    Owner <- MCOwner
INVARIANT StandDownLasts
