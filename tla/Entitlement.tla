------------------------------ MODULE Entitlement ------------------------------
(***************************************************************************)
(* What the code that bills and the code that runs bots may rely on of     *)
(* each other, for each user: the standing of the subscription, and        *)
(* whether the user has ACTIVE bots.                                       *)
(*                                                                         *)
(* Billing grants and lapses.  A lapse looks for ACTIVE bots, and when it  *)
(* becomes visible the bots it found are stopped with it: what goes on are *)
(* bots that became ACTIVE in between, and the code promises no more.      *)
(* Everything else starts and stops bots and leaves the standing alone.    *)
(* Billing implements it for its one user, with the starting of bots as    *)
(* somebody else's step; BotLifecycle for all of its users, with granting  *)
(* and lapsing as somebody else's.                                         *)
(***************************************************************************)
CONSTANT Users

VARIABLES
    standing,  \* of the subscription of each user
    trading,   \* users with ACTIVE bots
    open,      \* users with a lapse that has looked and is not visible yet
    late       \* those of them with a bot that has become ACTIVE since

vars == <<standing, trading, open, late>>

-----------------------------------------------------------------------------
Standings == {"none", "entitled", "lapsed"}

\* A bot needs no subscription to be there.
Init ==
    /\ standing = [u \in Users |-> "none"]
    /\ trading \in SUBSET Users
    /\ open = {} /\ late = {}

\* A tier is selected, or an event of a payment counted: no bot is touched.
Grant(u) ==
    /\ u \notin open
    /\ standing' = [standing EXCEPT ![u] = "entitled"]
    /\ UNCHANGED <<trading, open, late>>

\* A subscription that exists is to be cancelled or suspended, perhaps once more.
Look(u) ==
    /\ standing[u] # "none" /\ u \notin open
    /\ open' = open \cup {u}
    /\ UNCHANGED <<standing, trading, late>>

Close(u) ==
    /\ u \in open
    /\ open' = open \ {u}
    /\ late' = late \ {u}

Lapse(u) ==
    /\ Close(u)
    /\ standing' = [standing EXCEPT ![u] = "lapsed"]
    /\ trading' = IF u \in late THEN trading ELSE trading \ {u}

GiveUp(u) == Close(u) /\ UNCHANGED <<standing, trading>>

\* A bot of the user becomes ACTIVE.
Start(u) ==
    /\ trading' = trading \cup {u}
    /\ late' = IF u \in open THEN late \cup {u} ELSE late
    /\ UNCHANGED <<standing, open>>

\* One ceases to be, which may be the last of them, or of the late ones.
Stop(u) ==
    /\ trading' \in {trading, trading \ {u}}
    /\ late' \in {late, late \ {u}} /\ late' \subseteq trading'
    /\ UNCHANGED <<standing, open>>

Bill(u) == Grant(u) \/ Look(u) \/ Lapse(u) \/ GiveUp(u)

RunBots(u) == Start(u) \/ Stop(u)

Next == \E u \in Users : Bill(u) \/ RunBots(u)

Spec == Init /\ [][Next]_vars
=============================================================================
