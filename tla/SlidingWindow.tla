----------------------------- MODULE SlidingWindow -----------------------------
(***************************************************************************)
(* The sliding-window rate limiter: the Lua script in Valkey, and the two  *)
(* callers (the HTTP middleware and withOpRateLimit) that hand it a time   *)
(* and a member.  One key, that is one caller of one operation.            *)
(*                                                                         *)
(* The script is atomic, but the time it works with is not Valkey's: each  *)
(* API server stamps the request with its own clock before it sends it.    *)
(* Nor is a call of the script one execution: when the connection breaks   *)
(* before the reply, the script may have run, and it may run again.        *)
(***************************************************************************)
EXTENDS Integers, FiniteSets

CONSTANTS
    Requests,
    Members,  \* correlation ids
    Member,   \* the correlation id of each request
    Skews,    \* how far ahead the servers' clocks are
    Limit,    \* requests allowed ...
    Window,   \* ... per so many units of time
    Drift,    \* assumption: how far a stamp is from the time of its evaluation
    MaxTime   \* bound on the time

ASSUME MemberAssumption == Member \in [Requests -> Members]
ASSUME TimeAssumption ==
    /\ Limit \in Nat /\ Window \in Nat /\ Drift \in Nat /\ MaxTime \in Nat
    /\ Skews \subseteq -Drift .. Drift

VARIABLES
    now,       \* real time, and Valkey's
    zset,      \* the sorted set: records of a member and its score
    expireAt,  \* when Valkey drops the key
    pc, stamp,
    at,        \* history: when each request was evaluated
    recorded   \* history: requests that the script has added

vars == <<now, zset, expireAt, pc, stamp, at, recorded>>

-----------------------------------------------------------------------------
Init ==
    /\ now = 0
    /\ zset = {}
    /\ expireAt = 0
    /\ pc = [r \in Requests |-> "idle"]
    /\ stamp = [r \in Requests |-> 0]
    /\ at = [r \in Requests |-> 0]
    /\ recorded = {}

\* const now = Date.now(), on a server whose clock is off by some skew.
Stamp(r) ==
    /\ pc[r] = "idle"
    /\ pc' = [pc EXCEPT ![r] = "stamped"]
    /\ \E skew \in Skews : stamp' = [stamp EXCEPT ![r] = now + skew]
    /\ UNCHANGED <<now, zset, expireAt, at, recorded>>

\* The key as the script finds it: gone once it has expired.
Stored == IF now < expireAt THEN zset ELSE {}

\* ZREMRANGEBYSCORE key -inf cutoff, with the cutoff inclusive.
Pruned(r) == {z \in Stored : z.score > stamp[r] - Window}

\* Fault: the script swaps ZADD's score and member.
FaultSwapped(r) == Pruned(r) \cup {[member |-> stamp[r], score |-> Member[r]]}

\* ZADD: a member that is there already only gets the new score.
ZAdd(r) ==
    {z \in Pruned(r) : z.member # Member[r]}
        \cup {[member |-> Member[r], score |-> stamp[r]]}

\* Fault: the request is recorded before it is counted out.
FaultAlwaysRecorded(r) ==
    /\ zset' = ZAdd(r)
    /\ expireAt' = now + Window + 1

\* A rejected request prunes, and that is all: the counter does not advance.
Rejection(r) ==
    /\ zset' = Pruned(r)
    /\ UNCHANGED expireAt

\* Fault: the time to live is set once, when the key is created.
FaultExpireOnce(r) ==
    /\ zset' = ZAdd(r)
    /\ expireAt' = IF now < expireAt THEN expireAt ELSE now + Window + 1

Admission(r) ==
    /\ zset' = ZAdd(r)
    /\ expireAt' = now + Window + 1

Full(r) == Cardinality(Pruned(r)) >= Limit

\* One execution of the script.
Script(r) ==
    /\ pc[r] = "stamped"
    /\ IF Full(r) THEN Rejection(r) ELSE Admission(r)
    /\ recorded' = IF Full(r) THEN recorded ELSE recorded \cup {r}

\* What the caller makes of the count.
Verdict(r) == IF Full(r) THEN "rejected" ELSE "admitted"

\* One eval of the script, and the caller's comparison of the count it returns.
Evaluate(r) ==
    /\ Script(r)
    /\ pc' = [pc EXCEPT ![r] = Verdict(r)]
    /\ at' = [at EXCEPT ![r] = now]
    /\ UNCHANGED <<now, stamp>>

\* The script runs, and the connection breaks before the reply is there.  The eval
\* is still pending: ioredis sends it again over the next connection ...
ReplyLost(r) ==
    /\ Script(r)
    /\ UNCHANGED <<now, pc, stamp, at>>

\* ... or gives it up, as when Valkey cannot be reached.  The caller gets an error,
\* whether the script has run or not.
EvalFails(r) ==
    /\ pc[r] = "stamped"
    /\ pc' = [pc EXCEPT ![r] = "failed"]
    /\ UNCHANGED <<now, zset, expireAt, stamp, at, recorded>>

\* Time passes.  Clocks and queues are assumed good enough that no stamp is
\* further than Drift from the time it is used at; no code enforces it.
Near(s, t) == s - t \in -Drift .. Drift

Tick ==
    /\ now < MaxTime
    /\ \A r \in Requests : pc[r] = "stamped" => Near(stamp[r], now + 1)
    /\ now' = now + 1
    /\ UNCHANGED <<zset, expireAt, pc, stamp, at, recorded>>

Next ==
    \/ Tick
    \/ \E r \in Requests : Stamp(r) \/ Evaluate(r) \/ ReplyLost(r) \/ EvalFails(r)

Spec == Init /\ [][Next]_vars

-----------------------------------------------------------------------------
(***************************************************************************)
(* Properties.                                                             *)
(***************************************************************************)
TypeOK ==
    /\ now \in 0..MaxTime
    /\ zset \subseteq [member : Members, score : Int]
    /\ expireAt \in Nat
    /\ pc \in [Requests -> {"idle", "stamped", "admitted", "rejected", "failed"}]
    /\ stamp \in [Requests -> Int]
    /\ at \in [Requests -> 0..MaxTime]
    /\ recorded \subseteq Requests

Admitted == {r \in Requests : pc[r] = "admitted"}

\* The limit holds in real time, from whatever instant one starts to count: as
\* every stamp may be off by Drift, for spans a little shorter than the window.
NeverOverLimit ==
    \A t \in 0..MaxTime :
        Cardinality({r \in Admitted : at[r] >= t /\ at[r] < t + Window - 2 * Drift})
            <= Limit

\* Nobody is turned away for less than a full window: when a request is rejected,
\* as many as the limit are recorded inside its window.  Those are requests that
\* the script had room for: they were admitted, or their reply was lost, and then
\* they count whatever their caller was told, the request itself among them.  One
\* that the script rejected does not count.
RejectionJustified ==
    [][\A r \in Requests :
          pc[r] # "rejected" /\ pc'[r] = "rejected" =>
              Cardinality({q \in recorded : stamp[q] > stamp[r] - Window}) >= Limit]_vars
=============================================================================
