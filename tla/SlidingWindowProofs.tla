-------------------------- MODULE SlidingWindowProofs --------------------------
(***************************************************************************)
(* Theorems about SlidingWindow, for any number of requests, any limit,    *)
(* window and drift.  What the script limits is the number of different    *)
(* members; it limits requests only as far as their members are different. *)
(***************************************************************************)
EXTENDS SlidingWindow, FiniteSetTheorems, TLAPS

\* The correlation id is "unique per request" (operationRateLimit.ts).
UniqueMembers == \A q, r \in Requests : Member[q] = Member[r] => q = r

\* What NeverOverLimit counts, and the members that it stands for.
Within(t) == {r \in Admitted : at[r] >= t /\ at[r] < t + Window - 2 * Drift}
MembersWithin(t) == {Member[r] : r \in Within(t)}

-----------------------------------------------------------------------------
(***************************************************************************)
(* The invariant.                                                          *)
(***************************************************************************)

\* Tick keeps the stamps that are under way close to the time.
StampsNear == \A r \in Requests : pc[r] = "stamped" => Near(stamp[r], now)

\* An entry is the latest recorded request of its member.
EntriesRecorded ==
    \A z \in zset : \E q \in recorded : z.member = Member[q] /\ z.score = stamp[q]

RecordedStamped == \A q \in recorded : pc[q] # "idle"

\* An admitted request is in the set while it counts, itself or as a later one
\* of its member ...
EntriesLast ==
    \A q \in Admitted : now < at[q] + Window - 2 * Drift =>
        \E z \in zset : z.member = Member[q] /\ z.score >= at[q] - Drift

\* ... and the key does not expire before.
KeyLasts == \A q \in Admitted : at[q] <= now /\ at[q] + Window < expireAt

FiniteCounts == IsFiniteSet(zset) /\ IsFiniteSet(Admitted) /\ IsFiniteSet(recorded)

MembersNeverOverLimit == \A t \in 0..MaxTime : Cardinality(MembersWithin(t)) <= Limit

IInv ==
    /\ TypeOK /\ FiniteCounts /\ StampsNear
    /\ EntriesRecorded /\ RecordedStamped /\ EntriesLast /\ KeyLasts
    /\ MembersNeverOverLimit

-----------------------------------------------------------------------------
\* An element more adds one at most.
LEMMA OneMore ==
    ASSUME NEW S, NEW x, IsFiniteSet(S)
    PROVE  /\ IsFiniteSet(S \cup {x})
           /\ Cardinality(S) \in Nat
           /\ Cardinality(S \cup {x}) \in Nat
           /\ Cardinality(S \cup {x}) <= Cardinality(S) + 1
<1>1. IsFiniteSet(S \cup {x})
  BY FS_AddElement
<1>2. Cardinality(S) \in Nat /\ Cardinality(S \cup {x}) \in Nat
  BY <1>1, FS_CardinalityType
<1>3. Cardinality(S \cup {x}) = IF x \in S THEN Cardinality(S) ELSE Cardinality(S) + 1
  BY FS_AddElement
<1>4. QED
  BY <1>1, <1>2, <1>3

LEMMA InitIInv == Init => IInv
<1> SUFFICES ASSUME Init PROVE IInv
  OBVIOUS
<1>1. Admitted = {} /\ zset = {} /\ recorded = {}
  BY DEF Init, Admitted
<1>2. TypeOK
  BY TimeAssumption DEF Init, TypeOK
<1>3. FiniteCounts
  BY <1>1, FS_EmptySet DEF FiniteCounts
<1>4. StampsNear /\ EntriesRecorded /\ RecordedStamped /\ EntriesLast /\ KeyLasts
  BY <1>1 DEF Init, StampsNear, EntriesRecorded, RecordedStamped, EntriesLast, KeyLasts
<1>5. MembersNeverOverLimit
  <2> SUFFICES ASSUME NEW t \in 0..MaxTime
               PROVE  Cardinality(MembersWithin(t)) <= Limit
    BY DEF MembersNeverOverLimit
  <2>1. MembersWithin(t) = {}
    BY <1>1 DEF MembersWithin, Within
  <2>2. QED
    BY <2>1, FS_EmptySet, TimeAssumption
<1>6. QED
  BY <1>2, <1>3, <1>4, <1>5 DEF IInv

\* What a request is called by, and what it is recorded as.
LEMMA EntryTypes ==
    ASSUME TypeOK
    PROVE  /\ \A r \in Requests : Member[r] \in Members /\ stamp[r] \in Int
           /\ \A z \in zset : z.member \in Members /\ z.score \in Int
           /\ \A q \in Admitted : q \in Requests /\ at[q] \in Int /\ stamp[q] \in Int
           /\ \A q \in recorded : q \in Requests
           /\ now \in Int /\ expireAt \in Int
           /\ Window \in Int /\ Drift \in Int /\ Limit \in Int
  BY MemberAssumption, TimeAssumption DEF TypeOK, Admitted

\* Steps that admit nobody and leave the key alone: only time may have passed.
LEMMA QuietStep ==
    ASSUME IInv, TypeOK', StampsNear', now <= now',
           UNCHANGED <<zset, expireAt, at, recorded>>, UNCHANGED Admitted,
           \A q \in recorded : stamp'[q] = stamp[q], RecordedStamped'
    PROVE  IInv'
<1> USE EntryTypes DEF IInv
<1>1. now' \in Int
  BY TimeAssumption DEF TypeOK
<1>2. FiniteCounts' /\ EntriesRecorded'
  BY DEF FiniteCounts, EntriesRecorded
<1>3. EntriesLast'
  BY <1>1 DEF EntriesLast
<1>4. KeyLasts'
  BY <1>1 DEF KeyLasts
<1>5. MembersNeverOverLimit'
  BY DEF MembersNeverOverLimit, MembersWithin, Within
<1>6. QED
  BY <1>2, <1>3, <1>4, <1>5

-----------------------------------------------------------------------------
LEMMA StampPreserves ==
    ASSUME IInv, NEW r \in Requests, Stamp(r)
    PROVE  IInv'
<1>1. PICK skew \in Skews : stamp' = [stamp EXCEPT ![r] = now + skew]
  BY DEF Stamp
<1>2. skew \in -Drift .. Drift /\ now \in Int
  BY TimeAssumption DEF IInv, TypeOK
<1>3. TypeOK'
  BY <1>1, <1>2, TimeAssumption DEF Stamp, IInv, TypeOK
<1>4. StampsNear'
  BY <1>1, <1>2, TimeAssumption DEF Stamp, StampsNear, Near, IInv, TypeOK
<1>5. /\ Admitted' = Admitted /\ RecordedStamped'
      /\ \A q \in recorded : stamp'[q] = stamp[q]
  BY <1>1 DEF Stamp, Admitted, RecordedStamped, IInv, TypeOK
<1>6. QED
  BY <1>2, <1>3, <1>4, <1>5, QuietStep DEF Stamp

LEMMA EvalFailsPreserves ==
    ASSUME IInv, NEW r \in Requests, EvalFails(r)
    PROVE  IInv'
<1>1. TypeOK'
  BY DEF EvalFails, IInv, TypeOK
<1>2. StampsNear'
  BY DEF EvalFails, StampsNear, Near, IInv, TypeOK
<1>3. Admitted' = Admitted /\ RecordedStamped'
  BY DEF EvalFails, Admitted, RecordedStamped, IInv, TypeOK
<1>4. QED
  BY <1>1, <1>2, <1>3, QuietStep, TimeAssumption DEF EvalFails, IInv, TypeOK

LEMMA TickPreserves ==
    ASSUME IInv, Tick
    PROVE  IInv'
<1>1. TypeOK'
  BY TimeAssumption DEF Tick, IInv, TypeOK
<1>2. StampsNear'
  BY DEF Tick, StampsNear, Near
<1>3. Admitted' = Admitted /\ RecordedStamped'
  BY DEF Tick, Admitted, RecordedStamped, IInv
<1>4. QED
  BY <1>1, <1>2, <1>3, QuietStep, TimeAssumption DEF Tick, IInv, TypeOK

-----------------------------------------------------------------------------
(***************************************************************************)
(* The script.                                                             *)
(***************************************************************************)
LEMMA PrunedIsFinite ==
    ASSUME IInv, NEW r \in Requests
    PROVE  IsFiniteSet(Pruned(r)) /\ Cardinality(Pruned(r)) \in Nat
<1>1. Pruned(r) \subseteq zset
  BY DEF Pruned, Stored
<1>2. QED
  BY <1>1, FS_Subset, FS_CardinalityType DEF IInv, FiniteCounts

\* Pruning by a stamp that is off by Drift keeps whoever is still in the window.
LEMMA PruningKeeps ==
    ASSUME IInv, NEW r \in Requests, pc[r] = "stamped",
           NEW q \in Admitted, now < at[q] + Window - 2 * Drift
    PROVE  \E z \in Pruned(r) : z.member = Member[q] /\ z.score >= at[q] - Drift
<1> USE EntryTypes, TimeAssumption DEF IInv
<1>1. PICK z \in zset : z.member = Member[q] /\ z.score >= at[q] - Drift
  BY DEF EntriesLast
<1>2. now < expireAt
  BY DEF KeyLasts
<1>3. stamp[r] <= now + Drift
  BY DEF StampsNear, Near
<1>4. z.score > stamp[r] - Window
  BY <1>1, <1>3
<1>5. QED
  BY <1>1, <1>2, <1>4 DEF Pruned, Stored

\* The members inside a window are not more than the script counts.
LEMMA WindowIsCounted ==
    ASSUME IInv, NEW r \in Requests, pc[r] = "stamped",
           NEW t \in 0..MaxTime, t <= now, now < t + Window - 2 * Drift
    PROVE  /\ IsFiniteSet(MembersWithin(t))
           /\ Cardinality(MembersWithin(t)) <= Cardinality(Pruned(r))
<1> DEFINE M == {z.member : z \in Pruned(r)}
           f == [z \in Pruned(r) |-> z.member]
<1>1. MembersWithin(t) \subseteq M
  <2> SUFFICES ASSUME NEW q \in Within(t) PROVE Member[q] \in M
    BY DEF MembersWithin
  <2>1. q \in Admitted /\ now < at[q] + Window - 2 * Drift
    BY EntryTypes, TimeAssumption DEF Within, IInv
  <2>2. QED
    BY <2>1, PruningKeeps
<1>2. f \in Surjection(Pruned(r), M)
  BY DEF Surjection
<1>3. IsFiniteSet(M) /\ Cardinality(M) <= Cardinality(Pruned(r))
  BY <1>2, PrunedIsFinite, FS_Surjection
<1>4. /\ IsFiniteSet(MembersWithin(t))
      /\ Cardinality(MembersWithin(t)) <= Cardinality(M)
  BY <1>1, <1>3, FS_Subset
<1>5. QED
  BY <1>3, <1>4, PrunedIsFinite, FS_CardinalityType

\* An execution without room only prunes, and one with room adds one entry, with
\* the stamp of the request it stands for; whatever then becomes of the request.
LEMMA ScriptPreserves ==
    ASSUME IInv, NEW r \in Requests, Script(r), now' = now, stamp' = stamp,
           NEW label \in {"stamped", "admitted", "rejected"}, pc' = [pc EXCEPT ![r] = label],
           at' = at \/ at' = [at EXCEPT ![r] = now]
    PROVE  /\ TypeOK' /\ StampsNear' /\ EntriesRecorded' /\ RecordedStamped'
           /\ IsFiniteSet(zset') /\ IsFiniteSet(recorded')
<1> DEFINE entry == [member |-> Member[r], score |-> stamp[r]]
<1> USE EntryTypes, TimeAssumption DEF IInv
<1>1. Pruned(r) \subseteq zset
  BY DEF Pruned, Stored
<1>2. \/ zset' = Pruned(r) /\ recorded' = recorded /\ expireAt' = expireAt
      \/ /\ zset' = {z \in Pruned(r) : z.member # Member[r]} \cup {entry}
         /\ recorded' = recorded \cup {r} /\ expireAt' = now + Window + 1
  BY DEF Script, Rejection, Admission, ZAdd
<1>3. TypeOK'
  <2>1. entry \in [member : Members, score : Int]
    BY MemberAssumption DEF TypeOK
  <2>2. zset' \subseteq [member : Members, score : Int]
    BY <1>1, <1>2, <2>1 DEF TypeOK
  <2>3. QED
    BY <1>2, <2>2 DEF TypeOK
<1>4. StampsNear'
  BY DEF Script, StampsNear, Near, TypeOK
<1>5. EntriesRecorded' /\ RecordedStamped'
  BY <1>1, <1>2 DEF EntriesRecorded, RecordedStamped, Script, TypeOK
<1>6. IsFiniteSet(recorded')
  <2>1. IsFiniteSet(recorded \cup {r})
    BY OneMore DEF FiniteCounts
  <2>2. QED
    BY <1>2, <2>1 DEF FiniteCounts
<1>7. IsFiniteSet(zset')
  <2>1. {z \in Pruned(r) : z.member # Member[r]} \subseteq Pruned(r)
    OBVIOUS
  <2>2. IsFiniteSet({z \in Pruned(r) : z.member # Member[r]})
    BY <2>1, PrunedIsFinite, FS_Subset
  <2>3. IsFiniteSet({z \in Pruned(r) : z.member # Member[r]} \cup {entry})
    BY <2>2, OneMore
  <2>4. IsFiniteSet(Pruned(r))
    BY PrunedIsFinite
  <2>5. QED
    BY <1>2, <2>3, <2>4
<1>8. QED
  BY <1>3, <1>4, <1>5, <1>6, <1>7

\* Nor does an execution take the entry of a request that still counts, unless to
\* replace it with a later one of the same member.
LEMMA ScriptKeeps ==
    ASSUME IInv, NEW r \in Requests, Script(r),
           NEW q \in Admitted, now < at[q] + Window - 2 * Drift
    PROVE  \E z \in zset' : z.member = Member[q] /\ z.score >= at[q] - Drift
<1> DEFINE entry == [member |-> Member[r], score |-> stamp[r]]
<1> USE EntryTypes, TimeAssumption DEF IInv
<1>1. PICK z \in Pruned(r) : z.member = Member[q] /\ z.score >= at[q] - Drift
  BY PruningKeeps DEF Script
<1>2. \/ zset' = Pruned(r)
      \/ zset' = {y \in Pruned(r) : y.member # Member[r]} \cup {entry}
  BY DEF Script, Rejection, Admission, ZAdd
<1>3. CASE z \in zset'
  BY <1>1, <1>3
<1>4. CASE z \notin zset'
  <2>1. entry \in zset' /\ entry.member = Member[q]
    BY <1>1, <1>2, <1>4
  <2>2. at[q] <= now /\ stamp[r] >= now - Drift
    BY DEF KeyLasts, StampsNear, Near, Script
  <2>3. QED
    BY <2>1, <2>2
<1>5. QED
  BY <1>3, <1>4

\* Nor does the key expire any earlier.
LEMMA ScriptProlongs ==
    ASSUME IInv, NEW r \in Requests, Script(r)
    PROVE  \A q \in Admitted : at[q] <= now /\ at[q] + Window < expireAt'
BY EntryTypes, TimeAssumption DEF IInv, KeyLasts, Script, Rejection, Admission

\* An execution that admits nobody: a rejection, or one whose reply is lost.
LEMMA UnadmittedPreserves ==
    ASSUME IInv, NEW r \in Requests, (Evaluate(r) /\ Full(r)) \/ ReplyLost(r)
    PROVE  IInv'
<1> USE DEF IInv
<1>1. PICK label \in {"stamped", "rejected"} : pc' = [pc EXCEPT ![r] = label]
  BY DEF Evaluate, ReplyLost, Verdict, Script, TypeOK
<1>2. /\ Script(r) /\ UNCHANGED <<now, stamp>>
      /\ at' = at \/ at' = [at EXCEPT ![r] = now]
  BY DEF Evaluate, ReplyLost
<1>3. /\ TypeOK' /\ StampsNear' /\ EntriesRecorded' /\ RecordedStamped'
      /\ IsFiniteSet(zset') /\ IsFiniteSet(recorded')
  BY <1>1, <1>2, ScriptPreserves
<1>4. Admitted' = Admitted /\ r \notin Admitted
  BY <1>1, <1>2 DEF Script, Admitted, TypeOK
<1>5. \A q \in Admitted : at'[q] = at[q]
  BY <1>2, <1>4 DEF Admitted, TypeOK
<1>6. FiniteCounts'
  BY <1>3, <1>4 DEF FiniteCounts
<1>7. EntriesLast'
  BY <1>2, <1>4, <1>5, ScriptKeeps DEF EntriesLast
<1>8. KeyLasts'
  BY <1>2, <1>4, <1>5, ScriptProlongs DEF KeyLasts
<1>9. MembersNeverOverLimit'
  <2>1. \A t \in 0..MaxTime : Within(t)' = Within(t)
    BY <1>4, <1>5 DEF Within
  <2>2. QED
    BY <2>1 DEF MembersNeverOverLimit, MembersWithin
<1>10. QED
  BY <1>3, <1>6, <1>7, <1>8, <1>9

\* An admission adds one member to what was counted, and there was room for it.
LEMMA AdmitPreserves ==
    ASSUME IInv, NEW r \in Requests, Evaluate(r), ~Full(r)
    PROVE  IInv'
<1> USE EntryTypes, TimeAssumption DEF IInv
<1>1. /\ Script(r) /\ pc[r] = "stamped" /\ pc' = [pc EXCEPT ![r] = "admitted"]
      /\ at' = [at EXCEPT ![r] = now] /\ UNCHANGED <<now, stamp>>
  BY DEF Evaluate, Script, Verdict
<1>2. /\ zset' = {z \in Pruned(r) : z.member # Member[r]}
                     \cup {[member |-> Member[r], score |-> stamp[r]]}
      /\ expireAt' = now + Window + 1
  BY <1>1 DEF Script, Admission, ZAdd
<1>3. Admitted' = Admitted \cup {r} /\ r \notin Admitted
  BY <1>1 DEF Admitted, TypeOK
<1>4. at'[r] = now /\ \A q \in Admitted : at'[q] = at[q]
  BY <1>1, <1>3 DEF TypeOK
<1>5. /\ TypeOK' /\ StampsNear' /\ EntriesRecorded' /\ RecordedStamped'
      /\ IsFiniteSet(zset') /\ IsFiniteSet(recorded')
  BY <1>1, ScriptPreserves
<1>6. FiniteCounts'
  BY <1>3, <1>5, OneMore DEF FiniteCounts
<1>7. EntriesLast'
  <2> SUFFICES ASSUME NEW q \in Admitted', now < at'[q] + Window - 2 * Drift
               PROVE  \E z \in zset' : z.member = Member[q] /\ z.score >= at'[q] - Drift
    BY <1>1 DEF EntriesLast
  <2>1. CASE q = r
    <3>1. [member |-> Member[r], score |-> stamp[r]] \in zset'
      BY <1>2
    <3>2. stamp[r] >= at'[q] - Drift
      BY <1>1, <1>4, <2>1 DEF StampsNear, Near
    <3>3. QED
      BY <2>1, <3>1, <3>2
  <2>2. CASE q # r
    BY <1>1, <1>3, <1>4, <2>2, ScriptKeeps
  <2>3. QED
    BY <2>1, <2>2
<1>8. KeyLasts'
  BY <1>1, <1>2, <1>3, <1>4 DEF KeyLasts
<1>9. MembersNeverOverLimit'
  <2> SUFFICES ASSUME NEW t \in 0..MaxTime
               PROVE  Cardinality(MembersWithin(t)') <= Limit
    BY DEF MembersNeverOverLimit
  <2>1. CASE t <= now /\ now < t + Window - 2 * Drift
    <3>1. Within(t)' = Within(t) \cup {r}
      BY <1>3, <1>4, <2>1 DEF Within
    <3>2. MembersWithin(t)' = MembersWithin(t) \cup {Member[r]}
      BY <3>1 DEF MembersWithin
    <3>3. /\ IsFiniteSet(MembersWithin(t))
          /\ Cardinality(MembersWithin(t)) < Limit
          /\ Cardinality(MembersWithin(t)) \in Nat
      BY <1>1, <2>1, WindowIsCounted, PrunedIsFinite, FS_CardinalityType DEF Full
    <3>4. Cardinality(MembersWithin(t) \cup {Member[r]}) <= Limit
      <4>1. /\ Cardinality(MembersWithin(t) \cup {Member[r]}) \in Nat
            /\ Cardinality(MembersWithin(t) \cup {Member[r]})
                 <= Cardinality(MembersWithin(t)) + 1
        BY <3>3, OneMore
      <4>2. QED
        BY <3>3, <4>1
    <3>5. QED
      BY <3>2, <3>4, Zenon
  <2>2. CASE ~(t <= now /\ now < t + Window - 2 * Drift)
    <3>1. Within(t)' = Within(t)
      BY <1>3, <1>4, <2>2 DEF Within
    <3>2. QED
      BY <3>1 DEF MembersNeverOverLimit, MembersWithin
  <2>3. QED
    BY <2>1, <2>2
<1>10. QED
  BY <1>5, <1>6, <1>7, <1>8, <1>9

\* What is stored stands for different recorded requests, whatever their members.
LEMMA RejectionIsJustified ==
    ASSUME IInv, NEW r \in Requests, Full(r)
    PROVE  Cardinality({q \in recorded : stamp[q] > stamp[r] - Window}) >= Limit
<1> DEFINE A == {q \in recorded : stamp[q] > stamp[r] - Window}
           StandsFor(q, z) == z.member = Member[q] /\ z.score = stamp[q]
           f == [z \in Pruned(r) |-> CHOOSE q \in A : StandsFor(q, z)]
<1>1. IsFiniteSet(A)
  BY FS_Subset DEF IInv, FiniteCounts
<1>2. \A z \in Pruned(r) : \E q \in A : StandsFor(q, z)
  BY DEF Pruned, Stored, IInv, EntriesRecorded
<1>3. \A z \in Pruned(r) : f[z] \in A /\ StandsFor(f[z], z)
  BY <1>2
<1>4. \A y, z \in Pruned(r) : f[y] = f[z] => y = z
  <2>1. \A z \in Pruned(r) : z \in [member : Members, score : Int]
    BY DEF Pruned, Stored, IInv, TypeOK
  <2>2. \A y, z \in Pruned(r) : f[y] = f[z] => y.member = z.member /\ y.score = z.score
    BY <1>3
  <2> HIDE DEF f
  <2>3. QED
    BY <2>1, <2>2
<1>5. f \in Injection(Pruned(r), A)
  BY <1>3, <1>4 DEF Injection, IsInjective
<1>6. Cardinality(Pruned(r)) <= Cardinality(A)
  BY <1>1, <1>5, FS_Injection
<1>7. QED
  BY <1>1, <1>6, PrunedIsFinite, FS_CardinalityType, TimeAssumption DEF Full

-----------------------------------------------------------------------------
\* The invariant above holds in every state: what is stored are recorded
\* requests, and whoever was admitted and still counts is stored.
THEOREM SlidingWindowInvariant == Spec => []IInv
<1>1. IInv /\ [Next]_vars => IInv'
  <2> SUFFICES ASSUME IInv, [Next]_vars PROVE IInv'
    OBVIOUS
  <2>1. CASE Tick
    BY <2>1, TickPreserves
  <2>2. ASSUME NEW r \in Requests, Stamp(r) PROVE IInv'
    BY <2>2, StampPreserves
  <2>3. ASSUME NEW r \in Requests, Evaluate(r) PROVE IInv'
    BY <2>3, AdmitPreserves, UnadmittedPreserves
  <2>4. ASSUME NEW r \in Requests, ReplyLost(r) \/ EvalFails(r) PROVE IInv'
    BY <2>4, UnadmittedPreserves, EvalFailsPreserves
  <2>5. CASE UNCHANGED vars
    BY <2>5 DEF vars, IInv, TypeOK, FiniteCounts, StampsNear, Near, EntriesRecorded,
                RecordedStamped, EntriesLast, KeyLasts, MembersNeverOverLimit, MembersWithin,
                Within, Admitted
  <2>6. QED
    BY <2>1, <2>2, <2>3, <2>4, <2>5 DEF Next
<1>2. QED
  BY <1>1, InitIInv, PTL DEF Spec

\* Times, stamps and entries have their types.
THEOREM SlidingWindowTypes == Spec => []TypeOK
<1>1. IInv => TypeOK
  BY DEF IInv
<1>2. QED
  BY <1>1, SlidingWindowInvariant, PTL

\* Whatever the correlation ids are, no more different ones than the limit are
\* let in within a window: a repeated one takes no place, so the limit is one on
\* members.
THEOREM MembersAlwaysLimited == Spec => []MembersNeverOverLimit
<1>1. IInv => MembersNeverOverLimit
  BY DEF IInv
<1>2. QED
  BY <1>1, SlidingWindowInvariant, PTL

\* When ids are unique per request, as the comment in withOpRateLimit says, the
\* limit is one on requests: never more of them in a window, whatever the
\* servers' clocks and the order of arrival.
THEOREM LimitAlwaysKept == UniqueMembers => (Spec => []NeverOverLimit)
<1> SUFFICES ASSUME UniqueMembers PROVE Spec => []NeverOverLimit
  OBVIOUS
<1>1. IInv => NeverOverLimit
  <2> SUFFICES ASSUME IInv, NEW t \in 0..MaxTime
               PROVE  Cardinality(Within(t)) <= Limit
    BY DEF NeverOverLimit, Within
  <2> DEFINE f == [r \in Within(t) |-> Member[r]]
  <2>1. IsFiniteSet(Within(t))
    BY FS_Subset DEF IInv, FiniteCounts, Within
  <2>2. f \in Surjection(Within(t), MembersWithin(t))
    BY DEF Surjection, MembersWithin
  <2>3. f \in Injection(Within(t), MembersWithin(t))
    BY <2>2 DEF Injection, IsInjective, Surjection, UniqueMembers, Within, Admitted
  <2>4. Cardinality(Within(t)) = Cardinality(MembersWithin(t))
    BY <2>1, <2>2, <2>3, FS_Surjection
  <2>5. QED
    BY <2>4 DEF IInv, MembersNeverOverLimit
<1>2. QED
  BY <1>1, SlidingWindowInvariant, PTL

\* Nobody is turned away unless as many requests as the limit are recorded inside
\* the window: requests the script had room for, though some of their callers may
\* have been told otherwise or nothing.  Rejected ones do not count, nor do repeated
\* ids twice.
THEOREM RejectionAlwaysJustified == Spec => RejectionJustified
<1>1. IInv /\ [Next]_vars =>
        [\A r \in Requests :
            pc[r] # "rejected" /\ pc'[r] = "rejected" =>
                Cardinality({q \in recorded : stamp[q] > stamp[r] - Window}) >= Limit]_vars
  <2> SUFFICES ASSUME IInv, Next, NEW r \in Requests,
                      pc[r] # "rejected", pc'[r] = "rejected"
               PROVE  Cardinality({q \in recorded : stamp[q] > stamp[r] - Window}) >= Limit
    BY DEF vars
  <2>1. Evaluate(r) /\ Full(r)
    BY DEF Next, Tick, Stamp, Evaluate, ReplyLost, Verdict, EvalFails, IInv, TypeOK
  <2>2. QED
    BY <2>1, RejectionIsJustified
<1>2. QED
  BY <1>1, SlidingWindowInvariant, PTL DEF Spec, RejectionJustified
=============================================================================
