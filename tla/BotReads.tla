------------------------------- MODULE BotReads -------------------------------
(***************************************************************************)
(* What a GraphQL request reads while others write: the resolvers of the   *)
(* types Bot, Proposal, Position and User, and the data loaders that       *)
(* buildContext makes for each request.                                    *)
(*                                                                         *)
(* A loader collects the keys that resolvers ask it for, answers them with *)
(* one SELECT, and keeps the answers for the rest of the request.  Other   *)
(* resolvers query the database themselves.  The root fields of a query    *)
(* run at the same time; those of a mutation run one after the other, each *)
(* with all that is selected from its result, and share the loaders.       *)
(*                                                                         *)
(* A row's value is the number of writes it has had, so that a larger      *)
(* value is a later one.  What a bot has many of, its proposals and its    *)
(* closed positions, is one row here: a query returns them together.       *)
(***************************************************************************)
EXTENDS Naturals, Sequences, FiniteSets

CONSTANTS
    Bots, User,   \* the rows: bots of one user, and what there is once per user
    Requests,
    Traffic,      \* the GraphQL documents they may bring
    Null,         \* SQL NULL, or no row
    MaxWrites     \* bound on the writes of others

Rows == Bots \cup {User}

ASSUME RowsAssumption == User \notin Bots
ASSUME NullAssumption == Null \notin Nat
ASSUME MaxWritesAssumption == MaxWrites \in Nat

UserTables == {"user_subscriptions", "user_settings"}
BotTables == {"bots", "bot_settings", "bot_brain_configs", "bot_runtime_data",
              "trade_proposals", "positions"}
Tables == BotTables \cup UserTables
Places == (BotTables \X Bots) \cup (UserTables \X {User})

Values == Nat \cup {Null}

\* There is a row in these only once somebody has written it.
Optional == {"user_settings", "bot_runtime_data"}

Databases ==
    {d \in [rows : [Places -> Values], archived : SUBSET Bots] :
        \A p \in Places : p[1] \in Optional \/ d.rows[p] # Null}

VARIABLES
    db,      \* the committed rows, and the bots whose status is ARCHIVED
    writes,  \* the writes of others so far
    doc, pc,
    todo,    \* the root fields a request has not begun
    tasks,   \* the resolvers that wait for a loader or for the database
    cache,   \* the answers its loaders keep
    shown,   \* the values in its response
    since,   \* history: the states of the database since the request began
    wrote,   \* history: what each root field of a mutation has written
    acked,   \* history: the writes that clients have been told of
    floor    \* history: acked when the request began

request == <<pc, todo, tasks, cache, shown, since, wrote, acked, floor>>
vars == <<db, writes, doc, request>>

-----------------------------------------------------------------------------
(***************************************************************************)
(* Documents and resolvers.                                                *)
(***************************************************************************)

\* The loaders by the resolvers that use them, and the resolvers that do not
\* use one.  "used" and "remaining" are the two scan figures.  The loaders of
\* users, frames and open positions are like that of the settings.
LoaderOf == [bot |-> "botById", settings |-> "botSettingsById",
             botBrainConfig |-> "botBrainConfigByBotId",
             used |-> "botRuntimeDataByBotId", remaining |-> "botRuntimeDataByBotId",
             proposals |-> "proposalsByBotId"]

Loaded == DOMAIN LoaderOf
Loaders == {LoaderOf[k] : k \in Loaded}
OfUser == {"tier", "onboarded"}
Direct == {"brain", "trades", "decisions"} \cup OfUser
Kinds == Loaded \cup Direct

TableOf ==
    [bot |-> "bots", settings |-> "bot_settings",
     botBrainConfig |-> "bot_brain_configs", brain |-> "bot_brain_configs",
     used |-> "bot_runtime_data", remaining |-> "bot_runtime_data",
     proposals |-> "trade_proposals", decisions |-> "trade_proposals",
     trades |-> "positions", tier |-> "user_subscriptions",
     onboarded |-> "user_settings"]

\* A root field, the rows it is about, the table it writes, and what is selected
\* from the bots (or the user) it returns.
Reading ==
    [root : {"bots", "proposals", "performance"}, rows : SUBSET Bots,
     table : {Null}, sub : SUBSET Kinds]
    \cup [root : {"me"}, rows : {{User}}, table : {Null}, sub : SUBSET OfUser]

Writing ==
    [root : {"update", "decide"}, rows : {{b} : b \in Bots},
     table : {"bots", "bot_settings", "bot_brain_configs", "trade_proposals"},
     sub : SUBSET Kinds]
    \cup [root : {"onboard"}, rows : {{User}}, table : {"user_settings"}, sub : {{}}]

\* A query runs its root fields all at once, a mutation one by one.
Documents ==
    [serial : {FALSE}, fields : Seq(Reading)] \cup [serial : {TRUE}, fields : Seq(Writing)]

ASSUME TrafficAssumption == Traffic \subseteq [Requests -> Documents]

FieldsOf(r) == DOMAIN doc[r].fields
Field(r, i) == doc[r].fields[i]

Tasks == [field : Nat, kind : Kinds, row : Rows]
Reports == [table : Tables, row : Rows, value : Nat]
Answers == [field : Nat, kind : Kinds, row : Rows, value : Values]
Entries == [loader : Loaders, row : Rows, value : Values]

\* The resolvers that start, all at once, on a result.
Sub(i, f, x) ==
    {[field |-> i, kind |-> k, row |-> IF k \in OfUser THEN User ELSE x] : k \in f.sub}

\* What a SELECT finds.  botById leaves out ARCHIVED bots.
Select(d, k, x) ==
    IF k = "bot" /\ x \in d.archived THEN Null ELSE d.rows[<<TableOf[k], x>>]

\* Fault: the loaders of another request are used.
FaultHoisted(r) ==
    IF \E q \in Requests : pc[q] = "running"
    THEN cache[CHOOSE q \in Requests : pc[q] = "running"] ELSE {}

\* A set of loaders without answers.
Fresh(r) == {}

NoWrites(r) == [i \in FieldsOf(r) |-> 0]

Init ==
    /\ db = [rows |-> [p \in Places |-> IF p[1] \in Optional THEN Null ELSE 0],
             archived |-> {}]
    /\ writes = 0
    /\ doc \in Traffic
    /\ pc = [r \in Requests |-> "idle"]
    /\ todo = [r \in Requests |-> {}]
    /\ tasks = [r \in Requests |-> {}]
    /\ cache = [r \in Requests |-> Fresh(r)]
    /\ shown = [r \in Requests |-> {}]
    /\ since = [r \in Requests |-> {}]
    /\ wrote = [r \in Requests |-> NoWrites(r)]
    /\ acked = {}
    /\ floor = [r \in Requests |-> {}]

Put(t, x, value) == [rows |-> [db.rows EXCEPT ![<<t, x>>] = value], archived |-> db.archived]

\* The database changes, and the running requests see it.
Commit(d) ==
    /\ db' = d
    /\ since' = [r \in Requests |->
                    IF pc[r] = "running" THEN since[r] \cup {d} ELSE since[r]]

-----------------------------------------------------------------------------
(***************************************************************************)
(* A request.                                                              *)
(***************************************************************************)

\* buildContext.
Begin(r) ==
    /\ pc[r] = "idle"
    /\ pc' = [pc EXCEPT ![r] = "running"]
    /\ todo' = [todo EXCEPT ![r] = FieldsOf(r)]
    /\ cache' = [cache EXCEPT ![r] = Fresh(r)]
    /\ since' = [since EXCEPT ![r] = {db}]
    /\ floor' = [floor EXCEPT ![r] = acked]
    /\ UNCHANGED <<db, writes, doc, tasks, shown, wrote, acked>>

\* The next root field of a mutation waits until the one before is complete.
MayStart(r, i) ==
    /\ pc[r] = "running" /\ i \in todo[r]
    /\ doc[r].serial => tasks[r] = {} /\ \A j \in todo[r] : i <= j

Started(r, i) == todo' = [todo EXCEPT ![r] = @ \ {i}]

\* The rows that a root field returns, as tasks: bots and bot leave out ARCHIVED
\* ones; a proposal or a position leads to its bot through botById.
Spawned(i, f) ==
    IF f.root \in {"proposals", "decide"}
    THEN {[field |-> i, kind |-> "bot", row |-> b] : b \in f.rows}
    ELSE UNION {Sub(i, f, x) : x \in IF f.root = "bots" THEN f.rows \ db.archived ELSE f.rows}

\* A root field of a query.
Query(r, i) ==
    /\ MayStart(r, i)
    /\ Field(r, i).table = Null
    /\ Started(r, i)
    /\ tasks' = [tasks EXCEPT ![r] = @ \cup Spawned(i, Field(r, i))]
    /\ UNCHANGED <<db, writes, doc, pc, cache, shown, since, wrote, acked, floor>>

\* The value a write is meant to leave: completeOnboarding's is always TRUE, or 1.
Stamp(t, x) == IF t = "user_settings" THEN 1 ELSE db.rows[<<t, x>>] + 1

\* Fault: a plain UPDATE, which does nothing when there is no row.
FaultPlainUpdate(t, x) == IF db.rows[<<t, x>>] = Null THEN Null ELSE Stamp(t, x)

\* What it leaves: completeOnboarding is an upsert.
Written(t, x) == Stamp(t, x)

\* A root field of a mutation: its write, then the row that it returns.
Mutate(r, i) ==
    LET f == Field(r, i) IN
    /\ MayStart(r, i)
    /\ f.table # Null
    /\ \E x \in f.rows :
          /\ f.table = "bot_brain_configs" => x \notin db.archived
          /\ Commit(Put(f.table, x, Written(f.table, x)))
          /\ wrote' = [wrote EXCEPT ![r][i] = Stamp(f.table, x)]
    /\ Started(r, i)
    /\ tasks' = [tasks EXCEPT ![r] = @ \cup Spawned(i, f)]
    /\ UNCHANGED <<writes, doc, pc, cache, shown, acked, floor>>

\* A check refuses the root field or its query fails: the field is null.
RootFails(r, i) ==
    /\ MayStart(r, i)
    /\ Started(r, i)
    /\ UNCHANGED <<db, writes, doc, pc, tasks, cache, shown, since, wrote, acked, floor>>

\* What a loader has kept for a key, if anything.
Kept(r, l, x) == {c \in cache[r] : c.loader = l /\ c.row = x}

\* The resolvers that wait for a key, and the keys without an answer.
Waiting(r, l, x) == {t \in tasks[r] : t.kind \in Loaded /\ LoaderOf[t.kind] = l /\ t.row = x}
Missing(r, l) == {x \in Rows : Waiting(r, l, x) # {} /\ Kept(r, l, x) = {}}

\* Fault: two arguments are swapped.
FaultSwapped(t, value) == [field |-> t.field, kind |-> t.kind, row |-> value, value |-> t.row]

Answer(t, value) == [field |-> t.field, kind |-> t.kind, row |-> t.row, value |-> value]
TaskOf(a) == [field |-> a.field, kind |-> a.kind, row |-> a.row]

\* The selections from a bot that its loader has answered with.
Onward(r, a) ==
    IF a.kind # "bot" \/ a.value = Null THEN {} ELSE Sub(a.field, Field(r, a.field), a.row)

\* Resolvers get their answers.
Resolve(r, answers) ==
    /\ shown' = [shown EXCEPT ![r] = @ \cup answers]
    /\ tasks' = [tasks EXCEPT ![r] = (@ \ {TaskOf(a) : a \in answers})
                                        \cup UNION {Onward(r, a) : a \in answers}]

Keep(r, answers) ==
    cache' = [cache EXCEPT ![r] = @ \cup
        {[loader |-> LoaderOf[a.kind], row |-> a.row, value |-> a.value] : a \in answers}]

\* One SELECT answers a batch of keys, with null where there is no row.
Found(r, l, keys) ==
    {Answer(t, Select(db, t.kind, t.row)) : t \in UNION {Waiting(r, l, x) : x \in keys}}

\* The keys asked for in one tick are one batch; those of several may be under
\* way together.
Batch(r, l) ==
    /\ pc[r] = "running"
    /\ \E keys \in SUBSET Missing(r, l) :
          keys # {} /\ Keep(r, Found(r, l, keys)) /\ Resolve(r, Found(r, l, keys))
    /\ UNCHANGED <<db, writes, doc, pc, todo, since, wrote, acked, floor>>

\* Fault: loads are not cached.
FaultUncached(r, l, x) == {Answer(t, Select(db, t.kind, x)) : t \in Waiting(r, l, x)}

\* Whoever asks for a key later gets the answer that was kept.
Hit(r, l, x) ==
    {Answer(t, c.value) : t \in Waiting(r, l, x), c \in Kept(r, l, x)}

Deliver(r, l, x) ==
    /\ pc[r] = "running"
    /\ Waiting(r, l, x) # {} /\ Kept(r, l, x) # {}
    /\ Resolve(r, Hit(r, l, x))
    /\ UNCHANGED <<db, writes, doc, pc, todo, cache, since, wrote, acked, floor>>

\* The SELECT of a batch fails: the resolvers do, and DataLoader forgets the key.
LoadFails(r, l, x) ==
    /\ pc[r] = "running"
    /\ x \in Missing(r, l)
    /\ tasks' = [tasks EXCEPT ![r] = @ \ Waiting(r, l, x)]
    /\ UNCHANGED <<db, writes, doc, pc, todo, cache, shown, since, wrote, acked, floor>>

\* A resolver's own query, answered or failed.
OwnQuery(r, t) ==
    /\ pc[r] = "running"
    /\ t \in tasks[r] /\ t.kind \in Direct
    /\ \/ Resolve(r, {Answer(t, Select(db, t.kind, t.row))})
       \/ tasks' = [tasks EXCEPT ![r] = @ \ {t}] /\ UNCHANGED shown
    /\ UNCHANGED <<db, writes, doc, pc, todo, cache, since, wrote, acked, floor>>

\* The writes that the response reports.
WritesOf(r) ==
    UNION {{[table |-> Field(r, i).table, row |-> x, value |-> wrote[r][i]] : x \in Field(r, i).rows} :
           i \in {j \in FieldsOf(r) : wrote[r][j] # 0}}

\* The response is sent, and the context is garbage.
End(r) ==
    /\ pc[r] = "running"
    /\ todo[r] = {} /\ tasks[r] = {}
    /\ pc' = [pc EXCEPT ![r] = "done"]
    /\ cache' = [cache EXCEPT ![r] = Fresh(r)]
    /\ shown' = [shown EXCEPT ![r] = {}]
    /\ since' = [since EXCEPT ![r] = {}]
    /\ acked' = acked \cup WritesOf(r)
    /\ UNCHANGED <<db, writes, doc, todo, tasks, wrote, floor>>

\* What the answers of the database make a request do next.
Serve(r) ==
    \/ \E i \in FieldsOf(r) : Query(r, i) \/ Mutate(r, i) \/ RootFails(r, i)
    \/ \E l \in Loaders :
          Batch(r, l) \/ \E x \in Rows : Deliver(r, l, x)
    \/ \E t \in tasks[r] : OwnQuery(r, t)
    \/ End(r)

-----------------------------------------------------------------------------
(***************************************************************************)
(* The others: the workers, the webhooks and the requests not modelled.    *)
(***************************************************************************)
Quiet == UNCHANGED <<doc, pc, todo, tasks, cache, shown, wrote, acked, floor>>

\* Only rows that some document reads are worth a write.
Read(t, x) ==
    \E r \in Requests : pc[r] # "done" /\ \E i \in FieldsOf(r) :
        LET f == Field(r, i) IN
        /\ x \in f.rows \cup {User}
        /\ t \in {TableOf[k] : k \in f.sub} \cup {"bots"}

Write(t, x) ==
    /\ writes < MaxWrites /\ Read(t, x)
    /\ t # "user_settings"
    /\ \E v \in IF t = "bot_runtime_data"
                THEN {Null, IF db.rows[<<t, x>>] = Null THEN 1 ELSE db.rows[<<t, x>>] + 1}
                ELSE {db.rows[<<t, x>>] + 1} :
          Commit(Put(t, x, v))
    /\ writes' = writes + 1
    /\ Quiet

Archive(b) ==
    /\ writes < MaxWrites /\ Read("bots", b)
    /\ b \notin db.archived
    /\ Commit([rows |-> [db.rows EXCEPT ![<<"bots", b>>] = @ + 1],
               archived |-> db.archived \cup {b}])
    /\ writes' = writes + 1
    /\ Quiet

Others ==
    \/ \E p \in Places : Write(p[1], p[2])
    \/ \E b \in Bots : Archive(b)

Next ==
    \/ Others
    \/ \E r \in Requests :
          \/ Begin(r) \/ Serve(r)
          \/ \E l \in Loaders, x \in Rows : LoadFails(r, l, x)

Spec == Init /\ [][Next]_vars

-----------------------------------------------------------------------------
(***************************************************************************)
(* Properties.                                                             *)
(***************************************************************************)
TypeOK ==
    /\ db \in Databases
    /\ writes \in 0..MaxWrites
    /\ doc \in Traffic
    /\ pc \in [Requests -> {"idle", "running", "done"}]
    /\ todo \in [Requests -> SUBSET Nat]
    /\ tasks \in [Requests -> SUBSET Tasks]
    /\ cache \in [Requests -> SUBSET Entries]
    /\ shown \in [Requests -> SUBSET Answers]
    /\ since \in [Requests -> SUBSET Databases]
    /\ DOMAIN wrote = Requests
    /\ \A r \in Requests : todo[r] \subseteq FieldsOf(r) /\ wrote[r] \in [FieldsOf(r) -> Nat]
    /\ acked \in SUBSET Reports
    /\ floor \in [Requests -> SUBSET Reports]

\* "Sharing loaders across requests causes cache poisoning and incorrect data":
\* whatever a response shows was true at some moment between the request's
\* arrival and its answer, through whichever loader or query it was read.
ReadsAreRecent ==
    \A r \in Requests : \A a \in shown[r] :
        \E d \in since[r] : a.value = Select(d, a.kind, a.row)

\* "multiple settings fields on the same bot fire one query": everything that a
\* response says of a row through one loader is one version of the row, however
\* often and on whatever path it comes up.
OneAnswer ==
    \A r \in Requests : \A a, b \in shown[r] :
        /\ a.kind \in Loaded /\ b.kind \in Loaded
        /\ LoaderOf[a.kind] = LoaderOf[b.kind] /\ a.row = b.row
        => a.value = b.value

\* The bot is archived, and the response has no row of it.
Hidden(a) == a.kind = "bot" /\ a.value = Null

Level(v) == IF v = Null THEN 0 ELSE v

\* The answer was in the loader's cache before field j.
LoadedBefore(r, a, j) ==
    /\ a.kind \in Loaded
    /\ \E b \in shown[r] : /\ b.field < j /\ b.row = a.row /\ b.kind \in Loaded
                           /\ LoaderOf[b.kind] = LoaderOf[a.kind]

Writes(r, j, a) ==
    Field(r, j).table = TableOf[a.kind] /\ a.row \in Field(r, j).rows /\ wrote[r][j] # 0

\* A client reads its own writes: what a mutation was answered for, later requests
\* show, and so do the mutation's own result and the fields after it, unless a
\* field before it made a loader keep the row.
OwnWriteShown ==
    \A r \in Requests : \A a \in shown[r] :
        ~Hidden(a) =>
           /\ \A w \in floor[r] :
                 w.table = TableOf[a.kind] /\ w.row = a.row => Level(a.value) >= w.value
           /\ \A j \in 1..a.field :
                 Writes(r, j, a) /\ ~LoadedBefore(r, a, j) => Level(a.value) >= wrote[r][j]
=============================================================================
