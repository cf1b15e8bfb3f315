---------------------------- MODULE BotReadsProofs ----------------------------
(***************************************************************************)
(* Theorems about BotReads.                                                *)
(***************************************************************************)
EXTENDS BotReads, TLAPS

\* A resolver of the kind k may be about the row x.
Fits(k, x) == IF k \in OfUser THEN x = User ELSE x \in Bots

EntryOf(a) == [loader |-> LoaderOf[a.kind], row |-> a.row, value |-> a.value]

-----------------------------------------------------------------------------
(***************************************************************************)
(* Facts about documents, resolvers and rows.                              *)
(***************************************************************************)
LEMMA KindFacts ==
    /\ Loaded = {"bot", "settings", "botBrainConfig", "used", "remaining", "proposals"}
    /\ Kinds = Loaded \cup Direct
    /\ Loaded \cap Direct = {}
    /\ OfUser \subseteq Direct
BY DEF Loaded, LoaderOf, Direct, OfUser, Kinds

LEMMA TableFacts ==
    \A k \in Kinds :
        /\ TableOf[k] \in Tables
        /\ k \in OfUser => TableOf[k] \in UserTables
        /\ k \notin OfUser => TableOf[k] \in BotTables
BY KindFacts DEF TableOf, Tables, UserTables, BotTables, Direct, OfUser

\* The resolvers that share a loader read the same.
LEMMA LoaderFacts ==
    \A k, m \in Loaded : LoaderOf[k] = LoaderOf[m] =>
        TableOf[k] = TableOf[m] /\ (k = "bot" <=> m = "bot")
BY KindFacts DEF TableOf, LoaderOf

LEMMA SameSelect ==
    ASSUME NEW k \in Loaded, NEW m \in Loaded, LoaderOf[k] = LoaderOf[m], NEW d, NEW x
    PROVE  Select(d, k, x) = Select(d, m, x)
BY LoaderFacts DEF Select

LEMMA PlaceFacts ==
    ASSUME NEW k \in Kinds, NEW x, Fits(k, x)
    PROVE  <<TableOf[k], x>> \in Places /\ x \in Rows
BY TableFacts DEF Fits, Places, Rows

LEMMA SelectValue ==
    ASSUME NEW d \in Databases, NEW k \in Kinds, NEW x, Fits(k, x)
    PROVE  Select(d, k, x) \in Values
BY PlaceFacts DEF Databases, Select, Values

LEMMA DocFacts ==
    ASSUME doc \in Traffic, NEW r \in Requests, NEW i \in FieldsOf(r)
    PROVE  /\ i \in Nat
           /\ Field(r, i) \in Reading \cup Writing
           /\ IF doc[r].serial THEN Field(r, i) \in Writing ELSE Field(r, i) \in Reading
<1>1. doc[r] \in Documents
  BY TrafficAssumption
<1>2. CASE doc[r] \in [serial : {FALSE}, fields : Seq(Reading)]
  <2>1. doc[r].fields \in Seq(Reading) /\ doc[r].serial = FALSE
    BY <1>2
  <2> QED BY <2>1 DEF FieldsOf, Field
<1>3. CASE doc[r] \in [serial : {TRUE}, fields : Seq(Writing)]
  <2>1. doc[r].fields \in Seq(Writing) /\ doc[r].serial = TRUE
    BY <1>3
  <2> QED BY <2>1 DEF FieldsOf, Field
<1> QED BY <1>1, <1>2, <1>3 DEF Documents

LEMMA FieldFacts ==
    ASSUME NEW f \in Reading \cup Writing
    PROVE  /\ f.sub \subseteq Kinds
           /\ \/ f.rows \subseteq Bots /\ f.root \in {"bots", "proposals", "performance", "update", "decide"}
              \/ f.rows = {User} /\ f.sub \subseteq OfUser /\ f.root \in {"me", "onboard"}
           /\ f \in Writing =>
                 /\ f.table # Null => \A x \in f.rows : <<f.table, x>> \in Places
                 /\ \E x \in Rows : f.rows = {x}
BY KindFacts DEF Reading, Writing, Places, BotTables, UserTables, Rows

LEMMA SubTasks ==
    ASSUME NEW f \in Reading \cup Writing, NEW i \in Nat, NEW x \in Bots \cup f.rows,
           NEW t \in Sub(i, f, x)
    PROVE  t \in Tasks /\ t.field = i /\ Fits(t.kind, t.row)
<1>1. PICK k \in f.sub : t = [field |-> i, kind |-> k, row |-> IF k \in OfUser THEN User ELSE x]
  BY DEF Sub
<1>2. k \in Kinds /\ (k \in OfUser \/ x \in Bots)
  BY FieldFacts
<1>3. Fits(k, IF k \in OfUser THEN User ELSE x)
  BY <1>2 DEF Fits
<1> QED BY <1>1, <1>2, <1>3, PlaceFacts DEF Tasks

LEMMA SpawnedTasks ==
    ASSUME NEW f \in Reading \cup Writing, NEW i \in Nat, NEW t \in Spawned(i, f)
    PROVE  t \in Tasks /\ t.field = i /\ Fits(t.kind, t.row)
<1>1. CASE f.root \in {"proposals", "decide"}
  <2>1. PICK b \in f.rows : t = [field |-> i, kind |-> "bot", row |-> b]
    BY <1>1 DEF Spawned
  <2>2. b \in Bots
    BY <1>1, FieldFacts
  <2> QED BY <2>1, <2>2, KindFacts DEF Tasks, Fits, Rows, Direct, OfUser
<1>2. CASE f.root \notin {"proposals", "decide"}
  <2>1. PICK x \in f.rows : t \in Sub(i, f, x)
    BY <1>2 DEF Spawned
  <2> QED BY <2>1, SubTasks
<1> QED BY <1>1, <1>2

-----------------------------------------------------------------------------
(***************************************************************************)
(* The invariant.                                                          *)
(***************************************************************************)
TasksFit ==
    \A r \in Requests : \A t \in tasks[r] : t.field \in FieldsOf(r) /\ Fits(t.kind, t.row)

\* A request that runs has seen the present state of the database; one that does
\* not holds nothing.
RequestsSee ==
    \A r \in Requests :
        IF pc[r] = "running" THEN db \in since[r]
        ELSE tasks[r] = {} /\ cache[r] = {} /\ shown[r] = {}

\* What a loader keeps was true while the request ran, whichever of the loader's
\* resolvers is answered with it.
CacheIsRecent ==
    \A r \in Requests : \A c \in cache[r] :
        \E d \in since[r] : \A k \in Loaded :
            LoaderOf[k] = c.loader => c.value = Select(d, k, c.row)

CacheIsSingle ==
    \A r \in Requests : \A c, e \in cache[r] :
        c.loader = e.loader /\ c.row = e.row => c.value = e.value

ShownIsKept ==
    \A r \in Requests : \A a \in shown[r] : a.kind \in Loaded => EntryOf(a) \in cache[r]

OnlyWritersWrite ==
    \A r \in Requests : \A i \in FieldsOf(r) : wrote[r][i] # 0 => Field(r, i) \in Writing

IInv == TypeOK /\ TasksFit /\ RequestsSee /\ CacheIsRecent /\ CacheIsSingle /\ ShownIsKept
               /\ ReadsAreRecent /\ OnlyWritersWrite

LEMMA InitIInv == Init => IInv
<1> SUFFICES ASSUME Init PROVE IInv
  OBVIOUS
<1>1. db \in Databases
  BY NullAssumption DEF Init, Databases, Values
<1>2. \A r \in Requests : NoWrites(r) \in [FieldsOf(r) -> Nat]
  BY DEF NoWrites
<1>3. TypeOK
  BY <1>1, <1>2, MaxWritesAssumption DEF Init, TypeOK, Fresh
<1> QED BY <1>3 DEF Init, IInv, TasksFit, RequestsSee, CacheIsRecent, CacheIsSingle,
                    ShownIsKept, ReadsAreRecent, OnlyWritersWrite, NoWrites, Fresh

-----------------------------------------------------------------------------
(***************************************************************************)
(* Writes.                                                                 *)
(***************************************************************************)
LEMMA PutDatabase ==
    ASSUME db \in Databases, NEW t, NEW x, <<t, x>> \in Places, NEW v \in Values,
           t \in Optional \/ v # Null
    PROVE  Put(t, x, v) \in Databases
BY DEF Databases, Put

LEMMA StampValue ==
    ASSUME db \in Databases, NEW t, NEW x, <<t, x>> \in Places,
           t \notin Optional \/ t = "user_settings"
    PROVE  Stamp(t, x) \in Nat /\ Stamp(t, x) \in Values /\ Stamp(t, x) # Null
BY NullAssumption DEF Databases, Stamp, Values

\* What was recent stays recent while a request goes on.
LEMMA RecentStays ==
    ASSUME IInv, UNCHANGED <<cache, shown>>,
           \A r \in Requests : since[r] \subseteq since'[r] \/ (cache[r] = {} /\ shown[r] = {})
    PROVE  CacheIsRecent' /\ ReadsAreRecent'
<1>1. CacheIsRecent'
  <2> SUFFICES ASSUME NEW r \in Requests, NEW c \in cache[r]
               PROVE  \E e \in since'[r] : \A k \in Loaded :
                          LoaderOf[k] = c.loader => c.value = Select(e, k, c.row)
    BY DEF CacheIsRecent, Select
  <2> QED BY DEF IInv, CacheIsRecent
<1>2. ReadsAreRecent'
  <2> SUFFICES ASSUME NEW r \in Requests, NEW a \in shown[r]
               PROVE  \E e \in since'[r] : a.value = Select(e, a.kind, a.row)
    BY DEF ReadsAreRecent, Select
  <2> QED BY DEF IInv, ReadsAreRecent
<1> QED BY <1>1, <1>2

LEMMA CommitPreserves ==
    ASSUME IInv, NEW d \in Databases, Commit(d), UNCHANGED <<pc, cache, shown>>
    PROVE  /\ db' \in Databases /\ since' \in [Requests -> SUBSET Databases]
           /\ \A r \in Requests : pc'[r] = "running" => db' \in since'[r]
           /\ CacheIsRecent' /\ CacheIsSingle' /\ ShownIsKept' /\ ReadsAreRecent'
<1>1. db' = d /\ \A r \in Requests : since'[r] = IF pc[r] = "running" THEN since[r] \cup {d} ELSE since[r]
  BY DEF Commit
<1>2. since' \in [Requests -> SUBSET Databases]
  BY DEF Commit, IInv, TypeOK
<1>3. CacheIsRecent' /\ ReadsAreRecent'
  BY <1>1, RecentStays
<1>4. CacheIsSingle' /\ ShownIsKept'
  BY DEF IInv, CacheIsSingle, ShownIsKept, EntryOf
<1> QED BY <1>1, <1>2, <1>3, <1>4

LEMMA OthersPreserve ==
    ASSUME IInv, Others
    PROVE  IInv'
<1>1. PICK d \in Databases : Commit(d) /\ writes' = writes + 1 /\ writes < MaxWrites /\ Quiet
  <2>1. CASE \E p \in Places : Write(p[1], p[2])
    <3>1. PICK p \in Places : Write(p[1], p[2])
      BY <2>1
    <3> DEFINE t == p[1]
               x == p[2]
               old == db.rows[<<t, x>>]
    <3>2. <<t, x>> \in Places /\ db \in Databases
      BY DEF Places, IInv, TypeOK
    <3>3. t \notin Optional => old \in Nat
      BY <3>2 DEF Databases, Values
    <3>4. old \in Values
      BY <3>2 DEF Databases
    <3>5. PICK v \in IF t = "bot_runtime_data"
                     THEN {Null, IF old = Null THEN 1 ELSE old + 1} ELSE {old + 1} :
              Commit(Put(t, x, v))
      BY <3>1 DEF Write
    <3>6. t # "user_settings"
      BY <3>1 DEF Write
    <3>7. v \in Values /\ (t \in Optional \/ v # Null)
      BY <3>3, <3>4, <3>5, <3>6, NullAssumption DEF Values, Optional
    <3>8. Put(t, x, v) \in Databases
      BY <3>2, <3>7, PutDatabase
    <3> QED BY <3>1, <3>5, <3>8 DEF Write
  <2>2. CASE \E b \in Bots : Archive(b)
    <3>1. PICK b \in Bots : Archive(b)
      BY <2>2
    <3>2. db \in Databases /\ <<"bots", b>> \in Places
      BY DEF Places, BotTables, IInv, TypeOK
    <3>3. db.rows[<<"bots", b>>] \in Nat
      BY <3>2 DEF Databases, Values, Optional
    <3>4. [rows |-> [db.rows EXCEPT ![<<"bots", b>>] = @ + 1], archived |-> db.archived \cup {b}]
             \in Databases
      BY <3>2, <3>3, NullAssumption DEF Databases, Values
    <3> QED BY <3>1, <3>4 DEF Archive
  <2> QED BY <2>1, <2>2 DEF Others
<1>2. UNCHANGED <<doc, pc, todo, tasks, cache, shown, wrote, acked, floor>>
  BY <1>1 DEF Quiet
<1>3. /\ db' \in Databases /\ since' \in [Requests -> SUBSET Databases]
      /\ \A r \in Requests : pc'[r] = "running" => db' \in since'[r]
      /\ CacheIsRecent' /\ CacheIsSingle' /\ ShownIsKept' /\ ReadsAreRecent'
  BY <1>1, <1>2, CommitPreserves
<1>4. TypeOK'
  BY <1>1, <1>2, <1>3, MaxWritesAssumption DEF IInv, TypeOK, FieldsOf
<1>5. TasksFit' /\ RequestsSee' /\ OnlyWritersWrite'
  BY <1>2, <1>3 DEF IInv, TasksFit, RequestsSee, OnlyWritersWrite, FieldsOf, Field
<1> QED BY <1>3, <1>4, <1>5 DEF IInv

-----------------------------------------------------------------------------
(***************************************************************************)
(* The steps of a request.                                                 *)
(***************************************************************************)
LEMMA BeginPreserves ==
    ASSUME IInv, NEW r \in Requests, Begin(r)
    PROVE  IInv'
<1>1. cache[r] = {} /\ shown[r] = {} /\ tasks[r] = {}
  BY DEF Begin, IInv, RequestsSee
<1>2. cache' = cache
  BY <1>1 DEF Begin, Fresh, IInv, TypeOK
<1>3. /\ pc' = [pc EXCEPT ![r] = "running"]
      /\ since' = [since EXCEPT ![r] = {db}]
      /\ UNCHANGED <<db, writes, doc, tasks, cache, shown, wrote, acked>>
  BY <1>2 DEF Begin
<1>4. TypeOK'
  <2>1. db \in Databases /\ acked \in SUBSET Reports
    BY DEF IInv, TypeOK
  <2>2. FieldsOf(r) \in SUBSET Nat
    BY DocFacts DEF IInv, TypeOK
  <2>3. todo' = [todo EXCEPT ![r] = FieldsOf(r)] /\ floor' = [floor EXCEPT ![r] = acked]
    BY DEF Begin
  <2>4. todo' \in [Requests -> SUBSET Nat] /\ \A q \in Requests : todo'[q] \subseteq FieldsOf(q)
    BY <2>2, <2>3 DEF IInv, TypeOK
  <2> QED BY <1>3, <2>1, <2>3, <2>4 DEF IInv, TypeOK, FieldsOf
<1>5. TasksFit' /\ CacheIsSingle' /\ ShownIsKept' /\ OnlyWritersWrite'
  BY <1>3 DEF IInv, TasksFit, CacheIsSingle, ShownIsKept, OnlyWritersWrite, FieldsOf, Field, EntryOf
<1>6. RequestsSee'
  BY <1>1, <1>3 DEF IInv, TypeOK, RequestsSee
<1>7. \A q \in Requests : q # r => since'[q] = since[q]
  BY <1>3 DEF IInv, TypeOK
<1>8. CacheIsRecent' /\ ReadsAreRecent'
  BY <1>1, <1>3, <1>7, RecentStays
<1> QED BY <1>4, <1>5, <1>6, <1>8 DEF IInv

LEMMA StartedTodo ==
    ASSUME TypeOK, NEW r \in Requests, NEW i \in FieldsOf(r), Started(r, i), UNCHANGED doc
    PROVE  /\ todo' \in [Requests -> SUBSET Nat]
           /\ \A q \in Requests : todo'[q] \subseteq FieldsOf(q)'
BY DEF TypeOK, Started, FieldsOf

LEMMA SpawnPreserves ==
    ASSUME IInv, NEW r \in Requests, pc[r] = "running", NEW i \in FieldsOf(r), UNCHANGED <<doc, pc>>,
           tasks' = [tasks EXCEPT ![r] = @ \cup Spawned(i, Field(r, i))]
    PROVE  /\ tasks' \in [Requests -> SUBSET Tasks] /\ TasksFit'
           /\ \A q \in Requests : pc[q] # "running" => tasks'[q] = {}
<1>1. i \in Nat /\ Field(r, i) \in Reading \cup Writing
  BY DocFacts DEF IInv, TypeOK
<1>2. \A t \in Spawned(i, Field(r, i)) : t \in Tasks /\ t.field = i /\ Fits(t.kind, t.row)
  BY <1>1, SpawnedTasks
<1>3. tasks' \in [Requests -> SUBSET Tasks]
  BY <1>2 DEF IInv, TypeOK
<1>4. \A q \in Requests : \A t \in tasks'[q] : t \in tasks[q] \/ (q = r /\ t \in Spawned(i, Field(r, i)))
  BY DEF IInv, TypeOK
<1>5. TasksFit'
  BY <1>2, <1>4 DEF IInv, TasksFit, FieldsOf, Fits
<1> QED BY <1>3, <1>5 DEF IInv, TypeOK, RequestsSee

LEMMA QueryPreserves ==
    ASSUME IInv, NEW r \in Requests, NEW i \in FieldsOf(r), Query(r, i)
    PROVE  IInv'
<1>1. /\ pc[r] = "running" /\ Started(r, i)
      /\ tasks' = [tasks EXCEPT ![r] = @ \cup Spawned(i, Field(r, i))]
      /\ UNCHANGED <<db, writes, doc, pc, cache, shown, since, wrote, acked, floor>>
  BY DEF Query, MayStart
<1>2. TypeOK' /\ TasksFit' /\ RequestsSee'
  BY <1>1, StartedTodo, SpawnPreserves DEF IInv, TypeOK, FieldsOf, RequestsSee
<1>3. CacheIsRecent' /\ ReadsAreRecent'
  BY <1>1, RecentStays
<1>4. CacheIsSingle' /\ ShownIsKept' /\ OnlyWritersWrite'
  BY <1>1 DEF IInv, CacheIsSingle, ShownIsKept, OnlyWritersWrite, EntryOf, FieldsOf, Field
<1> QED BY <1>2, <1>3, <1>4 DEF IInv

LEMMA MutatePreserves ==
    ASSUME IInv, NEW r \in Requests, NEW i \in FieldsOf(r), Mutate(r, i)
    PROVE  IInv'
<1> DEFINE f == Field(r, i)
<1>1. /\ pc[r] = "running" /\ Started(r, i)
      /\ tasks' = [tasks EXCEPT ![r] = @ \cup Spawned(i, f)]
      /\ UNCHANGED <<writes, doc, pc, cache, shown, acked, floor>>
  BY DEF Mutate, MayStart
<1>2. PICK x \in f.rows : /\ Commit(Put(f.table, x, Written(f.table, x)))
                         /\ wrote' = [wrote EXCEPT ![r][i] = Stamp(f.table, x)]
  BY DEF Mutate
<1>3. f \in Writing /\ f.table # Null /\ f.table \notin Optional \ {"user_settings"}
  <2>1. f \in Reading \cup Writing /\ f.table # Null
    BY DocFacts DEF IInv, TypeOK, Mutate
  <2> QED BY <2>1 DEF Reading, Writing, Optional
<1>4. <<f.table, x>> \in Places
  BY <1>3, FieldFacts
<1>5. Stamp(f.table, x) \in Nat /\ Stamp(f.table, x) \in Values /\ Stamp(f.table, x) # Null
  BY <1>3, <1>4, StampValue DEF IInv, TypeOK
<1>6. Put(f.table, x, Written(f.table, x)) \in Databases
  BY <1>4, <1>5, PutDatabase DEF IInv, TypeOK, Written
<1>7. /\ db' \in Databases /\ since' \in [Requests -> SUBSET Databases]
      /\ \A q \in Requests : pc'[q] = "running" => db' \in since'[q]
      /\ CacheIsRecent' /\ CacheIsSingle' /\ ShownIsKept' /\ ReadsAreRecent'
  BY <1>1, <1>2, <1>6, CommitPreserves
<1>8. /\ todo' \in [Requests -> SUBSET Nat]
      /\ \A q \in Requests : todo'[q] \subseteq FieldsOf(q)'
  BY <1>1, StartedTodo DEF IInv
<1>9. /\ tasks' \in [Requests -> SUBSET Tasks] /\ TasksFit'
      /\ \A q \in Requests : pc[q] # "running" => tasks'[q] = {}
  BY <1>1, SpawnPreserves
<1>10. DOMAIN wrote' = Requests /\ \A q \in Requests : wrote'[q] \in [FieldsOf(q)' -> Nat]
  <2>1. \A q \in Requests : wrote[q] \in [FieldsOf(q) -> Nat] /\ FieldsOf(q)' = FieldsOf(q)
    BY <1>1 DEF IInv, TypeOK, FieldsOf
  <2>2. DOMAIN wrote = Requests
    BY DEF IInv, TypeOK
  <2> QED BY <1>2, <1>5, <2>1, <2>2
<1>11. TypeOK'
  BY <1>1, <1>7, <1>8, <1>9, <1>10 DEF IInv, TypeOK
<1>13. OnlyWritersWrite'
  <2> SUFFICES ASSUME NEW q \in Requests, NEW j \in FieldsOf(q), wrote'[q][j] # 0
               PROVE  Field(q, j) \in Writing
    BY <1>1 DEF OnlyWritersWrite, FieldsOf, Field
  <2>1. CASE q = r /\ j = i
    BY <2>1, <1>3
  <2>2. CASE ~(q = r /\ j = i)
    BY <2>2, <1>2 DEF IInv, TypeOK, OnlyWritersWrite
  <2> QED BY <2>1, <2>2
<1>12. RequestsSee'
  BY <1>1, <1>7, <1>9 DEF IInv, RequestsSee
<1> QED BY <1>7, <1>9, <1>11, <1>12, <1>13 DEF IInv

LEMMA RootFailsPreserves ==
    ASSUME IInv, NEW r \in Requests, NEW i \in FieldsOf(r), RootFails(r, i)
    PROVE  IInv'
<1>1. /\ Started(r, i)
      /\ UNCHANGED <<db, writes, doc, pc, tasks, cache, shown, since, wrote, acked, floor>>
  BY DEF RootFails
<1>2. TypeOK' /\ TasksFit' /\ RequestsSee'
  BY <1>1, StartedTodo DEF IInv, TypeOK, FieldsOf, TasksFit, RequestsSee
<1>3. CacheIsRecent' /\ ReadsAreRecent'
  BY <1>1, RecentStays
<1>4. CacheIsSingle' /\ ShownIsKept' /\ OnlyWritersWrite'
  BY <1>1 DEF IInv, CacheIsSingle, ShownIsKept, OnlyWritersWrite, EntryOf, FieldsOf, Field
<1> QED BY <1>2, <1>3, <1>4 DEF IInv

-----------------------------------------------------------------------------
(***************************************************************************)
(* Answers.                                                                *)
(***************************************************************************)

\* What a resolver may be answered with.
Answerable(r, a) ==
    /\ a \in Answers /\ a.field \in FieldsOf(r) /\ Fits(a.kind, a.row)
    /\ \E t \in tasks[r] : t.field = a.field
    /\ \E d \in since[r] : a.value = Select(d, a.kind, a.row)

LEMMA OnwardTasks ==
    ASSUME IInv, NEW r \in Requests, NEW a, Answerable(r, a), NEW t \in Onward(r, a)
    PROVE  t \in Tasks /\ t.field = a.field /\ t.field \in FieldsOf(r) /\ Fits(t.kind, t.row)
<1>1. a.kind = "bot" /\ t \in Sub(a.field, Field(r, a.field), a.row)
  BY DEF Onward
<1>2. a.row \in Bots
  BY <1>1 DEF Answerable, Fits, OfUser
<1>3. a.field \in Nat /\ Field(r, a.field) \in Reading \cup Writing
  BY DocFacts DEF Answerable, IInv, TypeOK
<1> QED BY <1>1, <1>2, <1>3, SubTasks DEF Answerable

LEMMA ResolvePreserves ==
    ASSUME IInv, NEW r \in Requests, pc[r] = "running", NEW S, \A a \in S : Answerable(r, a),
           Resolve(r, S), UNCHANGED <<doc, pc, since>>
    PROVE  /\ tasks' \in [Requests -> SUBSET Tasks] /\ shown' \in [Requests -> SUBSET Answers]
           /\ TasksFit' /\ ReadsAreRecent'
           /\ \A q \in Requests : pc[q] # "running" => tasks'[q] = {} /\ shown'[q] = {}
           /\ shown'[r] = shown[r] \cup S
           /\ \A q \in Requests : q # r => shown'[q] = shown[q] /\ tasks'[q] = tasks[q]
           /\ \A t \in tasks'[r] : \E u \in tasks[r] : u.field = t.field
<1> DEFINE onward == UNION {Onward(r, a) : a \in S}
<1>1. /\ shown' = [shown EXCEPT ![r] = @ \cup S]
      /\ tasks' = [tasks EXCEPT ![r] = (@ \ {TaskOf(a) : a \in S}) \cup onward]
  BY DEF Resolve
<1>2. \A t \in onward : /\ t \in Tasks /\ t.field \in FieldsOf(r) /\ Fits(t.kind, t.row)
                        /\ \E u \in tasks[r] : u.field = t.field
  BY OnwardTasks DEF Answerable
<1>3. S \subseteq Answers
  BY DEF Answerable
<1> HIDE DEF onward
<1>4. tasks' \in [Requests -> SUBSET Tasks] /\ shown' \in [Requests -> SUBSET Answers]
  BY <1>1, <1>2, <1>3 DEF IInv, TypeOK
<1>5. \A q \in Requests : \A t \in tasks'[q] : t \in tasks[q] \/ (q = r /\ t \in onward)
  BY <1>1 DEF IInv, TypeOK
<1>6. TasksFit'
  BY <1>2, <1>5 DEF IInv, TasksFit, FieldsOf, Fits
<1>7. shown'[r] = shown[r] \cup S /\ \A q \in Requests : q # r => shown'[q] = shown[q] /\ tasks'[q] = tasks[q]
  BY <1>1 DEF IInv, TypeOK
<1>8. ReadsAreRecent'
  <2> SUFFICES ASSUME NEW q \in Requests, NEW a \in shown'[q]
               PROVE  \E d \in since[q] : a.value = Select(d, a.kind, a.row)
    BY DEF ReadsAreRecent, Select
  <2>1. CASE a \in shown[q]
    BY <2>1 DEF IInv, ReadsAreRecent
  <2>2. CASE a \notin shown[q]
    BY <2>2, <1>7 DEF Answerable
  <2> QED BY <2>1, <2>2
<1> QED BY <1>2, <1>4, <1>5, <1>6, <1>7, <1>8 DEF IInv, RequestsSee

LEMMA FoundAnswers ==
    ASSUME IInv, NEW r \in Requests, pc[r] = "running", NEW l \in Loaders, NEW keys \in SUBSET Rows,
           NEW a \in Found(r, l, keys)
    PROVE  /\ Answerable(r, a)
           /\ a.kind \in Loaded /\ LoaderOf[a.kind] = l /\ a.row \in keys
           /\ a.value = Select(db, a.kind, a.row)
<1>0. PICK x \in keys : \E t \in Waiting(r, l, x) : a = Answer(t, Select(db, t.kind, t.row))
  BY DEF Found
<1>1. PICK t \in Waiting(r, l, x) : a = Answer(t, Select(db, t.kind, t.row))
  BY <1>0
<1>2. t \in tasks[r] /\ t.kind \in Loaded /\ LoaderOf[t.kind] = l /\ t.row = x
  BY <1>1 DEF Waiting
<1>3. t \in Tasks /\ t.field \in FieldsOf(r) /\ Fits(t.kind, t.row)
  BY <1>2 DEF IInv, TypeOK, TasksFit
<1>4. Select(db, t.kind, t.row) \in Values /\ db \in since[r]
  BY <1>3, SelectValue DEF IInv, TypeOK, RequestsSee, Tasks
<1> QED BY <1>1, <1>2, <1>3, <1>4 DEF Answer, Answers, Answerable, Tasks

LEMMA HitAnswers ==
    ASSUME IInv, NEW r \in Requests, NEW l \in Loaders, NEW x \in Rows, NEW a \in Hit(r, l, x)
    PROVE  /\ Answerable(r, a)
           /\ a.kind \in Loaded /\ EntryOf(a) \in cache[r]
<1>1. PICK t \in Waiting(r, l, x), c \in Kept(r, l, x) : a = Answer(t, c.value)
  BY DEF Hit
<1>2. t \in tasks[r] /\ t.kind \in Loaded /\ LoaderOf[t.kind] = l /\ t.row = x
  BY <1>1 DEF Waiting
<1>3. c \in cache[r] /\ c.loader = l /\ c.row = x /\ c \in Entries
  BY <1>1 DEF Kept, IInv, TypeOK
<1>4. t \in Tasks /\ t.field \in FieldsOf(r) /\ Fits(t.kind, t.row)
  BY <1>2 DEF IInv, TypeOK, TasksFit
<1>5. \E d \in since[r] : c.value = Select(d, t.kind, t.row)
  BY <1>2, <1>3 DEF IInv, CacheIsRecent
<1>6. EntryOf(a) = c
  BY <1>1, <1>2, <1>3 DEF EntryOf, Answer, Entries
<1> QED BY <1>1, <1>2, <1>3, <1>4, <1>5, <1>6 DEF Answer, Answers, Answerable, Tasks, Entries

LEMMA BatchPreserves ==
    ASSUME IInv, NEW r \in Requests, NEW l \in Loaders, Batch(r, l)
    PROVE  IInv'
<1>1. /\ pc[r] = "running"
      /\ UNCHANGED <<db, writes, doc, pc, todo, since, wrote, acked, floor>>
  BY DEF Batch
<1>2. PICK keys \in SUBSET Missing(r, l) : Keep(r, Found(r, l, keys)) /\ Resolve(r, Found(r, l, keys))
  BY DEF Batch
<1>3. keys \in SUBSET Rows /\ \A c \in cache[r] : ~(c.loader = l /\ c.row \in keys)
  BY DEF Missing, Kept
<1> DEFINE S == Found(r, l, keys)
           new == {[loader |-> LoaderOf[a.kind], row |-> a.row, value |-> a.value] : a \in S}
<1>4. \A a \in S : /\ Answerable(r, a)
                   /\ a.kind \in Loaded /\ LoaderOf[a.kind] = l /\ a.row \in keys
                   /\ a.value = Select(db, a.kind, a.row)
  BY <1>1, <1>3, FoundAnswers
<1>5. cache' = [cache EXCEPT ![r] = @ \cup new]
  BY <1>2 DEF Keep
<1>6. \A c \in new : \E a \in S : c = EntryOf(a)
  BY DEF EntryOf
<1>7. \A a \in S : EntryOf(a) \in new
  BY DEF EntryOf
<1> HIDE DEF S, new
<1>8. /\ tasks' \in [Requests -> SUBSET Tasks] /\ shown' \in [Requests -> SUBSET Answers]
      /\ TasksFit' /\ ReadsAreRecent'
      /\ \A q \in Requests : pc[q] # "running" => tasks'[q] = {} /\ shown'[q] = {}
      /\ shown'[r] = shown[r] \cup S
      /\ \A q \in Requests : q # r => shown'[q] = shown[q]
  BY <1>1, <1>2, <1>4, ResolvePreserves DEF S
<1>9. cache'[r] = cache[r] \cup new /\ \A q \in Requests : q # r => cache'[q] = cache[q]
  BY <1>5 DEF IInv, TypeOK
<1>10. \A c \in new : c \in Entries /\ c.loader = l /\ c.row \in keys
  BY <1>4, <1>6 DEF EntryOf, Entries, Answerable, Answers
<1>11. TypeOK'
  <2>1. cache' \in [Requests -> SUBSET Entries]
    BY <1>5, <1>10 DEF IInv, TypeOK
  <2> QED BY <1>1, <1>8, <2>1 DEF IInv, TypeOK, FieldsOf
<1>12. RequestsSee'
  BY <1>1, <1>8, <1>9 DEF IInv, RequestsSee
<1>13. \A c \in new : \A k \in Loaded : LoaderOf[k] = c.loader => c.value = Select(db, k, c.row)
  <2> SUFFICES ASSUME NEW c \in new, NEW k \in Loaded, LoaderOf[k] = c.loader
               PROVE  c.value = Select(db, k, c.row)
    OBVIOUS
  <2>1. PICK a \in S : c = EntryOf(a)
    BY <1>6
  <2>2. a.kind \in Loaded /\ LoaderOf[a.kind] = LoaderOf[k] /\ c.row = a.row /\ c.value = a.value
    BY <1>4, <2>1 DEF EntryOf
  <2> QED BY <1>4, <2>2, SameSelect
<1>14. CacheIsRecent'
  <2> SUFFICES ASSUME NEW q \in Requests, NEW c \in cache'[q]
               PROVE  \E d \in since[q] : \A k \in Loaded :
                          LoaderOf[k] = c.loader => c.value = Select(d, k, c.row)
    BY <1>1 DEF CacheIsRecent, Select
  <2>1. CASE c \in cache[q]
    BY <2>1 DEF IInv, CacheIsRecent
  <2>2. CASE c \notin cache[q]
    BY <2>2, <1>1, <1>9, <1>13 DEF IInv, RequestsSee
  <2> QED BY <2>1, <2>2
<1>15. CacheIsSingle'
  <2> SUFFICES ASSUME NEW q \in Requests, NEW c \in cache'[q], NEW e \in cache'[q],
                      c.loader = e.loader, c.row = e.row
               PROVE  c.value = e.value
    BY DEF CacheIsSingle
  <2>1. CASE c \in cache[q] /\ e \in cache[q]
    BY <2>1 DEF IInv, CacheIsSingle
  <2>2. CASE c \in new /\ e \in new
    <3>1. PICK k \in Loaded : LoaderOf[k] = l
      BY DEF Loaders
    <3> QED BY <2>2, <3>1, <1>10, <1>13
  <2>3. CASE c \in cache[r] /\ e \in new
    BY <2>3, <1>3, <1>10
  <2>4. CASE e \in cache[r] /\ c \in new
    BY <2>4, <1>3, <1>10
  <2>5. q # r => c \in cache[q] /\ e \in cache[q]
    BY <1>9
  <2>6. q = r => (c \in cache[q] \/ c \in new) /\ (e \in cache[q] \/ e \in new)
    BY <1>9
  <2> QED BY <2>1, <2>2, <2>3, <2>4, <2>5, <2>6
<1>16. ShownIsKept' /\ OnlyWritersWrite'
  BY <1>1, <1>7, <1>8, <1>9 DEF IInv, ShownIsKept, OnlyWritersWrite, EntryOf, FieldsOf, Field
<1> QED BY <1>8, <1>11, <1>12, <1>14, <1>15, <1>16 DEF IInv

LEMMA DeliverPreserves ==
    ASSUME IInv, NEW r \in Requests, NEW l \in Loaders, NEW x \in Rows, Deliver(r, l, x)
    PROVE  IInv'
<1> DEFINE S == Hit(r, l, x)
<1>1. /\ pc[r] = "running" /\ Resolve(r, S)
      /\ UNCHANGED <<db, writes, doc, pc, todo, cache, since, wrote, acked, floor>>
  BY DEF Deliver
<1>2. \A a \in S : Answerable(r, a) /\ a.kind \in Loaded /\ EntryOf(a) \in cache[r]
  BY HitAnswers
<1> HIDE DEF S
<1>3. /\ tasks' \in [Requests -> SUBSET Tasks] /\ shown' \in [Requests -> SUBSET Answers]
      /\ TasksFit' /\ ReadsAreRecent'
      /\ \A q \in Requests : pc[q] # "running" => tasks'[q] = {} /\ shown'[q] = {}
      /\ shown'[r] = shown[r] \cup S
      /\ \A q \in Requests : q # r => shown'[q] = shown[q]
  BY <1>1, <1>2, ResolvePreserves
<1>4. TypeOK' /\ RequestsSee'
  BY <1>1, <1>3 DEF IInv, TypeOK, RequestsSee, FieldsOf
<1>5. ShownIsKept'
  BY <1>1, <1>2, <1>3 DEF IInv, ShownIsKept, EntryOf
<1>6. CacheIsRecent' /\ CacheIsSingle' /\ OnlyWritersWrite'
  BY <1>1 DEF IInv, CacheIsRecent, CacheIsSingle, OnlyWritersWrite, Select, FieldsOf, Field
<1> QED BY <1>3, <1>4, <1>5, <1>6 DEF IInv

\* Steps that take tasks away and show nothing.
LEMMA DropPreserves ==
    ASSUME IInv, NEW r \in Requests, NEW T, tasks' = [tasks EXCEPT ![r] = @ \ T],
           UNCHANGED <<db, writes, doc, pc, todo, cache, shown, since, wrote, acked, floor>>
    PROVE  IInv'
<1>1. TypeOK'
  BY DEF IInv, TypeOK, FieldsOf
<1>2. TasksFit' /\ RequestsSee'
  BY DEF IInv, TypeOK, TasksFit, RequestsSee, FieldsOf, Fits
<1>3. CacheIsRecent' /\ ReadsAreRecent'
  BY RecentStays
<1>4. CacheIsSingle' /\ ShownIsKept' /\ OnlyWritersWrite'
  BY DEF IInv, CacheIsSingle, ShownIsKept, OnlyWritersWrite, EntryOf, FieldsOf, Field
<1> QED BY <1>1, <1>2, <1>3, <1>4 DEF IInv

LEMMA OwnQueryPreserves ==
    ASSUME IInv, NEW r \in Requests, NEW t \in tasks[r], OwnQuery(r, t)
    PROVE  IInv'
<1>1. /\ pc[r] = "running" /\ t.kind \in Direct
      /\ UNCHANGED <<db, writes, doc, pc, todo, cache, since, wrote, acked, floor>>
  BY DEF OwnQuery
<1>2. CASE tasks' = [tasks EXCEPT ![r] = @ \ {t}] /\ UNCHANGED shown
  BY <1>1, <1>2, DropPreserves
<1>3. CASE Resolve(r, {Answer(t, Select(db, t.kind, t.row))})
  <2> DEFINE a == Answer(t, Select(db, t.kind, t.row))
  <2>1. t \in Tasks /\ t.field \in FieldsOf(r) /\ Fits(t.kind, t.row)
    BY DEF IInv, TypeOK, TasksFit
  <2>2. Select(db, t.kind, t.row) \in Values /\ db \in since[r]
    BY <1>1, <2>1, SelectValue DEF IInv, TypeOK, RequestsSee, Tasks
  <2>3. Answerable(r, a) /\ a.kind \notin Loaded
    BY <1>1, <2>1, <2>2, KindFacts DEF Answer, Answers, Answerable, Tasks
  <2> HIDE DEF a
  <2>4. /\ tasks' \in [Requests -> SUBSET Tasks] /\ shown' \in [Requests -> SUBSET Answers]
        /\ TasksFit' /\ ReadsAreRecent'
        /\ \A q \in Requests : pc[q] # "running" => tasks'[q] = {} /\ shown'[q] = {}
        /\ shown'[r] = shown[r] \cup {a}
        /\ \A q \in Requests : q # r => shown'[q] = shown[q]
    BY <1>1, <1>3, <2>3, ResolvePreserves DEF a
  <2>5. TypeOK' /\ RequestsSee'
    BY <1>1, <2>4 DEF IInv, TypeOK, RequestsSee, FieldsOf
  <2>6. ShownIsKept'
    BY <1>1, <2>3, <2>4 DEF IInv, ShownIsKept, EntryOf
  <2>7. CacheIsRecent' /\ CacheIsSingle' /\ OnlyWritersWrite'
    BY <1>1 DEF IInv, CacheIsRecent, CacheIsSingle, OnlyWritersWrite, Select, FieldsOf, Field
  <2> QED BY <2>4, <2>5, <2>6, <2>7 DEF IInv
<1> QED BY <1>2, <1>3 DEF OwnQuery

LEMMA WritesTyped ==
    ASSUME IInv, NEW r \in Requests, NEW w \in WritesOf(r)
    PROVE  /\ w \in Reports
           /\ \E i \in FieldsOf(r) :
                 /\ wrote[r][i] # 0 /\ Field(r, i) \in Writing
                 /\ w.table = Field(r, i).table /\ w.row \in Field(r, i).rows /\ w.value = wrote[r][i]
<1>1. PICK i \in FieldsOf(r) : /\ wrote[r][i] # 0
                              /\ \E x \in Field(r, i).rows :
                                    w = [table |-> Field(r, i).table, row |-> x, value |-> wrote[r][i]]
  BY DEF WritesOf
<1>2. PICK x \in Field(r, i).rows : w = [table |-> Field(r, i).table, row |-> x, value |-> wrote[r][i]]
  BY <1>1
<1>3. Field(r, i) \in Writing /\ wrote[r][i] \in Nat
  BY <1>1 DEF IInv, TypeOK, OnlyWritersWrite
<1>4. Field(r, i).table \in Tables /\ x \in Rows
  BY <1>2, <1>3 DEF Writing, Tables, BotTables, UserTables, Rows
<1> QED BY <1>1, <1>2, <1>3, <1>4 DEF Reports

LEMMA EndPreserves ==
    ASSUME IInv, NEW r \in Requests, End(r)
    PROVE  IInv'
<1>1. /\ tasks[r] = {}
      /\ pc' = [pc EXCEPT ![r] = "done"]
      /\ cache' = [cache EXCEPT ![r] = {}]
      /\ shown' = [shown EXCEPT ![r] = {}]
      /\ since' = [since EXCEPT ![r] = {}]
      /\ acked' = acked \cup WritesOf(r)
      /\ UNCHANGED <<db, writes, doc, todo, tasks, wrote, floor>>
  BY DEF End, Fresh
<1>2. WritesOf(r) \subseteq Reports
  BY WritesTyped
<1>3. TypeOK'
  BY <1>1, <1>2 DEF IInv, TypeOK, FieldsOf
<1>4. /\ cache'[r] = {} /\ shown'[r] = {}
      /\ \A q \in Requests : q # r => cache'[q] = cache[q] /\ shown'[q] = shown[q] /\ since'[q] = since[q]
  BY <1>1 DEF IInv, TypeOK
<1>5. TasksFit' /\ RequestsSee' /\ OnlyWritersWrite'
  BY <1>1, <1>4 DEF IInv, TypeOK, TasksFit, RequestsSee, OnlyWritersWrite, FieldsOf, Field, Fits
<1>6. CacheIsSingle' /\ ShownIsKept'
  BY <1>4 DEF IInv, CacheIsSingle, ShownIsKept, EntryOf
<1>7. CacheIsRecent'
  <2> SUFFICES ASSUME NEW q \in Requests, NEW c \in cache'[q]
               PROVE  \E d \in since'[q] : \A k \in Loaded :
                          LoaderOf[k] = c.loader => c.value = Select(d, k, c.row)
    BY DEF CacheIsRecent, Select
  <2> QED BY <1>4 DEF IInv, CacheIsRecent
<1>8. ReadsAreRecent'
  <2> SUFFICES ASSUME NEW q \in Requests, NEW a \in shown'[q]
               PROVE  \E d \in since'[q] : a.value = Select(d, a.kind, a.row)
    BY DEF ReadsAreRecent, Select
  <2> QED BY <1>4 DEF IInv, ReadsAreRecent
<1> QED BY <1>3, <1>5, <1>6, <1>7, <1>8 DEF IInv

-----------------------------------------------------------------------------
LEMMA NextIInv ==
    ASSUME IInv, [Next]_vars
    PROVE  IInv'
<1>1. CASE Others
  BY <1>1, OthersPreserve
<1>2. ASSUME NEW r \in Requests, Begin(r) PROVE IInv'
  BY <1>2, BeginPreserves
<1>3. ASSUME NEW r \in Requests, Serve(r) PROVE IInv'
  <2>1. CASE \E i \in FieldsOf(r) : Query(r, i) \/ Mutate(r, i) \/ RootFails(r, i)
    BY <2>1, QueryPreserves, MutatePreserves, RootFailsPreserves
  <2>2. CASE \E l \in Loaders : Batch(r, l) \/ \E x \in Rows : Deliver(r, l, x)
    BY <2>2, BatchPreserves, DeliverPreserves
  <2>3. CASE \E t \in tasks[r] : OwnQuery(r, t)
    BY <2>3, OwnQueryPreserves
  <2>4. CASE End(r)
    BY <2>4, EndPreserves
  <2> QED BY <1>3, <2>1, <2>2, <2>3, <2>4 DEF Serve
<1>4. ASSUME NEW r \in Requests, NEW l \in Loaders, NEW x \in Rows, LoadFails(r, l, x) PROVE IInv'
  BY <1>4, DropPreserves DEF LoadFails
<1>5. CASE UNCHANGED vars
  <2>1. tasks' = tasks /\ UNCHANGED <<db, writes, doc, pc, todo, cache, shown, since, wrote, acked, floor>>
    BY <1>5 DEF vars, request
  <2>2. TypeOK'
    BY <2>1 DEF IInv, TypeOK, FieldsOf
  <2>3. TasksFit' /\ RequestsSee' /\ OnlyWritersWrite'
    BY <2>1 DEF IInv, TasksFit, RequestsSee, OnlyWritersWrite, FieldsOf, Field, Fits
  <2>4. CacheIsRecent' /\ ReadsAreRecent'
    BY <2>1, RecentStays
  <2>5. CacheIsSingle' /\ ShownIsKept'
    BY <2>1 DEF IInv, CacheIsSingle, ShownIsKept, EntryOf
  <2> QED BY <2>2, <2>3, <2>4, <2>5 DEF IInv
<1> QED BY <1>1, <1>2, <1>3, <1>4, <1>5 DEF Next

\* The invariant of BotReads.
THEOREM ReadsInvariant == Spec => []IInv
<1>1. Init => IInv
  BY InitIInv
<1>2. IInv /\ [Next]_vars => IInv'
  BY NextIInv
<1> QED BY <1>1, <1>2, PTL DEF Spec

\* The type invariant.
THEOREM ReadsTypes == Spec => []TypeOK
<1>1. IInv => TypeOK
  BY DEF IInv
<1> QED BY <1>1, ReadsInvariant, PTL

\* A response shows nothing that was not true while its request ran, whatever the
\* loaders keep (dataloaders/index.ts, context.ts).
THEOREM ReadsAlwaysRecent == Spec => []ReadsAreRecent
<1>1. IInv => ReadsAreRecent
  BY DEF IInv
<1> QED BY <1>1, ReadsInvariant, PTL

\* A loader answers every question about a row in the same way.
THEOREM OneAnswerAlways == Spec => []OneAnswer
<1>1. IInv => OneAnswer
  <2> SUFFICES ASSUME IInv, NEW r \in Requests, NEW a \in shown[r], NEW b \in shown[r],
                      a.kind \in Loaded, b.kind \in Loaded,
                      LoaderOf[a.kind] = LoaderOf[b.kind], a.row = b.row
               PROVE  a.value = b.value
    BY DEF OneAnswer
  <2>1. EntryOf(a) \in cache[r] /\ EntryOf(b) \in cache[r]
    BY DEF IInv, ShownIsKept
  <2>2. EntryOf(a).value = EntryOf(b).value
    BY <2>1 DEF IInv, CacheIsSingle, EntryOf
  <2> QED BY <2>2 DEF EntryOf
<1> QED BY <1>1, ReadsInvariant, PTL

-----------------------------------------------------------------------------
(***************************************************************************)
(* Reading one's own writes.                                               *)
(***************************************************************************)

\* Rows only get newer, except those of bot_runtime_data, which come and go; the
\* tables that mutations write are others.
Lasting(t, x) == <<t, x>> \in Places /\ t # "bot_runtime_data"
Holds(d, t, x, n) == Level(d.rows[<<t, x>>]) >= n
Grown(d) == \A p \in Places : p[1] # "bot_runtime_data" => Level(d.rows[p]) >= Level(db.rows[p])

SettingsOnce == db.rows[<<"user_settings", User>>] \in {Null, 1}

ReportsHold == \A w \in acked : Lasting(w.table, w.row) /\ Holds(db, w.table, w.row, w.value)

FloorsHold ==
    \A r \in Requests : \A w \in floor[r] :
        Lasting(w.table, w.row) /\ \A d \in since[r] : Holds(d, w.table, w.row, w.value)

WritesHold ==
    \A r \in Requests : \A i \in FieldsOf(r) : wrote[r][i] # 0 =>
        \A x \in Field(r, i).rows :
            Lasting(Field(r, i).table, x) /\ Holds(db, Field(r, i).table, x, wrote[r][i])

\* The root fields of a mutation begin in their order.
InOrder ==
    \A r \in Requests :
        /\ \A i \in FieldsOf(r) : wrote[r][i] # 0 => doc[r].serial /\ pc[r] # "idle" /\ i \notin todo[r]
        /\ doc[r].serial => \A i \in todo[r], j \in FieldsOf(r) : i <= j => j \in todo[r]
        /\ \A t \in tasks[r] : t.field \notin todo[r]
        /\ \A a \in shown[r] : a.field \notin todo[r] /\ a.field \in FieldsOf(r) /\ Fits(a.kind, a.row)

ShownBefore(r, c, j) ==
    \E b \in shown[r] : b.kind \in Loaded /\ EntryOf(b) = c /\ b.field < j

\* A loader that keeps a row from before a write has answered with it before.
CacheKnowsWrites ==
    \A r \in Requests : \A c \in cache[r] :
        /\ \E b \in shown[r] : b.kind \in Loaded /\ EntryOf(b) = c
        /\ \A k \in Loaded, j \in FieldsOf(r) :
              /\ LoaderOf[k] = c.loader /\ Field(r, j).table = TableOf[k]
              /\ c.row \in Field(r, j).rows /\ wrote[r][j] # 0
              => (k = "bot" /\ c.value = Null) \/ Level(c.value) >= wrote[r][j] \/ ShownBefore(r, c, j)

ShownKnowsWrites ==
    \A r \in Requests : \A a \in shown[r] : \A j \in FieldsOf(r) :
        j <= a.field /\ Writes(r, j, a) /\ ~Hidden(a) /\ ~LoadedBefore(r, a, j)
        => Level(a.value) >= wrote[r][j]

WInv == SettingsOnce /\ ReportsHold /\ FloorsHold /\ WritesHold /\ InOrder /\ CacheKnowsWrites
        /\ ShownKnowsWrites

LEMMA InitWInv == Init => WInv
<1> SUFFICES ASSUME Init PROVE WInv
  OBVIOUS
<1>1. <<"user_settings", User>> \in Places
  BY DEF Places, UserTables
<1>2. SettingsOnce
  BY <1>1 DEF Init, SettingsOnce, Optional
<1>3. \A r \in Requests : \A i \in FieldsOf(r) : wrote[r][i] = 0
  BY DEF Init, NoWrites
<1> QED BY <1>2, <1>3 DEF Init, WInv, ReportsHold, FloorsHold, WritesHold, InOrder,
                          CacheKnowsWrites, ShownKnowsWrites, Fresh

LEMMA WInvSuffices == IInv /\ WInv => OwnWriteShown
<1> SUFFICES ASSUME IInv, WInv, NEW r \in Requests, NEW a \in shown[r], ~Hidden(a)
             PROVE  /\ \A w \in floor[r] :
                          w.table = TableOf[a.kind] /\ w.row = a.row => Level(a.value) >= w.value
                    /\ \A j \in 1..a.field :
                          Writes(r, j, a) /\ ~LoadedBefore(r, a, j) => Level(a.value) >= wrote[r][j]
  BY DEF OwnWriteShown
<1>1. ASSUME NEW w \in floor[r], w.table = TableOf[a.kind], w.row = a.row
      PROVE  Level(a.value) >= w.value
  <2>1. PICK d \in since[r] : a.value = Select(d, a.kind, a.row)
    BY DEF IInv, ReadsAreRecent
  <2>2. a.value = d.rows[<<w.table, w.row>>]
    BY <1>1, <2>1 DEF Select, Hidden
  <2> QED BY <2>2 DEF WInv, FloorsHold, Holds
<1>2. ASSUME NEW j \in 1..a.field, Writes(r, j, a), ~LoadedBefore(r, a, j)
      PROVE  Level(a.value) >= wrote[r][j]
  <2>1. a.field \in FieldsOf(r)
    BY DEF WInv, InOrder
  <2>2. a.field \in Nat /\ j \in FieldsOf(r)
    <3>1. doc[r] \in Documents
      BY TrafficAssumption DEF IInv, TypeOK
    <3>2. doc[r].fields \in Seq(Reading) \cup Seq(Writing)
      BY <3>1 DEF Documents
    <3> QED BY <2>1, <3>2 DEF FieldsOf
  <2> QED BY <1>2, <2>2 DEF WInv, ShownKnowsWrites
<1> QED BY <1>1, <1>2

LEMMA PutGrows ==
    ASSUME IInv, SettingsOnce, NEW t, NEW x, <<t, x>> \in Places, NEW v \in Values,
           t # "bot_runtime_data" => v \in Nat /\ v >= Level(db.rows[<<t, x>>]),
           t = "user_settings" => v = 1
    PROVE  /\ Grown(Put(t, x, v))
           /\ Put(t, x, v).rows[<<"user_settings", User>>] \in {Null, 1}
<1>1. db \in Databases /\ <<"user_settings", User>> \in Places
  BY DEF IInv, TypeOK, Places, UserTables
<1>2. \A p \in Places : Level(db.rows[p]) \in Nat
  BY <1>1 DEF Databases, Level, Values
<1>3. \A p \in Places : Put(t, x, v).rows[p] = IF p = <<t, x>> THEN v ELSE db.rows[p]
  BY <1>1 DEF Put, Databases
<1>4. Grown(Put(t, x, v))
  BY <1>2, <1>3, NullAssumption DEF Grown, Level
<1>5. Put(t, x, v).rows[<<"user_settings", User>>] \in {Null, 1}
  BY <1>1, <1>3 DEF SettingsOnce
<1> QED BY <1>4, <1>5

LEMMA LevelType ==
    ASSUME NEW d \in Databases, NEW t, NEW x, Lasting(t, x)
    PROVE  Level(d.rows[<<t, x>>]) \in Nat
BY DEF Databases, Level, Values, Lasting

LEMMA GrowthKeeps ==
    ASSUME IInv, WInv, NEW d \in Databases, Commit(d), Grown(d),
           d.rows[<<"user_settings", User>>] \in {Null, 1}, UNCHANGED <<pc, floor, acked>>
    PROVE  /\ SettingsOnce' /\ ReportsHold' /\ FloorsHold'
           /\ \A t, x : \A n \in Nat : Lasting(t, x) /\ Holds(db, t, x, n) => Holds(db', t, x, n)
<1>1. db' = d /\ \A r \in Requests : since'[r] = IF pc[r] = "running" THEN since[r] \cup {d} ELSE since[r]
  BY DEF Commit
<1>2. db \in Databases
  BY DEF IInv, TypeOK
<1>3. ASSUME NEW t, NEW x, NEW n \in Nat, Lasting(t, x), Holds(db, t, x, n)
      PROVE  Holds(d, t, x, n)
  <2>1. Level(d.rows[<<t, x>>]) >= Level(db.rows[<<t, x>>])
    BY <1>3 DEF Grown, Lasting
  <2>2. Level(d.rows[<<t, x>>]) \in Nat /\ Level(db.rows[<<t, x>>]) \in Nat
    BY <1>2, <1>3, LevelType
  <2> QED BY <1>3, <2>1, <2>2 DEF Holds
<1>4. \A w \in Reports : w.value \in Nat
  BY DEF Reports
<1>5. SettingsOnce'
  BY <1>1 DEF SettingsOnce
<1>6. ReportsHold'
  <2> SUFFICES ASSUME NEW w \in acked PROVE Lasting(w.table, w.row) /\ Holds(d, w.table, w.row, w.value)
    BY <1>1 DEF ReportsHold, Holds
  <2>1. Lasting(w.table, w.row) /\ Holds(db, w.table, w.row, w.value)
    BY DEF WInv, ReportsHold
  <2>2. w.value \in Nat
    BY <1>4 DEF IInv, TypeOK
  <2> QED BY <1>3, <2>1, <2>2
<1>7. FloorsHold'
  <2> SUFFICES ASSUME NEW r \in Requests, NEW w \in floor[r]
               PROVE  /\ Lasting(w.table, w.row)
                      /\ \A e \in since'[r] : Holds(e, w.table, w.row, w.value)
    BY DEF FloorsHold, Holds
  <2>1. Lasting(w.table, w.row) /\ \A e \in since[r] : Holds(e, w.table, w.row, w.value)
    BY DEF WInv, FloorsHold
  <2>2. w.value \in Nat
    BY <1>4 DEF IInv, TypeOK
  <2>3. CASE pc[r] = "running"
    <3>1. Holds(db, w.table, w.row, w.value)
      BY <2>1, <2>3 DEF IInv, RequestsSee
    <3>2. Holds(d, w.table, w.row, w.value)
      BY <1>3, <2>1, <2>2, <3>1
    <3>3. since'[r] = since[r] \cup {d}
      BY <1>1, <2>3
    <3> QED BY <2>1, <3>2, <3>3
  <2>4. CASE pc[r] # "running"
    BY <1>1, <2>1, <2>4
  <2> QED BY <2>3, <2>4
<1>8. \A t, x : \A n \in Nat : Lasting(t, x) /\ Holds(db, t, x, n) => Holds(db', t, x, n)
  BY <1>1, <1>3
<1> QED BY <1>5, <1>6, <1>7, <1>8

LEMMA OthersGrow ==
    ASSUME IInv, WInv, Others
    PROVE  /\ Quiet
           /\ \E d \in Databases : Commit(d) /\ Grown(d) /\ d.rows[<<"user_settings", User>>] \in {Null, 1}
<1>1. CASE \E p \in Places : Write(p[1], p[2])
  <2>1. PICK p \in Places : Write(p[1], p[2])
    BY <1>1
  <2> DEFINE t == p[1]
             x == p[2]
             old == db.rows[<<t, x>>]
  <2>2. <<t, x>> \in Places /\ db \in Databases
    BY DEF Places, IInv, TypeOK
  <2>3. t \notin Optional => old \in Nat
    BY <2>2 DEF Databases, Values
  <2>4. old \in Values
    BY <2>2 DEF Databases
  <2>5. PICK v \in IF t = "bot_runtime_data"
                   THEN {Null, IF old = Null THEN 1 ELSE old + 1} ELSE {old + 1} :
            Commit(Put(t, x, v))
    BY <2>1 DEF Write
  <2>6. t # "user_settings"
    BY <2>1 DEF Write
  <2>7. v \in Values /\ (t \in Optional \/ v # Null) /\ (t # "bot_runtime_data" => v \in Nat /\ v >= Level(old))
    BY <2>3, <2>4, <2>5, <2>6, NullAssumption DEF Values, Optional, Level
  <2>8. Put(t, x, v) \in Databases
    BY <2>2, <2>7, PutDatabase
  <2>9. Grown(Put(t, x, v)) /\ Put(t, x, v).rows[<<"user_settings", User>>] \in {Null, 1}
    BY <2>2, <2>6, <2>7, PutGrows DEF WInv
  <2> QED BY <2>1, <2>5, <2>8, <2>9 DEF Write
<1>2. CASE \E b \in Bots : Archive(b)
  <2>1. PICK b \in Bots : Archive(b)
    BY <1>2
  <2> DEFINE d == [rows |-> [db.rows EXCEPT ![<<"bots", b>>] = @ + 1], archived |-> db.archived \cup {b}]
             v == db.rows[<<"bots", b>>] + 1
  <2>2. db \in Databases /\ <<"bots", b>> \in Places
    BY DEF Places, BotTables, IInv, TypeOK
  <2>3. db.rows[<<"bots", b>>] \in Nat
    BY <2>2 DEF Databases, Values, Optional
  <2>4. d \in Databases
    BY <2>2, <2>3, NullAssumption DEF Databases, Values
  <2>5. v \in Values /\ v \in Nat /\ v >= Level(db.rows[<<"bots", b>>])
    BY <2>3, NullAssumption DEF Values, Level
  <2>6. /\ Grown(Put("bots", b, v))
        /\ Put("bots", b, v).rows[<<"user_settings", User>>] \in {Null, 1}
    BY <2>2, <2>5, PutGrows DEF WInv
  <2>7. d.rows = Put("bots", b, v).rows
    BY DEF Put
  <2>8. Commit(d) /\ Quiet
    BY <2>1 DEF Archive
  <2> QED BY <2>4, <2>6, <2>7, <2>8 DEF Grown
<1> QED BY <1>1, <1>2 DEF Others

LEMMA WritesStay ==
    ASSUME IInv, WInv, UNCHANGED <<doc, wrote>>,
           \A t, x : \A n \in Nat : Lasting(t, x) /\ Holds(db, t, x, n) => Holds(db', t, x, n)
    PROVE  WritesHold'
<1> SUFFICES ASSUME NEW r \in Requests, NEW i \in FieldsOf(r), wrote[r][i] # 0, NEW x \in Field(r, i).rows
             PROVE  Lasting(Field(r, i).table, x) /\ Holds(db', Field(r, i).table, x, wrote[r][i])
  BY DEF WritesHold, Holds, FieldsOf, Field, Lasting
<1>1. Lasting(Field(r, i).table, x) /\ Holds(db, Field(r, i).table, x, wrote[r][i])
  BY DEF WInv, WritesHold
<1>2. wrote[r][i] \in Nat
  BY DEF IInv, TypeOK
<1> QED BY <1>1, <1>2

LEMMA ReadersStay ==
    ASSUME WInv, UNCHANGED <<doc, cache, shown, wrote>>
    PROVE  CacheKnowsWrites' /\ ShownKnowsWrites'
<1>1. CacheKnowsWrites'
  BY DEF WInv, CacheKnowsWrites, ShownBefore, EntryOf, FieldsOf, Field
<1>2. ShownKnowsWrites'
  BY DEF WInv, ShownKnowsWrites, Writes, LoadedBefore, FieldsOf, Field
<1> QED BY <1>1, <1>2

LEMMA OthersKeepWrites ==
    ASSUME IInv, WInv, Others
    PROVE  WInv'
<1>1. PICK d \in Databases : Commit(d) /\ Grown(d) /\ d.rows[<<"user_settings", User>>] \in {Null, 1}
  BY OthersGrow
<1>2. UNCHANGED <<doc, pc, todo, tasks, cache, shown, wrote, acked, floor>>
  BY OthersGrow DEF Quiet
<1>3. /\ SettingsOnce' /\ ReportsHold' /\ FloorsHold'
      /\ \A t, x : \A n \in Nat : Lasting(t, x) /\ Holds(db, t, x, n) => Holds(db', t, x, n)
  BY <1>1, <1>2, GrowthKeeps
<1>4. WritesHold' /\ CacheKnowsWrites' /\ ShownKnowsWrites'
  BY <1>2, <1>3, WritesStay, ReadersStay
<1>5. InOrder'
  BY <1>2 DEF WInv, InOrder, FieldsOf, Fits
<1> QED BY <1>3, <1>4, <1>5 DEF WInv

LEMMA BeginKeepsWrites ==
    ASSUME IInv, WInv, NEW r \in Requests, Begin(r)
    PROVE  WInv'
<1>1. cache[r] = {} /\ shown[r] = {} /\ tasks[r] = {} /\ pc[r] = "idle"
  BY DEF Begin, IInv, RequestsSee
<1>2. cache' = cache
  BY <1>1 DEF Begin, Fresh, IInv, TypeOK
<1>3. /\ pc' = [pc EXCEPT ![r] = "running"]
      /\ todo' = [todo EXCEPT ![r] = FieldsOf(r)]
      /\ since' = [since EXCEPT ![r] = {db}]
      /\ floor' = [floor EXCEPT ![r] = acked]
      /\ UNCHANGED <<db, writes, doc, tasks, cache, shown, wrote, acked>>
  BY <1>2 DEF Begin
<1>4. SettingsOnce' /\ ReportsHold' /\ WritesHold'
  BY <1>3 DEF WInv, SettingsOnce, ReportsHold, WritesHold, Holds, FieldsOf, Field
<1>5. FloorsHold'
  <2> SUFFICES ASSUME NEW q \in Requests, NEW w \in floor'[q]
               PROVE  Lasting(w.table, w.row) /\ \A d \in since'[q] : Holds(d, w.table, w.row, w.value)
    BY DEF FloorsHold, Holds
  <2>1. CASE q = r
    <3>1. w \in acked /\ since'[q] = {db}
      BY <1>3, <2>1 DEF IInv, TypeOK
    <3> QED BY <3>1 DEF WInv, ReportsHold
  <2>2. CASE q # r
    <3>1. w \in floor[q] /\ since'[q] = since[q]
      BY <1>3, <2>2 DEF IInv, TypeOK
    <3> QED BY <3>1 DEF WInv, FloorsHold
  <2> QED BY <2>1, <2>2
<1>6. InOrder'
  <2> SUFFICES ASSUME NEW q \in Requests
               PROVE  /\ \A i \in FieldsOf(q) : wrote[q][i] # 0 =>
                             doc[q].serial /\ pc'[q] # "idle" /\ i \notin todo'[q]
                      /\ doc[q].serial => \A i \in todo'[q], j \in FieldsOf(q) : i <= j => j \in todo'[q]
                      /\ \A t \in tasks[q] : t.field \notin todo'[q]
                      /\ \A a \in shown[q] : /\ a.field \notin todo'[q]
                                             /\ a.field \in FieldsOf(q) /\ Fits(a.kind, a.row)
    BY <1>3 DEF InOrder, FieldsOf, Fits
  <2>1. CASE q = r
    BY <1>1, <1>3, <2>1 DEF IInv, TypeOK, WInv, InOrder
  <2>2. CASE q # r
    <3>1. todo'[q] = todo[q] /\ pc'[q] = pc[q]
      BY <1>3, <2>2 DEF IInv, TypeOK
    <3> QED BY <3>1 DEF WInv, InOrder
  <2> QED BY <2>1, <2>2
<1>7. CacheKnowsWrites' /\ ShownKnowsWrites'
  BY <1>3, ReadersStay
<1> QED BY <1>4, <1>5, <1>6, <1>7 DEF WInv

LEMMA StartKeepsOrder ==
    ASSUME IInv, WInv, NEW r \in Requests, NEW i \in FieldsOf(r), MayStart(r, i), Started(r, i)
    PROVE  /\ todo'[r] = todo[r] \ {i} /\ \A q \in Requests : q # r => todo'[q] = todo[q]
           /\ \A q \in Requests : doc[q].serial =>
                 \A j \in todo'[q], k \in FieldsOf(q) : j <= k => k \in todo'[q]
           /\ doc[r].serial => \A a \in shown[r] : a.field < i
<1>1. todo'[r] = todo[r] \ {i} /\ \A q \in Requests : q # r => todo'[q] = todo[q]
  BY DEF Started, IInv, TypeOK
<1>2. FieldsOf(r) \subseteq Nat
  BY DocFacts DEF IInv, TypeOK
<1>3. doc[r].serial => \A j \in todo[r] : i <= j
  BY DEF MayStart
<1>4. todo[r] \subseteq FieldsOf(r) /\ i \in todo[r]
  BY DEF IInv, TypeOK, MayStart
<1>5. doc[r].serial => \A j \in todo'[r], k \in FieldsOf(r) : j <= k => k \in todo'[r]
  BY <1>1, <1>2, <1>3, <1>4 DEF WInv, InOrder
<1>6. doc[r].serial => \A a \in shown[r] : a.field < i
  <2> SUFFICES ASSUME doc[r].serial, NEW a \in shown[r] PROVE a.field < i
    OBVIOUS
  <2>1. a.field \in FieldsOf(r) /\ a.field \notin todo[r]
    BY DEF WInv, InOrder
  <2> QED BY <1>2, <1>4, <2>1 DEF WInv, InOrder
<1> QED BY <1>1, <1>5, <1>6 DEF WInv, InOrder

LEMMA SpawnKeepsOrder ==
    ASSUME IInv, WInv, NEW r \in Requests, NEW i \in FieldsOf(r), MayStart(r, i), Started(r, i),
           tasks' \in {tasks, [tasks EXCEPT ![r] = @ \cup Spawned(i, Field(r, i))]},
           UNCHANGED <<doc, pc, shown>>,
           \A q \in Requests : \A j \in FieldsOf(q) :
               wrote'[q][j] # 0 => wrote[q][j] # 0 \/ (q = r /\ j = i /\ doc[r].serial)
    PROVE  InOrder'
<1>1. /\ todo'[r] = todo[r] \ {i} /\ \A q \in Requests : q # r => todo'[q] = todo[q]
      /\ \A q \in Requests : doc[q].serial =>
            \A j \in todo'[q], k \in FieldsOf(q) : j <= k => k \in todo'[q]
  BY StartKeepsOrder
<1>2. \A t \in Spawned(i, Field(r, i)) : t.field = i
  BY DocFacts, SpawnedTasks DEF IInv, TypeOK
<1>3. pc[r] = "running"
  BY DEF MayStart
<1> SUFFICES ASSUME NEW q \in Requests
             PROVE  /\ \A j \in FieldsOf(q) : wrote'[q][j] # 0 =>
                           doc[q].serial /\ pc[q] # "idle" /\ j \notin todo'[q]
                    /\ doc[q].serial => \A j \in todo'[q], k \in FieldsOf(q) : j <= k => k \in todo'[q]
                    /\ \A t \in tasks'[q] : t.field \notin todo'[q]
                    /\ \A a \in shown[q] : /\ a.field \notin todo'[q]
                                           /\ a.field \in FieldsOf(q) /\ Fits(a.kind, a.row)
  BY DEF InOrder, FieldsOf, Fits
<1>4. todo'[q] \subseteq todo[q]
  BY <1>1
<1>5. \A j \in FieldsOf(q) : wrote'[q][j] # 0 => doc[q].serial /\ pc[q] # "idle" /\ j \notin todo'[q]
  BY <1>1, <1>3, <1>4 DEF WInv, InOrder
<1>6. \A t \in tasks'[q] : t \in tasks[q] \/ (q = r /\ t \in Spawned(i, Field(r, i)))
  BY DEF IInv, TypeOK
<1>7. \A t \in tasks'[q] : t.field \notin todo'[q]
  BY <1>1, <1>2, <1>4, <1>6 DEF WInv, InOrder
<1> QED BY <1>1, <1>4, <1>5, <1>7 DEF WInv, InOrder

LEMMA QueryKeepsWrites ==
    ASSUME IInv, WInv, NEW r \in Requests, NEW i \in FieldsOf(r), Query(r, i) \/ RootFails(r, i)
    PROVE  WInv'
<1>1. /\ MayStart(r, i) /\ Started(r, i)
      /\ tasks' \in {tasks, [tasks EXCEPT ![r] = @ \cup Spawned(i, Field(r, i))]}
      /\ UNCHANGED <<db, writes, doc, pc, cache, shown, since, wrote, acked, floor>>
  BY DEF Query, RootFails
<1>2. SettingsOnce' /\ ReportsHold' /\ WritesHold'
  BY <1>1 DEF WInv, SettingsOnce, ReportsHold, WritesHold, Holds, FieldsOf, Field
<1>3. FloorsHold'
  BY <1>1 DEF WInv, FloorsHold, Holds
<1>4. InOrder'
  BY <1>1, SpawnKeepsOrder
<1>5. CacheKnowsWrites' /\ ShownKnowsWrites'
  BY <1>1, ReadersStay
<1> QED BY <1>2, <1>3, <1>4, <1>5 DEF WInv

LEMMA MutateKeepsWrites ==
    ASSUME IInv, WInv, NEW r \in Requests, NEW i \in FieldsOf(r), Mutate(r, i)
    PROVE  WInv'
<1> DEFINE f == Field(r, i)
<1>1. /\ MayStart(r, i) /\ Started(r, i)
      /\ tasks' = [tasks EXCEPT ![r] = @ \cup Spawned(i, f)]
      /\ UNCHANGED <<writes, doc, pc, cache, shown, acked, floor>>
  BY DEF Mutate
<1>2. PICK x \in f.rows : /\ Commit(Put(f.table, x, Written(f.table, x)))
                         /\ wrote' = [wrote EXCEPT ![r][i] = Stamp(f.table, x)]
  BY DEF Mutate
<1> DEFINE v == Stamp(f.table, x)
           d == Put(f.table, x, v)
<1>3. f \in Writing /\ doc[r].serial
  <2>1. f \in Reading \cup Writing /\ f.table # Null
    BY DocFacts DEF IInv, TypeOK, Mutate
  <2>2. f \notin Reading
    BY <2>1 DEF Reading
  <2> QED BY <2>1, <2>2, DocFacts DEF IInv, TypeOK
<1>4. <<f.table, x>> \in Places /\ f.table \notin Optional \ {"user_settings"} /\ f.rows = {x}
  BY <1>2, <1>3 DEF Writing, Places, BotTables, UserTables, Optional
<1>5. v \in Nat /\ v \in Values /\ v # Null
  BY <1>4, StampValue DEF IInv, TypeOK
<1>6. d \in Databases
  BY <1>4, <1>5, PutDatabase DEF IInv, TypeOK
<1>7. v >= Level(db.rows[<<f.table, x>>]) /\ (f.table = "user_settings" => v = 1)
  <2>1. CASE f.table = "user_settings"
    <3>1. x = User
      BY <1>3, <2>1, <1>2 DEF Writing
    <3> QED BY <2>1, <3>1 DEF WInv, SettingsOnce, Stamp, Level
  <2>2. CASE f.table # "user_settings"
    <3>1. db.rows[<<f.table, x>>] \in Nat
      BY <1>4, <2>2 DEF IInv, TypeOK, Databases, Values
    <3> QED BY <2>2, <3>1, NullAssumption DEF Stamp, Level
  <2> QED BY <2>1, <2>2
<1>8. Grown(d) /\ d.rows[<<"user_settings", User>>] \in {Null, 1}
  BY <1>4, <1>5, <1>7, PutGrows DEF WInv
<1>9. Commit(d) /\ db' = d
  BY <1>2 DEF Written, Commit
<1>10. d.rows[<<f.table, x>>] = v
  BY <1>4 DEF IInv, TypeOK, Databases, Put
<1>11. wrote' = [wrote EXCEPT ![r][i] = v]
  BY <1>2
<1> HIDE DEF d, v
<1>12. /\ SettingsOnce' /\ ReportsHold' /\ FloorsHold'
       /\ \A t, y : \A n \in Nat : Lasting(t, y) /\ Holds(db, t, y, n) => Holds(db', t, y, n)
  BY <1>1, <1>6, <1>8, <1>9, GrowthKeeps
<1>13. wrote'[r][i] = v
  <2>1. wrote[r] \in [FieldsOf(r) -> Nat] /\ DOMAIN wrote = Requests
    BY DEF IInv, TypeOK
  <2> QED BY <1>11, <2>1
<1>14. \A q \in Requests : \A j \in FieldsOf(q) : ~(q = r /\ j = i) => wrote'[q][j] = wrote[q][j]
  <2>1. DOMAIN wrote = Requests /\ \A q \in Requests : wrote[q] \in [FieldsOf(q) -> Nat]
    BY DEF IInv, TypeOK
  <2> QED BY <1>11, <2>1
<1>15. WritesHold'
  <2> SUFFICES ASSUME NEW q \in Requests, NEW j \in FieldsOf(q), wrote'[q][j] # 0, NEW y \in Field(q, j).rows
               PROVE  Lasting(Field(q, j).table, y) /\ Holds(db', Field(q, j).table, y, wrote'[q][j])
    BY <1>1 DEF WritesHold, Holds, FieldsOf, Field, Lasting
  <2>1. CASE q = r /\ j = i
    <3>1. y = x /\ Lasting(f.table, x)
      BY <1>4, <2>1 DEF Lasting, Optional
    <3>2. Level(d.rows[<<f.table, x>>]) = v
      BY <1>5, <1>10 DEF Level
    <3> QED BY <1>5, <1>9, <1>13, <2>1, <3>1, <3>2 DEF Holds
  <2>2. CASE ~(q = r /\ j = i)
    <3>1. wrote'[q][j] = wrote[q][j] /\ wrote[q][j] \in Nat
      BY <1>14, <2>2 DEF IInv, TypeOK
    <3>2. Lasting(Field(q, j).table, y) /\ Holds(db, Field(q, j).table, y, wrote[q][j])
      BY <3>1 DEF WInv, WritesHold
    <3> QED BY <1>12, <3>1, <3>2
  <2> QED BY <2>1, <2>2
<1>16. InOrder'
  <2>1. tasks' \in {tasks, [tasks EXCEPT ![r] = @ \cup Spawned(i, Field(r, i))]}
    BY <1>1
  <2>2. \A q \in Requests : \A j \in FieldsOf(q) :
            wrote'[q][j] # 0 => wrote[q][j] # 0 \/ (q = r /\ j = i /\ doc[r].serial)
    BY <1>3, <1>14
  <2> QED BY <1>1, <2>1, <2>2, SpawnKeepsOrder
<1>17. \A a \in shown[r] : a.field < i
  BY <1>1, <1>3, StartKeepsOrder
<1>18. CacheKnowsWrites'
  <2> SUFFICES ASSUME NEW q \in Requests, NEW c \in cache[q]
               PROVE  /\ \E b \in shown[q] : b.kind \in Loaded /\ EntryOf(b) = c
                      /\ \A k \in Loaded, j \in FieldsOf(q) :
                            /\ LoaderOf[k] = c.loader /\ Field(q, j).table = TableOf[k]
                            /\ c.row \in Field(q, j).rows /\ wrote'[q][j] # 0
                            => \/ k = "bot" /\ c.value = Null
                               \/ Level(c.value) >= wrote'[q][j]
                               \/ ShownBefore(q, c, j)
    BY <1>1 DEF CacheKnowsWrites, ShownBefore, EntryOf, FieldsOf, Field
  <2>1. PICK b \in shown[q] : b.kind \in Loaded /\ EntryOf(b) = c
    BY DEF WInv, CacheKnowsWrites
  <2>2. ASSUME NEW k \in Loaded, NEW j \in FieldsOf(q),
               LoaderOf[k] = c.loader, Field(q, j).table = TableOf[k],
               c.row \in Field(q, j).rows, wrote'[q][j] # 0
        PROVE  (k = "bot" /\ c.value = Null) \/ Level(c.value) >= wrote'[q][j] \/ ShownBefore(q, c, j)
    <3>1. CASE q = r /\ j = i
      BY <1>17, <2>1, <3>1 DEF ShownBefore
    <3>2. CASE ~(q = r /\ j = i)
      BY <1>14, <2>2, <3>2 DEF WInv, CacheKnowsWrites
    <3> QED BY <3>1, <3>2
  <2> QED BY <2>1, <2>2
<1>19. ShownKnowsWrites'
  <2> SUFFICES ASSUME NEW q \in Requests, NEW a \in shown[q], NEW j \in FieldsOf(q), j <= a.field,
                      Field(q, j).table = TableOf[a.kind], a.row \in Field(q, j).rows, wrote'[q][j] # 0,
                      ~Hidden(a), ~LoadedBefore(q, a, j)
               PROVE  Level(a.value) >= wrote'[q][j]
    BY <1>1 DEF ShownKnowsWrites, Writes, LoadedBefore, FieldsOf, Field
  <2>1. ~(q = r /\ j = i)
    <3>1. FieldsOf(q) \subseteq Nat /\ a.field \in FieldsOf(q)
      BY DocFacts DEF IInv, TypeOK, WInv, InOrder
    <3> QED BY <1>17, <3>1
  <2> QED BY <1>14, <2>1 DEF WInv, ShownKnowsWrites, Writes
<1> QED BY <1>12, <1>15, <1>16, <1>18, <1>19 DEF WInv

\* A resolver that is answered from the database is answered with every write
\* that has been made.
LEMMA FreshKnowsWrites ==
    ASSUME WInv, NEW r \in Requests, NEW a, a.value = Select(db, a.kind, a.row),
           NEW j \in FieldsOf(r), Writes(r, j, a), ~Hidden(a)
    PROVE  Level(a.value) >= wrote[r][j]
<1>1. a.value = db.rows[<<TableOf[a.kind], a.row>>]
  BY DEF Select, Hidden
<1> QED BY <1>1 DEF WInv, WritesHold, Holds, Writes

LEMMA AnswersKeepWrites ==
    ASSUME IInv, WInv, NEW r \in Requests, pc[r] = "running", NEW S, \A a \in S : Answerable(r, a),
           Resolve(r, S), UNCHANGED <<db, doc, pc, todo, since, wrote, acked, floor>>,
           \A a \in S : \A j \in FieldsOf(r) :
               j <= a.field /\ Writes(r, j, a) /\ ~Hidden(a) /\ ~LoadedBefore(r, a, j)
               => Level(a.value) >= wrote[r][j]
    PROVE  /\ SettingsOnce' /\ ReportsHold' /\ FloorsHold' /\ WritesHold' /\ InOrder'
           /\ ShownKnowsWrites'
<1>1. /\ shown'[r] = shown[r] \cup S
      /\ \A q \in Requests : q # r => shown'[q] = shown[q] /\ tasks'[q] = tasks[q]
      /\ \A t \in tasks'[r] : \E u \in tasks[r] : u.field = t.field
  BY ResolvePreserves
<1>2. SettingsOnce' /\ ReportsHold' /\ WritesHold'
  BY DEF WInv, SettingsOnce, ReportsHold, WritesHold, Holds, FieldsOf, Field
<1>3. FloorsHold'
  BY DEF WInv, FloorsHold, Holds
<1>4. InOrder'
  <2> SUFFICES ASSUME NEW q \in Requests
               PROVE  /\ \A t \in tasks'[q] : t.field \notin todo[q]
                      /\ \A a \in shown'[q] : /\ a.field \notin todo[q]
                                              /\ a.field \in FieldsOf(q) /\ Fits(a.kind, a.row)
    BY DEF WInv, InOrder, FieldsOf, Fits
  <2>1. CASE q = r
    BY <1>1, <2>1 DEF WInv, InOrder, Answerable
  <2>2. CASE q # r
    BY <1>1, <2>2 DEF WInv, InOrder
  <2> QED BY <2>1, <2>2
<1>5. \A q \in Requests : shown[q] \subseteq shown'[q]
  BY <1>1
<1>6. ShownKnowsWrites'
  <2> SUFFICES ASSUME NEW q \in Requests, NEW a \in shown'[q], NEW j \in FieldsOf(q), j <= a.field,
                      Writes(q, j, a), ~Hidden(a), ~LoadedBefore(q, a, j)
               PROVE  Level(a.value) >= wrote[q][j]
    BY <1>5 DEF ShownKnowsWrites, Writes, LoadedBefore, FieldsOf, Field
  <2>1. CASE a \in shown[q]
    BY <2>1 DEF WInv, ShownKnowsWrites
  <2>2. CASE a \notin shown[q]
    BY <1>1, <2>2
  <2> QED BY <2>1, <2>2
<1> QED BY <1>2, <1>3, <1>4, <1>6

LEMMA BatchKeepsWrites ==
    ASSUME IInv, WInv, NEW r \in Requests, NEW l \in Loaders, Batch(r, l)
    PROVE  WInv'
<1>1. /\ pc[r] = "running"
      /\ UNCHANGED <<db, writes, doc, pc, todo, since, wrote, acked, floor>>
  BY DEF Batch
<1>2. PICK keys \in SUBSET Missing(r, l) : Keep(r, Found(r, l, keys)) /\ Resolve(r, Found(r, l, keys))
  BY DEF Batch
<1>3. keys \in SUBSET Rows
  BY DEF Missing
<1> DEFINE S == Found(r, l, keys)
           new == {[loader |-> LoaderOf[a.kind], row |-> a.row, value |-> a.value] : a \in S}
<1>4. \A a \in S : Answerable(r, a) /\ a.kind \in Loaded /\ a.value = Select(db, a.kind, a.row)
  BY <1>1, <1>3, FoundAnswers
<1>5. cache' = [cache EXCEPT ![r] = @ \cup new]
  BY <1>2 DEF Keep
<1>6. \A c \in new : \E a \in S : c = EntryOf(a)
  BY DEF EntryOf
<1>7. Resolve(r, S)
  BY <1>2
<1> HIDE DEF S, new
<1>8. cache'[r] = cache[r] \cup new /\ \A q \in Requests : q # r => cache'[q] = cache[q]
  BY <1>5 DEF IInv, TypeOK
<1>9. /\ shown'[r] = shown[r] \cup S
      /\ \A q \in Requests : q # r => shown'[q] = shown[q]
  BY <1>1, <1>4, <1>7, ResolvePreserves
<1>10. /\ SettingsOnce' /\ ReportsHold' /\ FloorsHold' /\ WritesHold' /\ InOrder'
       /\ ShownKnowsWrites'
  BY <1>1, <1>4, <1>7, FreshKnowsWrites, AnswersKeepWrites
<1>11. CacheKnowsWrites'
  <2> SUFFICES ASSUME NEW q \in Requests, NEW c \in cache'[q]
               PROVE  /\ \E b \in shown'[q] : b.kind \in Loaded /\ EntryOf(b) = c
                      /\ \A k \in Loaded, j \in FieldsOf(q) :
                            /\ LoaderOf[k] = c.loader /\ Field(q, j).table = TableOf[k]
                            /\ c.row \in Field(q, j).rows /\ wrote[q][j] # 0
                            => \/ k = "bot" /\ c.value = Null
                               \/ Level(c.value) >= wrote[q][j]
                               \/ \E b \in shown'[q] : b.kind \in Loaded /\ EntryOf(b) = c /\ b.field < j
    BY <1>1 DEF CacheKnowsWrites, ShownBefore, EntryOf, FieldsOf, Field
  <2>1. CASE c \in cache[q]
    BY <2>1, <1>9 DEF WInv, CacheKnowsWrites, ShownBefore
  <2>2. CASE q = r /\ c \in new
    <3>1. PICK a \in S : c = EntryOf(a)
      BY <1>6, <2>2
    <3>2. a.kind \in Loaded /\ a.value = Select(db, a.kind, a.row) /\ a \in shown'[q]
      BY <1>4, <1>9, <2>2, <3>1
    <3>3. c.loader = LoaderOf[a.kind] /\ c.row = a.row /\ c.value = a.value
      BY <3>1 DEF EntryOf
    <3>4. ASSUME NEW k \in Loaded, NEW j \in FieldsOf(q),
                 LoaderOf[k] = c.loader, Field(q, j).table = TableOf[k],
                 c.row \in Field(q, j).rows, wrote[q][j] # 0
          PROVE  (k = "bot" /\ c.value = Null) \/ Level(c.value) >= wrote[q][j]
      <4>1. TableOf[k] = TableOf[a.kind] /\ (k = "bot" <=> a.kind = "bot")
        BY <3>2, <3>3, <3>4, LoaderFacts
      <4>2. Writes(q, j, a)
        BY <3>3, <3>4, <4>1 DEF Writes
      <4>3. CASE Hidden(a)
        BY <3>3, <4>1, <4>3 DEF Hidden
      <4>4. CASE ~Hidden(a)
        BY <3>2, <3>3, <4>2, <4>4, FreshKnowsWrites
      <4> QED BY <4>3, <4>4
    <3> QED BY <3>1, <3>2, <3>4
  <2> QED BY <2>1, <2>2, <1>8
<1> QED BY <1>10, <1>11 DEF WInv

LEMMA DeliverKeepsWrites ==
    ASSUME IInv, WInv, NEW r \in Requests, NEW l \in Loaders, NEW x \in Rows, Deliver(r, l, x)
    PROVE  WInv'
<1> DEFINE S == Hit(r, l, x)
<1>1. /\ pc[r] = "running" /\ Resolve(r, S)
      /\ UNCHANGED <<db, writes, doc, pc, todo, cache, since, wrote, acked, floor>>
  BY DEF Deliver
<1>2. \A a \in S : Answerable(r, a) /\ a.kind \in Loaded /\ EntryOf(a) \in cache[r]
  BY HitAnswers
<1> HIDE DEF S
<1>3. ASSUME NEW a \in S, NEW j \in FieldsOf(r), Writes(r, j, a), ~Hidden(a), ~LoadedBefore(r, a, j)
      PROVE  Level(a.value) >= wrote[r][j]
  <2>1. EntryOf(a).loader = LoaderOf[a.kind] /\ EntryOf(a).row = a.row /\ EntryOf(a).value = a.value
    BY DEF EntryOf
  <2>2. \/ a.kind = "bot" /\ a.value = Null
        \/ Level(a.value) >= wrote[r][j]
        \/ ShownBefore(r, EntryOf(a), j)
    BY <1>2, <1>3, <2>1 DEF WInv, CacheKnowsWrites, Writes
  <2>3. ~ShownBefore(r, EntryOf(a), j)
    <3> SUFFICES ASSUME NEW b \in shown[r], b.kind \in Loaded, EntryOf(b) = EntryOf(a), b.field < j
                 PROVE  FALSE
      BY DEF ShownBefore
    <3>1. b.row = a.row /\ LoaderOf[b.kind] = LoaderOf[a.kind]
      BY <2>1 DEF EntryOf
    <3> QED BY <1>2, <1>3, <3>1 DEF LoadedBefore
  <2> QED BY <1>3, <2>2, <2>3 DEF Hidden
<1>4. /\ SettingsOnce' /\ ReportsHold' /\ FloorsHold' /\ WritesHold' /\ InOrder'
      /\ ShownKnowsWrites'
  BY <1>1, <1>2, <1>3, AnswersKeepWrites
<1>5. /\ shown'[r] = shown[r] \cup S
      /\ \A q \in Requests : q # r => shown'[q] = shown[q]
  BY <1>1, <1>2, ResolvePreserves
<1>6. CacheKnowsWrites'
  <2>1. \A q \in Requests : shown[q] \subseteq shown'[q]
    BY <1>5
  <2> QED BY <1>1, <2>1 DEF WInv, CacheKnowsWrites, ShownBefore, EntryOf, FieldsOf, Field
<1> QED BY <1>4, <1>6 DEF WInv

LEMMA DropKeepsWrites ==
    ASSUME IInv, WInv, NEW r \in Requests, NEW T, tasks' = [tasks EXCEPT ![r] = @ \ T],
           UNCHANGED <<db, writes, doc, pc, todo, cache, shown, since, wrote, acked, floor>>
    PROVE  WInv'
<1>1. SettingsOnce' /\ ReportsHold' /\ WritesHold'
  BY DEF WInv, SettingsOnce, ReportsHold, WritesHold, Holds, FieldsOf, Field
<1>2. FloorsHold'
  BY DEF WInv, FloorsHold, Holds
<1>3. \A q \in Requests : tasks'[q] \subseteq tasks[q]
  BY DEF IInv, TypeOK
<1>4. InOrder'
  BY <1>3 DEF WInv, InOrder, FieldsOf, Fits
<1> QED BY <1>1, <1>2, <1>4, ReadersStay DEF WInv

LEMMA OwnQueryKeepsWrites ==
    ASSUME IInv, WInv, NEW r \in Requests, NEW t \in tasks[r], OwnQuery(r, t)
    PROVE  WInv'
<1>1. /\ pc[r] = "running" /\ t.kind \in Direct
      /\ UNCHANGED <<db, writes, doc, pc, todo, cache, since, wrote, acked, floor>>
  BY DEF OwnQuery
<1>2. CASE tasks' = [tasks EXCEPT ![r] = @ \ {t}] /\ UNCHANGED shown
  BY <1>1, <1>2, DropKeepsWrites
<1>3. CASE Resolve(r, {Answer(t, Select(db, t.kind, t.row))})
  <2> DEFINE a == Answer(t, Select(db, t.kind, t.row))
  <2>1. t \in Tasks /\ t.field \in FieldsOf(r) /\ Fits(t.kind, t.row)
    BY DEF IInv, TypeOK, TasksFit
  <2>2. Select(db, t.kind, t.row) \in Values /\ db \in since[r]
    BY <1>1, <2>1, SelectValue DEF IInv, TypeOK, RequestsSee, Tasks
  <2>3. Answerable(r, a) /\ a.value = Select(db, a.kind, a.row)
    BY <2>1, <2>2 DEF Answer, Answers, Answerable, Tasks
  <2> HIDE DEF a
  <2>4. Resolve(r, {a})
    BY <1>3 DEF a
  <2>5. /\ SettingsOnce' /\ ReportsHold' /\ FloorsHold' /\ WritesHold' /\ InOrder'
        /\ ShownKnowsWrites'
    BY <1>1, <2>3, <2>4, FreshKnowsWrites, AnswersKeepWrites
  <2>6. \A q \in Requests : shown[q] \subseteq shown'[q]
    BY <1>1, <2>3, <2>4, ResolvePreserves
  <2>7. CacheKnowsWrites'
    BY <1>1, <2>6 DEF WInv, CacheKnowsWrites, ShownBefore, EntryOf, FieldsOf, Field
  <2> QED BY <2>5, <2>7 DEF WInv
<1> QED BY <1>2, <1>3 DEF OwnQuery

LEMMA EndKeepsWrites ==
    ASSUME IInv, WInv, NEW r \in Requests, End(r)
    PROVE  WInv'
<1>1. /\ todo[r] = {} /\ tasks[r] = {}
      /\ pc' = [pc EXCEPT ![r] = "done"]
      /\ cache' = [cache EXCEPT ![r] = {}]
      /\ shown' = [shown EXCEPT ![r] = {}]
      /\ since' = [since EXCEPT ![r] = {}]
      /\ acked' = acked \cup WritesOf(r)
      /\ UNCHANGED <<db, writes, doc, todo, tasks, wrote, floor>>
  BY DEF End, Fresh
<1>2. SettingsOnce' /\ WritesHold'
  BY <1>1 DEF WInv, SettingsOnce, WritesHold, Holds, FieldsOf, Field
<1>3. ReportsHold'
  <2> SUFFICES ASSUME NEW w \in acked' PROVE Lasting(w.table, w.row) /\ Holds(db, w.table, w.row, w.value)
    BY <1>1 DEF ReportsHold, Holds
  <2>1. CASE w \in acked
    BY <2>1 DEF WInv, ReportsHold
  <2>2. CASE w \in WritesOf(r)
    BY <2>2, WritesTyped DEF WInv, WritesHold
  <2> QED BY <1>1, <2>1, <2>2
<1>4. /\ cache'[r] = {} /\ shown'[r] = {} /\ since'[r] = {} /\ pc'[r] = "done"
      /\ \A q \in Requests : q # r => /\ cache'[q] = cache[q] /\ shown'[q] = shown[q]
                                      /\ since'[q] = since[q] /\ pc'[q] = pc[q]
  BY <1>1 DEF IInv, TypeOK
<1>5. FloorsHold'
  <2> SUFFICES ASSUME NEW q \in Requests, NEW w \in floor[q]
               PROVE  Lasting(w.table, w.row) /\ \A d \in since'[q] : Holds(d, w.table, w.row, w.value)
    BY <1>1 DEF FloorsHold, Holds
  <2> QED BY <1>4 DEF WInv, FloorsHold
<1>6. \A q \in Requests : shown'[q] \subseteq shown[q] /\ (pc'[q] = "idle" => pc[q] = "idle")
  BY <1>4
<1>7. InOrder'
  BY <1>1, <1>6 DEF WInv, InOrder, FieldsOf, Fits
<1>8. CacheKnowsWrites'
  <2> SUFFICES ASSUME NEW q \in Requests, NEW c \in cache'[q]
               PROVE  /\ \E b \in shown'[q] : b.kind \in Loaded /\ EntryOf(b) = c
                      /\ \A k \in Loaded, j \in FieldsOf(q) :
                            /\ LoaderOf[k] = c.loader /\ Field(q, j).table = TableOf[k]
                            /\ c.row \in Field(q, j).rows /\ wrote[q][j] # 0
                            => \/ k = "bot" /\ c.value = Null
                               \/ Level(c.value) >= wrote[q][j]
                               \/ \E b \in shown'[q] : b.kind \in Loaded /\ EntryOf(b) = c /\ b.field < j
    BY <1>1 DEF CacheKnowsWrites, ShownBefore, EntryOf, FieldsOf, Field
  <2>1. q # r
    BY <1>4
  <2> QED BY <1>4, <2>1 DEF WInv, CacheKnowsWrites, ShownBefore
<1>9. ShownKnowsWrites'
  <2> SUFFICES ASSUME NEW q \in Requests, NEW a \in shown'[q], NEW j \in FieldsOf(q), j <= a.field,
                      Writes(q, j, a), ~Hidden(a),
                      ~(a.kind \in Loaded /\ \E b \in shown'[q] : /\ b.field < j /\ b.row = a.row
                                     /\ b.kind \in Loaded /\ LoaderOf[b.kind] = LoaderOf[a.kind])
               PROVE  Level(a.value) >= wrote[q][j]
    BY <1>1 DEF ShownKnowsWrites, Writes, LoadedBefore, FieldsOf, Field
  <2>1. q # r
    BY <1>4
  <2> QED BY <1>4, <2>1 DEF WInv, ShownKnowsWrites, LoadedBefore
<1> QED BY <1>2, <1>3, <1>5, <1>7, <1>8, <1>9 DEF WInv

LEMMA NextWInv ==
    ASSUME IInv, WInv, [Next]_vars
    PROVE  WInv'
<1>1. CASE Others
  BY <1>1, OthersKeepWrites
<1>2. ASSUME NEW r \in Requests, Begin(r) PROVE WInv'
  BY <1>2, BeginKeepsWrites
<1>3. ASSUME NEW r \in Requests, Serve(r) PROVE WInv'
  <2>1. CASE \E i \in FieldsOf(r) : Query(r, i) \/ Mutate(r, i) \/ RootFails(r, i)
    BY <2>1, QueryKeepsWrites, MutateKeepsWrites
  <2>2. CASE \E l \in Loaders : Batch(r, l) \/ \E x \in Rows : Deliver(r, l, x)
    BY <2>2, BatchKeepsWrites, DeliverKeepsWrites
  <2>3. CASE \E t \in tasks[r] : OwnQuery(r, t)
    BY <2>3, OwnQueryKeepsWrites
  <2>4. CASE End(r)
    BY <2>4, EndKeepsWrites
  <2> QED BY <1>3, <2>1, <2>2, <2>3, <2>4 DEF Serve
<1>4. ASSUME NEW r \in Requests, NEW l \in Loaders, NEW x \in Rows, LoadFails(r, l, x) PROVE WInv'
  BY <1>4, DropKeepsWrites DEF LoadFails
<1>5. CASE UNCHANGED vars
  <2>1. UNCHANGED <<db, writes, doc, pc, todo, tasks, cache, shown, since, wrote, acked, floor>>
    BY <1>5 DEF vars, request
  <2>2. SettingsOnce' /\ ReportsHold' /\ WritesHold'
    BY <2>1 DEF WInv, SettingsOnce, ReportsHold, WritesHold, Holds, FieldsOf, Field
  <2>3. FloorsHold' /\ InOrder'
    BY <2>1 DEF WInv, FloorsHold, InOrder, Holds, FieldsOf, Fits
  <2> QED BY <2>1, <2>2, <2>3, ReadersStay DEF WInv
<1> QED BY <1>1, <1>2, <1>3, <1>4, <1>5 DEF Next

\* A client reads its own writes, unless an earlier field of the same document
\* made a loader keep the row (the updates of bot.mutations.ts and the resolvers
\* of bot.type.ts).
THEOREM OwnWriteAlwaysShown == Spec => []OwnWriteShown
<1>1. Init => IInv /\ WInv
  BY InitIInv, InitWInv
<1>2. IInv /\ WInv /\ [Next]_vars => (IInv /\ WInv)'
  BY NextIInv, NextWInv
<1>3. IInv /\ WInv => OwnWriteShown
  BY WInvSuffices
<1> QED BY <1>1, <1>2, <1>3, PTL DEF Spec
=============================================================================
