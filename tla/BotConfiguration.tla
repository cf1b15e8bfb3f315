--------------------------- MODULE BotConfiguration ---------------------------
(***************************************************************************)
(* What a bot consists of: createBot, which inserts the rows of bots,      *)
(* bot_settings and bot_brain_configs in one transaction, and the updates  *)
(* of them, updateAgentIdentity, updateAgentRiskSettings and               *)
(* updateBotBrain.  All the calls are of one user.  What becomes of the    *)
(* status and of the scan job is in BotLifecycle.                          *)
(*                                                                         *)
(* A column's value stands for the call that wrote it.                     *)
(***************************************************************************)
EXTENDS FiniteSets

CONSTANTS
    Creates,    \* calls of createBot, each naming the bot it may insert
    Updates,    \* calls of the three updates
    Names,      \* the names that createBot is given
    Providers,  \* providers that bot_brain_configs has a variant column for
    Allowed,    \* ALLOWED_BYOK_PROVIDERS, which createBot accepts
    None        \* SQL NULL

Requests == Creates \cup Updates

ASSUME RequestAssumption == Creates \cap Updates = {} /\ None \notin Requests
ASSUME ProviderAssumption == Allowed \subseteq Providers /\ "anthropic" \in Providers

VARIABLES
    bots,      \* the committed rows of bots, or None
    settings,  \* the row of bot_settings each bot points at, or None
    brain,     \* the active row of bot_brain_configs of each bot, or None
    pc, call,
    read,      \* the provider that updateBotBrain read
    tuned      \* history: bots that updateBotBrain has written

vars == <<bots, settings, brain, pc, call, read, tuned>>

-----------------------------------------------------------------------------
\* An optional field: left out, an explicit null, or a text.
Fields == {"absent", "null", "text"}

CreateCalls == [op : {"create"}, name : Names, type : {"BYOK", "TACHYON_HOSTED"},
                provider : Allowed, variants : SUBSET Providers]

\* A model variant stands for the provider that offers it, but no BYOK brain may
\* have "haiku".
UpdateCalls ==
    [op : {"identity"}, bot : Creates, background : Fields, reaction : Fields]
    \cup [op : {"risk"}, bot : Creates]
    \cup [op : {"brain"}, bot : Creates, variant : Providers \cup {"haiku"}]

\* "recent": created_at lies within the last 60 seconds.
BotRows == [name : Requests, status : {"DRAFT", "ACTIVE", "ARCHIVED"}, recent : BOOLEAN]

Writers == Requests \cup {None}
SettingsRows == [background : Writers, reaction : Writers, risk : Requests]

\* "variants": the providers whose model_variant column is not null.
BrainRows == [type : {"BYOK", "TACHYON_HOSTED"}, provider : Providers,
              key : BOOLEAN, variants : SUBSET Providers]

ASSUME NoneAssumption == None \notin Providers \cup BotRows \cup SettingsRows \cup BrainRows

Init ==
    /\ bots = [b \in Creates |-> None]
    /\ settings = [b \in Creates |-> None]
    /\ brain = [b \in Creates |-> None]
    /\ pc = [r \in Requests |-> "idle"]
    /\ call \in {c \in [Requests -> CreateCalls \cup UpdateCalls] :
                    /\ \A r \in Creates : c[r] \in CreateCalls
                    /\ \A r \in Updates : c[r] \in UpdateCalls}
    /\ read = [r \in Updates |-> None]
    /\ tuned = {}

rows == <<bots, settings, brain, tuned>>

Goto(r, label) == pc' = [pc EXCEPT ![r] = label]

\* A check refuses the call, a query fails or the process dies.  Nothing that a
\* transaction has not committed stays.
Fails(r) ==
    /\ pc[r] \notin {"done", "failed"}
    /\ Goto(r, "failed")
    /\ UNCHANGED <<rows, call, read>>

-----------------------------------------------------------------------------
(***************************************************************************)
(* createBot.                                                              *)
(***************************************************************************)

\* The look-up of a DRAFT of the same name, unless an update has renamed it, that
\* is not a minute old.
Drafts(name) ==
    {b \in Creates : /\ bots[b] # None
                     /\ bots[b].status = "DRAFT" /\ bots[b].recent
                     /\ bots[b].name = b /\ call[b].name = name}

\* Every check of the input has passed, and the look-up decides whether the
\* call returns the row it found or goes on.
CheckDraft(c) ==
    /\ pc[c] = "idle"
    /\ Goto(c, IF Drafts(call[c].name) = {} THEN "checked" ELSE "done")
    /\ UNCHANGED <<rows, call, read>>

\* Fault: a hosted brain gets no provider.
FaultNoProvider(c) ==
    LET byok == call[c].type = "BYOK" IN
    [type |-> call[c].type, provider |-> IF byok THEN call[c].provider ELSE None,
     key |-> byok, variants |-> call[c].variants]

\* The brain: only BYOK has a key, a hosted one is Anthropic's, and the variants
\* are written as they came.
BrainOf(c) ==
    LET byok == call[c].type = "BYOK" IN
    [type |-> call[c].type, provider |-> IF byok THEN call[c].provider ELSE "anthropic",
     key |-> byok, variants |-> call[c].variants]

NewBot(c) == [name |-> c, status |-> "ACTIVE", recent |-> TRUE]
NewSettings(c) == [background |-> c, reaction |-> c, risk |-> c]

\* Fault: the three inserts commit one by one, and the last fails.
FaultTornCreate(c) ==
    /\ pc[c] = "checked"
    /\ bots' = [bots EXCEPT ![c] = NewBot(c)]
    /\ settings' = [settings EXCEPT ![c] = NewSettings(c)]
    /\ brain' \in {brain, [brain EXCEPT ![c] = BrainOf(c)]}
    /\ Goto(c, "done")
    /\ UNCHANGED <<call, read, tuned>>

\* The transaction: a DRAFT, its settings, its brain, and the promotion to
\* ACTIVE.  No other transaction ever sees the DRAFT.
CommitCreate(c) ==
    /\ pc[c] = "checked"
    /\ bots' = [bots EXCEPT ![c] = NewBot(c)]
    /\ settings' = [settings EXCEPT ![c] = NewSettings(c)]
    /\ brain' = [brain EXCEPT ![c] = BrainOf(c)]
    /\ Goto(c, "done")
    /\ UNCHANGED <<call, read, tuned>>

CreateBot(c) == CheckDraft(c) \/ CommitCreate(c)

-----------------------------------------------------------------------------
(***************************************************************************)
(* The updates.                                                            *)
(***************************************************************************)

\* The bot is read first: by id, and updateBotBrain leaves out ARCHIVED ones.
ReadBot(u) ==
    /\ pc[u] = "idle"
    /\ bots[call[u].bot] # None
    /\ call[u].op = "brain" => bots[call[u].bot].status # "ARCHIVED"
    /\ Goto(u, IF call[u].op = "brain" THEN "read" ELSE "checked")
    /\ UNCHANGED <<rows, call, read>>

HasPersonality(u) == "text" \in {call[u].background, call[u].reaction}

\* What the update makes of a nullable column.
Column(u, field, old) ==
    CASE field = "absent" -> old
      [] field = "null"   -> None
      [] field = "text"   -> u

\* bots.name, always.
SetName(u) == bots' = [bots EXCEPT ![call[u].bot].name = u]

\* The personality columns, when at least one of them is given a text: nulls
\* alone change nothing.
SetPersona(u) ==
    IF HasPersonality(u)
    THEN LET s == settings[call[u].bot] IN
         settings' = [settings EXCEPT ![call[u].bot] =
             [s EXCEPT !.background = Column(u, call[u].background, s.background),
                       !.reaction   = Column(u, call[u].reaction, s.reaction)]]
    ELSE UNCHANGED settings

\* Fault: the two UPDATEs are not in one transaction.
FaultTwoCommits(u) ==
    /\ call[u].op = "identity"
    /\ \/ pc[u] = "checked" /\ SetName(u) /\ Goto(u, "named") /\ UNCHANGED settings
       \/ pc[u] = "named" /\ SetPersona(u) /\ Goto(u, "done") /\ UNCHANGED bots
    /\ UNCHANGED <<brain, call, read, tuned>>

\* updateAgentIdentity's transaction.
CommitIdentity(u) ==
    /\ call[u].op = "identity" /\ pc[u] = "checked"
    /\ SetName(u)
    /\ SetPersona(u)
    /\ Goto(u, "done")
    /\ UNCHANGED <<brain, call, read, tuned>>

\* updateAgentRiskSettings: one UPDATE of three columns, here one.
WriteRisk(u) ==
    /\ call[u].op = "risk" /\ pc[u] = "checked"
    /\ settings' = [settings EXCEPT ![call[u].bot].risk = u]
    /\ Goto(u, "done")
    /\ UNCHANGED <<bots, brain, call, read, tuned>>

\* updateBotBrain reads the active brain, which must be BYOK and of the provider
\* that offers the variant.
ReadBrain(u) ==
    /\ pc[u] = "read"
    /\ LET b == brain[call[u].bot] IN
       /\ b.type = "BYOK" /\ b.provider = call[u].variant
       /\ read' = [read EXCEPT ![u] = b.provider]
    /\ Goto(u, "checked")
    /\ UNCHANGED <<rows, call>>

\* Fault: the other providers' columns are left as they are.
FaultOtherVariants(u) == brain[call[u].bot].variants \cup {read[u]}

\* The provider's column is set, the other three become null.
VariantsAfter(u) == {read[u]}

WriteBrain(u) ==
    /\ call[u].op = "brain" /\ pc[u] = "checked"
    /\ brain' = [brain EXCEPT ![call[u].bot].variants = VariantsAfter(u)]
    /\ tuned' = tuned \cup {call[u].bot}
    /\ Goto(u, "done")
    /\ UNCHANGED <<bots, settings, call, read>>

Update(u) ==
    \/ ReadBot(u) \/ ReadBrain(u)
    \/ CommitIdentity(u) \/ WriteRisk(u) \/ WriteBrain(u)

-----------------------------------------------------------------------------
\* A minute passes for a bot; deleteBot archives one.
Age(b) ==
    /\ bots[b] # None
    /\ bots' = [bots EXCEPT ![b].recent = FALSE]
    /\ UNCHANGED <<settings, brain, pc, call, read, tuned>>

Archive(b) ==
    /\ bots[b] # None
    /\ bots' = [bots EXCEPT ![b].status = "ARCHIVED"]
    /\ UNCHANGED <<settings, brain, pc, call, read, tuned>>

Next ==
    \/ \E c \in Creates : CreateBot(c) \/ Age(c) \/ Archive(c)
    \/ \E u \in Updates : Update(u)
    \/ \E r \in Requests : Fails(r)

Spec == Init /\ [][Next]_vars

-----------------------------------------------------------------------------
(***************************************************************************)
(* Properties.                                                             *)
(***************************************************************************)
TypeOK ==
    /\ bots \in [Creates -> BotRows \cup {None}]
    /\ settings \in [Creates -> SettingsRows \cup {None}]
    /\ brain \in [Creates -> BrainRows \cup {None}]
    /\ pc \in [Requests -> {"idle", "read", "checked", "done", "failed"}]
    /\ call \in [Requests -> CreateCalls \cup UpdateCalls]
    /\ read \in [Updates -> Providers \cup {None}]
    /\ tuned \subseteq Creates

\* "no orphaned records on partial failure": a bot, its settings and its brain
\* exist together or not at all, and never come from a transaction that failed.
NoOrphans ==
    \A b \in Creates :
        /\ bots[b] = None <=> settings[b] = None
        /\ bots[b] = None <=> brain[b] = None
        /\ bots[b] # None => pc[b] # "failed"

IdentityCallsOn(b) == {u \in Updates : call[u].op = "identity" /\ call[u].bot = b}

\* Two people editing one agent do not mix their edits: as long as every edit
\* brings a backstory, the agent's name and backstory are of the same edit.
IdentityNotMixed ==
    \A b \in Creates :
        /\ bots[b] # None
        /\ \A u \in IdentityCallsOn(b) : call[u].background = "text"
        => bots[b].name = settings[b].background

\* Once updateBotBrain has written a brain, it has a variant for its own provider
\* and for no other, whatever createBot stored before.
BrainSettled ==
    \A b \in tuned : brain[b].type = "BYOK" /\ brain[b].variants = {brain[b].provider}

\* "return existing DRAFT bot if same name was created within 60s": no two bots
\* of the same name are created within a minute.
CreatedOnce ==
    \A b, c \in Creates :
        /\ bots[b] # None /\ bots[c] # None
        /\ bots[b].recent /\ bots[c].recent
        /\ call[b].name = call[c].name
        => b = c
=============================================================================
