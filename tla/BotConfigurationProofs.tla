------------------------ MODULE BotConfigurationProofs ------------------------
(***************************************************************************)
(* Theorems about BotConfiguration.                                        *)
(***************************************************************************)
EXTENDS BotConfiguration, TLAPS

-----------------------------------------------------------------------------
(***************************************************************************)
(* The invariant.                                                          *)
(***************************************************************************)

\* Nothing but createBot creates a bot, and it then ends.
CreatedByCall ==
    \A c \in Creates : bots[c] # None => pc[c] = "done"

\* An update that has read its bot finds it still there: no row is deleted.
UpdatesFindTheirBot ==
    \A u \in Updates : pc[u] \in {"read", "checked"} => bots[call[u].bot] # None

\* What updateBotBrain has read is still so: type and provider never change.
BrainReadHolds ==
    \A u \in Updates :
        call[u].op = "brain" /\ pc[u] = "checked" =>
            /\ brain[call[u].bot].type = "BYOK"
            /\ read[u] = brain[call[u].bot].provider

TunedExist == \A b \in tuned : bots[b] # None

CallsFit ==
    /\ \A c \in Creates : call[c] \in CreateCalls
    /\ \A u \in Updates : call[u] \in UpdateCalls

IInv ==
    /\ TypeOK /\ CallsFit /\ CreatedByCall /\ NoOrphans /\ UpdatesFindTheirBot
    /\ BrainReadHolds /\ TunedExist /\ IdentityNotMixed /\ BrainSettled

-----------------------------------------------------------------------------
LEMMA NewRows ==
    ASSUME NEW c \in Creates, call[c] \in CreateCalls
    PROVE  /\ NewBot(c) \in BotRows /\ NewSettings(c) \in SettingsRows /\ BrainOf(c) \in BrainRows
           /\ NewBot(c) # None /\ NewSettings(c) # None /\ BrainOf(c) # None
<1>1. NewBot(c) \in BotRows
  BY DEF NewBot, BotRows, Requests
<1>2. NewSettings(c) \in SettingsRows
  BY DEF NewSettings, SettingsRows, Writers, Requests
<1>3. BrainOf(c) \in BrainRows
  BY ProviderAssumption DEF BrainOf, BrainRows, CreateCalls
<1> QED BY <1>1, <1>2, <1>3, NoneAssumption

LEMMA UpdateFacts ==
    ASSUME CallsFit, NEW u \in Updates
    PROVE  /\ call[u].bot \in Creates /\ u \in Requests /\ u \notin Creates /\ u # None
           /\ call[u].op \in {"identity", "risk", "brain"}
           /\ call[u].op = "identity" => /\ call[u].background \in Fields
                                         /\ call[u].reaction \in Fields
BY RequestAssumption DEF CallsFit, UpdateCalls, Requests

LEMMA InitIInv == Init => IInv
<1> SUFFICES ASSUME Init PROVE IInv
  OBVIOUS
<1>1. CallsFit
  BY DEF Init, CallsFit
<1>2. TypeOK
  BY DEF Init, TypeOK
<1>3. CreatedByCall /\ NoOrphans /\ IdentityNotMixed
  BY DEF Init, CreatedByCall, NoOrphans, IdentityNotMixed
<1>4. UpdatesFindTheirBot /\ BrainReadHolds
  BY DEF Init, UpdatesFindTheirBot, BrainReadHolds, Requests
<1>5. TunedExist /\ BrainSettled
  BY DEF Init, TunedExist, BrainSettled
<1> QED BY <1>1, <1>2, <1>3, <1>4, <1>5 DEF IInv

-----------------------------------------------------------------------------
(***************************************************************************)
(* Steps that write no row.                                                *)
(***************************************************************************)
LEMMA QuietStep ==
    ASSUME IInv, UNCHANGED rows, UNCHANGED call,
           pc' \in [Requests -> {"idle", "read", "checked", "done", "failed"}],
           read' \in [Updates -> Providers \cup {None}],
           \A c \in Creates : bots[c] # None => pc'[c] = "done",
           UpdatesFindTheirBot', BrainReadHolds'
    PROVE  IInv'
<1>1. TypeOK'
  BY DEF IInv, TypeOK, rows
<1>2. NoOrphans'
  BY DEF IInv, NoOrphans, rows
<1>3. CreatedByCall'
  BY DEF CreatedByCall, rows
<1>4. IdentityNotMixed'
  BY DEF IInv, IdentityNotMixed, IdentityCallsOn, rows
<1>5. CallsFit' /\ TunedExist' /\ BrainSettled'
  BY DEF IInv, CallsFit, TunedExist, BrainSettled, rows
<1> QED BY <1>1, <1>2, <1>3, <1>4, <1>5 DEF IInv

LEMMA FailsStep ==
    ASSUME IInv, NEW r \in Requests, Fails(r)
    PROVE  IInv'
<1>1. pc' = [pc EXCEPT ![r] = "failed"] /\ pc[r] # "done" /\ UNCHANGED rows /\ call' = call
      /\ read' = read
  BY DEF Fails, Goto
<1>2. pc' \in [Requests -> {"idle", "read", "checked", "done", "failed"}]
  BY <1>1 DEF IInv, TypeOK
<1>3. \A c \in Creates : bots[c] # None => pc'[c] = "done"
  BY <1>1 DEF IInv, CreatedByCall, TypeOK, Requests
<1>4. UpdatesFindTheirBot' /\ BrainReadHolds'
  BY <1>1 DEF IInv, UpdatesFindTheirBot, BrainReadHolds, TypeOK, Requests, rows
<1> QED BY <1>1, <1>2, <1>3, <1>4, QuietStep DEF IInv, TypeOK

LEMMA CheckDraftStep ==
    ASSUME IInv, NEW c \in Creates, CheckDraft(c)
    PROVE  IInv'
<1>1. /\ pc[c] = "idle" /\ UNCHANGED rows /\ call' = call /\ read' = read
      /\ \E p \in {"checked", "done"} : pc' = [pc EXCEPT ![c] = p]
  BY DEF CheckDraft, Goto
<1>2. pc' \in [Requests -> {"idle", "read", "checked", "done", "failed"}]
  BY <1>1 DEF IInv, TypeOK
<1>3. \A d \in Creates : bots[d] # None => pc'[d] = "done"
  BY <1>1 DEF IInv, CreatedByCall, TypeOK, Requests
<1>4. \A u \in Updates : pc'[u] = pc[u]
  BY <1>1, RequestAssumption DEF IInv, TypeOK, Requests
<1>5. UpdatesFindTheirBot' /\ BrainReadHolds'
  BY <1>1, <1>4 DEF IInv, UpdatesFindTheirBot, BrainReadHolds, rows
<1> QED BY <1>1, <1>2, <1>3, <1>5, QuietStep DEF IInv, TypeOK

LEMMA ReadBotStep ==
    ASSUME IInv, NEW u \in Updates, ReadBot(u)
    PROVE  IInv'
<1>1. /\ pc[u] = "idle" /\ UNCHANGED rows /\ call' = call /\ read' = read
      /\ bots[call[u].bot] # None
      /\ pc' = [pc EXCEPT ![u] = IF call[u].op = "brain" THEN "read" ELSE "checked"]
  BY DEF ReadBot, Goto
<1>2. pc' \in [Requests -> {"idle", "read", "checked", "done", "failed"}]
  BY <1>1 DEF IInv, TypeOK
<1>3. \A d \in Creates : bots[d] # None => pc'[d] = "done"
  BY <1>1, UpdateFacts DEF IInv, CreatedByCall, TypeOK, Requests
<1>4. UpdatesFindTheirBot' /\ BrainReadHolds'
  BY <1>1, UpdateFacts DEF IInv, UpdatesFindTheirBot, BrainReadHolds, TypeOK, Requests, rows
<1> QED BY <1>1, <1>2, <1>3, <1>4, QuietStep DEF IInv, TypeOK

LEMMA ReadBrainStep ==
    ASSUME IInv, NEW u \in Updates, ReadBrain(u)
    PROVE  IInv'
<1> DEFINE b == brain[call[u].bot]
<1>1. /\ pc[u] = "read" /\ UNCHANGED rows /\ call' = call
      /\ b.type = "BYOK" /\ read' = [read EXCEPT ![u] = b.provider]
      /\ pc' = [pc EXCEPT ![u] = "checked"]
  BY DEF ReadBrain, Goto
<1>2. call[u].bot \in Creates /\ bots[call[u].bot] # None
  BY <1>1, UpdateFacts DEF IInv, UpdatesFindTheirBot
<1>3. b \in BrainRows
  BY <1>2 DEF IInv, NoOrphans, TypeOK
<1>4. pc' \in [Requests -> {"idle", "read", "checked", "done", "failed"}]
  BY <1>1 DEF IInv, TypeOK
<1>5. read' \in [Updates -> Providers \cup {None}]
  BY <1>1, <1>3 DEF IInv, TypeOK, BrainRows
<1>6. \A d \in Creates : bots[d] # None => pc'[d] = "done"
  BY <1>1, UpdateFacts DEF IInv, CreatedByCall, TypeOK, Requests
<1>7. UpdatesFindTheirBot'
  BY <1>1, <1>2, UpdateFacts DEF IInv, UpdatesFindTheirBot, TypeOK, Requests, rows
<1>8. BrainReadHolds'
  BY <1>1, UpdateFacts DEF IInv, BrainReadHolds, TypeOK, Requests, rows
<1> QED BY <1>1, <1>4, <1>5, <1>6, <1>7, <1>8, QuietStep

-----------------------------------------------------------------------------
(***************************************************************************)
(* createBot.                                                              *)
(***************************************************************************)
LEMMA CommitCreateStep ==
    ASSUME IInv, NEW c \in Creates, CommitCreate(c)
    PROVE  IInv'
<1>1. /\ pc[c] = "checked" /\ pc' = [pc EXCEPT ![c] = "done"]
      /\ bots' = [bots EXCEPT ![c] = NewBot(c)]
      /\ settings' = [settings EXCEPT ![c] = NewSettings(c)]
      /\ brain' = [brain EXCEPT ![c] = BrainOf(c)]
      /\ call' = call /\ read' = read /\ tuned' = tuned
  BY DEF CommitCreate, Goto
<1>2. /\ NewBot(c) \in BotRows /\ NewSettings(c) \in SettingsRows /\ BrainOf(c) \in BrainRows
      /\ NewBot(c) # None /\ NewSettings(c) # None /\ BrainOf(c) # None
  BY NewRows DEF IInv, CallsFit
<1>3. bots[c] = None /\ c \in Requests
  BY <1>1 DEF IInv, CreatedByCall, Requests
<1>4. \A d \in Creates \ {c} : /\ bots'[d] = bots[d] /\ settings'[d] = settings[d]
                               /\ brain'[d] = brain[d] /\ pc'[d] = pc[d]
  BY <1>1 DEF IInv, TypeOK, Requests
<1>5. bots'[c] = NewBot(c) /\ settings'[c] = NewSettings(c) /\ pc'[c] = "done" /\ brain'[c] = BrainOf(c)
  BY <1>1, <1>3 DEF IInv, TypeOK
<1>6. \A u \in Updates : pc'[u] = pc[u]
  BY <1>1, RequestAssumption DEF IInv, TypeOK, Requests
<1>7. TypeOK'
  BY <1>1, <1>2, <1>3 DEF IInv, TypeOK
<1>8. CallsFit'
  BY <1>1 DEF IInv, CallsFit
<1>9. CreatedByCall'
  BY <1>4, <1>5 DEF IInv, CreatedByCall
<1>10. NoOrphans'
  BY <1>2, <1>4, <1>5 DEF IInv, NoOrphans
<1>11. UpdatesFindTheirBot'
  BY <1>1, <1>2, <1>4, <1>5, <1>6, UpdateFacts DEF IInv, UpdatesFindTheirBot
<1>12. BrainReadHolds'
  <2> SUFFICES ASSUME NEW u \in Updates, call[u].op = "brain", pc[u] = "checked"
               PROVE  /\ brain'[call[u].bot].type = "BYOK"
                      /\ read[u] = brain'[call[u].bot].provider
    BY <1>1, <1>6 DEF BrainReadHolds
  <2>1. call[u].bot \in Creates \ {c}
    BY <1>3, UpdateFacts DEF IInv, UpdatesFindTheirBot
  <2> QED BY <2>1, <1>4 DEF IInv, BrainReadHolds
<1>13. \A b \in tuned : b \in Creates \ {c}
  BY <1>3 DEF IInv, TunedExist, TypeOK
<1>14. TunedExist' /\ BrainSettled'
  BY <1>1, <1>4, <1>13 DEF IInv, TunedExist, BrainSettled
<1>15. IdentityNotMixed'
  <2> SUFFICES ASSUME NEW b \in Creates, bots'[b] # None,
                      \A u \in IdentityCallsOn(b) : call[u].background = "text"
               PROVE  bots'[b].name = settings'[b].background
    BY <1>1 DEF IdentityNotMixed, IdentityCallsOn
  <2>1. CASE b = c
    BY <2>1, <1>5 DEF NewBot, NewSettings
  <2>2. CASE b # c
    BY <2>2, <1>4 DEF IInv, IdentityNotMixed
  <2> QED BY <2>1, <2>2
<1> QED BY <1>7, <1>8, <1>9, <1>10, <1>11, <1>12, <1>14, <1>15 DEF IInv

-----------------------------------------------------------------------------
(***************************************************************************)
(* The updates, and what others do to a bot.  None of them adds or removes *)
(* a row, and the conditions that relate bots, settings and brain can be   *)
(* looked at for the bot that is written alone.                            *)
(***************************************************************************)
LEMMA UpdatedBot ==
    ASSUME IInv, NEW u \in Updates, pc[u] \in {"read", "checked"}
    PROVE  /\ bots[call[u].bot] \in BotRows /\ bots[call[u].bot] # None
           /\ settings[call[u].bot] \in SettingsRows /\ settings[call[u].bot] # None
           /\ brain[call[u].bot] \in BrainRows /\ brain[call[u].bot] # None
           /\ call[u].bot \in Creates
BY UpdateFacts DEF IInv, UpdatesFindTheirBot, NoOrphans, TypeOK

\* An update that keeps every row a row, and writes no brain.
LEMMA UpdateStep ==
    ASSUME IInv, NEW u \in Updates,
           bots' \in [Creates -> BotRows \cup {None}],
           settings' \in [Creates -> SettingsRows \cup {None}],
           \A b \in Creates : /\ bots'[b] = None <=> bots[b] = None
                              /\ settings'[b] = None <=> settings[b] = None,
           pc' = [pc EXCEPT ![u] = "done"],
           UNCHANGED <<brain, call, read, tuned>>,
           IdentityNotMixed'
    PROVE  IInv'
<1>1. TypeOK'
  BY DEF IInv, TypeOK
<1>2. \A c \in Creates : pc'[c] = pc[c]
  BY RequestAssumption, UpdateFacts DEF IInv, TypeOK, Requests
<1>3. \A v \in Updates : pc'[v] \in {pc[v], "done"}
  BY DEF IInv, TypeOK, Requests
<1>4. CreatedByCall' /\ NoOrphans'
  BY <1>2 DEF IInv, CreatedByCall, NoOrphans
<1>5. UpdatesFindTheirBot'
  BY <1>3, UpdateFacts DEF IInv, UpdatesFindTheirBot
<1>6. BrainReadHolds'
  BY <1>3 DEF IInv, BrainReadHolds
<1>7. CallsFit' /\ BrainSettled'
  BY DEF IInv, CallsFit, BrainSettled
<1>8. TunedExist'
  BY DEF IInv, TunedExist, TypeOK
<1> QED BY <1>1, <1>4, <1>5, <1>6, <1>7, <1>8 DEF IInv

LEMMA ColumnWriter ==
    ASSUME CallsFit, NEW u \in Updates, NEW field \in Fields, NEW old \in Writers
    PROVE  Column(u, field, old) \in Writers
<1>1. u \in Writers /\ None \in Writers
  BY DEF Writers, Requests
<1>2. CASE field = "absent"
  BY <1>2 DEF Column
<1>3. CASE field = "null"
  BY <1>1, <1>3 DEF Column
<1>4. CASE field = "text"
  BY <1>1, <1>4 DEF Column
<1> QED BY <1>2, <1>3, <1>4 DEF Fields

\* The settings after updateAgentIdentity.
LEMMA PersonaFacts ==
    ASSUME IInv, NEW u \in Updates, call[u].op = "identity", pc[u] = "checked", SetPersona(u)
    PROVE  /\ settings' \in [Creates -> SettingsRows \cup {None}]
           /\ settings'[call[u].bot] # None
           /\ call[u].background = "text" => settings'[call[u].bot].background = u
           /\ \A b \in Creates \ {call[u].bot} : settings'[b] = settings[b]
<1> DEFINE s == settings[call[u].bot]
           t == [s EXCEPT !.background = Column(u, call[u].background, s.background),
                          !.reaction   = Column(u, call[u].reaction, s.reaction)]
<1>0. CallsFit /\ call[u].background \in Fields /\ call[u].reaction \in Fields
      /\ call[u].bot \in Creates
  BY UpdateFacts DEF IInv
<1>1. s \in SettingsRows /\ s # None
  BY UpdatedBot
<1>2. s.background \in Writers /\ s.reaction \in Writers
  BY <1>1 DEF SettingsRows
<1>3. /\ Column(u, call[u].background, s.background) \in Writers
      /\ Column(u, call[u].reaction, s.reaction) \in Writers
  BY <1>0, <1>2, ColumnWriter
<1>4. /\ t \in SettingsRows
      /\ t.background = Column(u, call[u].background, s.background)
  BY <1>1, <1>3 DEF SettingsRows
<1>5. t # None
  BY <1>4, NoneAssumption
<1>6. CASE HasPersonality(u)
  <2>1. settings' = [settings EXCEPT ![call[u].bot] = t]
    BY <1>6 DEF SetPersona
  <2>2. settings'[call[u].bot] = t
    BY <2>1, <1>0 DEF IInv, TypeOK
  <2>3. settings' \in [Creates -> SettingsRows \cup {None}]
    BY <2>1, <1>4 DEF IInv, TypeOK
  <2>4. \A b \in Creates \ {call[u].bot} : settings'[b] = settings[b]
    BY <2>1 DEF IInv, TypeOK
  <2>5. call[u].background = "text" => t.background = u
    BY <1>4 DEF Column
  <2> QED BY <2>2, <2>3, <2>4, <2>5, <1>5
<1>7. CASE ~HasPersonality(u)
  BY <1>1, <1>7 DEF SetPersona, HasPersonality, IInv, TypeOK
<1> QED BY <1>6, <1>7

LEMMA CommitIdentityStep ==
    ASSUME IInv, NEW u \in Updates, CommitIdentity(u)
    PROVE  IInv'
<1> DEFINE x == call[u].bot
<1>1. /\ pc[u] = "checked" /\ pc' = [pc EXCEPT ![u] = "done"] /\ call[u].op = "identity"
      /\ bots' = [bots EXCEPT ![x].name = u] /\ SetPersona(u)
      /\ UNCHANGED <<brain, call, read, tuned>>
  BY DEF CommitIdentity, Goto, SetName
<1>2. x \in Creates /\ bots[x] \in BotRows /\ settings[x] # None /\ u \in Requests
  BY <1>1, UpdatedBot, UpdateFacts DEF IInv
<1>3. /\ [bots[x] EXCEPT !.name = u] \in BotRows
      /\ [bots[x] EXCEPT !.name = u].name = u
  BY <1>2 DEF BotRows
<1>4. /\ bots'[x] = [bots[x] EXCEPT !.name = u]
      /\ \A b \in Creates \ {x} : bots'[b] = bots[b]
      /\ bots' \in [Creates -> BotRows \cup {None}]
  BY <1>1, <1>2, <1>3 DEF IInv, TypeOK
<1>5. /\ settings' \in [Creates -> SettingsRows \cup {None}]
      /\ settings'[x] # None
      /\ call[u].background = "text" => settings'[x].background = u
      /\ \A b \in Creates \ {x} : settings'[b] = settings[b]
  BY <1>1, PersonaFacts
<1>6. \A b \in Creates : /\ bots'[b] = None <=> bots[b] = None
                         /\ settings'[b] = None <=> settings[b] = None
  BY <1>2, <1>3, <1>4, <1>5, NoneAssumption
<1>7. IdentityNotMixed'
  <2> SUFFICES ASSUME NEW b \in Creates, bots'[b] # None,
                      \A v \in IdentityCallsOn(b) : call[v].background = "text"
               PROVE  bots'[b].name = settings'[b].background
    BY <1>1 DEF IdentityNotMixed, IdentityCallsOn
  <2>1. CASE b = x
    <3>1. call[u].background = "text"
      BY <2>1, <1>1 DEF IdentityCallsOn
    <3> QED BY <3>1, <2>1, <1>3, <1>4, <1>5
  <2>2. CASE b # x
    BY <2>2, <1>4, <1>5 DEF IInv, IdentityNotMixed
  <2> QED BY <2>1, <2>2
<1> HIDE DEF x
<1> QED BY <1>1, <1>4, <1>5, <1>6, <1>7, UpdateStep

LEMMA WriteRiskStep ==
    ASSUME IInv, NEW u \in Updates, WriteRisk(u)
    PROVE  IInv'
<1> DEFINE x == call[u].bot
<1>1. /\ pc[u] = "checked" /\ pc' = [pc EXCEPT ![u] = "done"]
      /\ settings' = [settings EXCEPT ![x].risk = u]
      /\ UNCHANGED <<bots, brain, call, read, tuned>>
  BY DEF WriteRisk, Goto
<1>2. x \in Creates /\ settings[x] \in SettingsRows /\ settings[x] # None /\ u \in Requests
  BY <1>1, UpdatedBot, UpdateFacts DEF IInv
<1>3. /\ [settings[x] EXCEPT !.risk = u] \in SettingsRows
      /\ [settings[x] EXCEPT !.risk = u].background = settings[x].background
  BY <1>2 DEF SettingsRows
<1>4. /\ settings'[x] = [settings[x] EXCEPT !.risk = u]
      /\ \A b \in Creates \ {x} : settings'[b] = settings[b]
      /\ settings' \in [Creates -> SettingsRows \cup {None}]
  BY <1>1, <1>2, <1>3 DEF IInv, TypeOK
<1>5. \A b \in Creates : settings'[b] = None <=> settings[b] = None
  BY <1>2, <1>3, <1>4, NoneAssumption
<1>6. \A b \in Creates : settings'[b].background = settings[b].background
  BY <1>3, <1>4
<1>7. IdentityNotMixed'
  BY <1>1, <1>6 DEF IInv, IdentityNotMixed, IdentityCallsOn
<1>8. bots' \in [Creates -> BotRows \cup {None}]
  BY <1>1 DEF IInv, TypeOK
<1> HIDE DEF x
<1> QED BY <1>1, <1>4, <1>5, <1>7, <1>8, UpdateStep

LEMMA WriteBrainStep ==
    ASSUME IInv, NEW u \in Updates, WriteBrain(u)
    PROVE  IInv'
<1> DEFINE x == call[u].bot
           b == brain[x]
           after == [b EXCEPT !.variants = {read[u]}]
<1>1. /\ pc[u] = "checked" /\ pc' = [pc EXCEPT ![u] = "done"] /\ call[u].op = "brain"
      /\ brain' = [brain EXCEPT ![x] = after]
      /\ tuned' = tuned \cup {x}
      /\ UNCHANGED <<bots, settings, call, read>>
  BY DEF WriteBrain, Goto, VariantsAfter
<1>2. x \in Creates /\ b \in BrainRows /\ b # None /\ bots[x] # None
  BY <1>1, UpdatedBot
<1>3. b.type = "BYOK" /\ read[u] = b.provider /\ b.provider \in Providers
  BY <1>1, <1>2 DEF IInv, BrainReadHolds, BrainRows
<1>4. /\ after \in BrainRows /\ after.type = "BYOK" /\ after.provider = b.provider
      /\ after.variants = {b.provider}
  BY <1>2, <1>3 DEF BrainRows
<1>5. /\ brain'[x] = after /\ \A c \in Creates \ {x} : brain'[c] = brain[c]
      /\ brain' \in [Creates -> BrainRows \cup {None}]
  BY <1>1, <1>2, <1>4 DEF IInv, TypeOK
<1> HIDE DEF after
<1>6. after # None
  BY <1>4, NoneAssumption
<1>7. TypeOK'
  BY <1>1, <1>2, <1>5 DEF IInv, TypeOK
<1>8. \A c \in Creates : pc'[c] = pc[c]
  BY <1>1, UpdateFacts DEF IInv, TypeOK, Requests
<1>9. \A v \in Updates : pc'[v] \in {pc[v], "done"}
  BY <1>1 DEF IInv, TypeOK, Requests
<1>10. CallsFit' /\ CreatedByCall' /\ UpdatesFindTheirBot'
  BY <1>1, <1>8, <1>9 DEF IInv, CallsFit, CreatedByCall, UpdatesFindTheirBot
<1>11. NoOrphans'
  BY <1>1, <1>2, <1>5, <1>6, <1>8 DEF IInv, NoOrphans
<1>12. BrainReadHolds'
  <2> SUFFICES ASSUME NEW v \in Updates, call[v].op = "brain", pc[v] = "checked"
               PROVE  /\ brain'[call[v].bot].type = "BYOK"
                      /\ read[v] = brain'[call[v].bot].provider
    BY <1>1, <1>9 DEF BrainReadHolds
  <2>1. brain[call[v].bot].type = "BYOK" /\ read[v] = brain[call[v].bot].provider
        /\ call[v].bot \in Creates
    BY UpdateFacts DEF IInv, BrainReadHolds
  <2> QED BY <2>1, <1>4, <1>5
<1>13. TunedExist'
  BY <1>1, <1>2 DEF IInv, TunedExist
<1>14. BrainSettled'
  <2> SUFFICES ASSUME NEW c \in tuned \cup {x}
               PROVE  brain'[c].type = "BYOK" /\ brain'[c].variants = {brain'[c].provider}
    BY <1>1 DEF BrainSettled
  <2>1. CASE c = x
    BY <2>1, <1>4, <1>5
  <2>2. CASE c # x
    BY <2>2, <1>5 DEF IInv, BrainSettled, TypeOK
  <2> QED BY <2>1, <2>2
<1>15. IdentityNotMixed'
  BY <1>1 DEF IInv, IdentityNotMixed, IdentityCallsOn
<1> QED BY <1>7, <1>10, <1>11, <1>12, <1>13, <1>14, <1>15 DEF IInv

\* A minute passes, or the bot is archived.
LEMMA ColumnStep ==
    ASSUME IInv, NEW b \in Creates, bots[b] # None, NEW row \in BotRows,
           row.name = bots[b].name, bots' = [bots EXCEPT ![b] = row],
           UNCHANGED <<settings, brain, pc, call, read, tuned>>
    PROVE  IInv'
<1>1. /\ bots'[b] = row /\ \A c \in Creates \ {b} : bots'[c] = bots[c]
      /\ bots' \in [Creates -> BotRows \cup {None}]
  BY DEF IInv, TypeOK
<1>2. \A c \in Creates : /\ bots'[c] = None <=> bots[c] = None
                         /\ bots'[c].name = bots[c].name
  BY <1>1, NoneAssumption
<1>3. TypeOK'
  BY <1>1 DEF IInv, TypeOK
<1>4. CallsFit' /\ CreatedByCall' /\ NoOrphans' /\ BrainReadHolds' /\ BrainSettled'
  BY <1>2 DEF IInv, CallsFit, CreatedByCall, NoOrphans, BrainReadHolds, BrainSettled
<1>5. UpdatesFindTheirBot'
  BY <1>2, UpdateFacts DEF IInv, UpdatesFindTheirBot
<1>6. TunedExist'
  BY <1>2 DEF IInv, TunedExist, TypeOK
<1>7. IdentityNotMixed'
  BY <1>2 DEF IInv, IdentityNotMixed, IdentityCallsOn
<1> QED BY <1>3, <1>4, <1>5, <1>6, <1>7 DEF IInv

LEMMA AgeStep ==
    ASSUME IInv, NEW b \in Creates, Age(b)
    PROVE  IInv'
<1>1. bots[b] # None /\ bots' = [bots EXCEPT ![b] = [bots[b] EXCEPT !.recent = FALSE]]
      /\ UNCHANGED <<settings, brain, pc, call, read, tuned>>
  BY DEF Age
<1>2. bots[b] \in BotRows
  BY <1>1 DEF IInv, TypeOK
<1>3. /\ [bots[b] EXCEPT !.recent = FALSE] \in BotRows
      /\ [bots[b] EXCEPT !.recent = FALSE].name = bots[b].name
  BY <1>2 DEF BotRows
<1> QED BY <1>1, <1>3, ColumnStep

LEMMA ArchiveStep ==
    ASSUME IInv, NEW b \in Creates, Archive(b)
    PROVE  IInv'
<1>1. bots[b] # None /\ bots' = [bots EXCEPT ![b] = [bots[b] EXCEPT !.status = "ARCHIVED"]]
      /\ UNCHANGED <<settings, brain, pc, call, read, tuned>>
  BY DEF Archive
<1>2. bots[b] \in BotRows
  BY <1>1 DEF IInv, TypeOK
<1>3. /\ [bots[b] EXCEPT !.status = "ARCHIVED"] \in BotRows
      /\ [bots[b] EXCEPT !.status = "ARCHIVED"].name = bots[b].name
  BY <1>2 DEF BotRows
<1> QED BY <1>1, <1>3, ColumnStep

-----------------------------------------------------------------------------
LEMMA NextIInv == IInv /\ [Next]_vars => IInv'
<1> SUFFICES ASSUME IInv, [Next]_vars PROVE IInv'
  OBVIOUS
<1>1. CASE UNCHANGED vars
  <2>1. UNCHANGED rows /\ UNCHANGED call /\ pc' = pc /\ read' = read
    BY <1>1 DEF vars, rows
  <2>2. UpdatesFindTheirBot' /\ BrainReadHolds'
    BY <2>1 DEF IInv, UpdatesFindTheirBot, BrainReadHolds, rows
  <2> QED BY <2>1, <2>2, QuietStep DEF IInv, TypeOK, CreatedByCall
<1>2. ASSUME NEW c \in Creates, CreateBot(c) \/ Age(c) \/ Archive(c) PROVE IInv'
  BY <1>2, CheckDraftStep, CommitCreateStep, AgeStep, ArchiveStep DEF CreateBot
<1>3. ASSUME NEW u \in Updates, Update(u) PROVE IInv'
  BY <1>3, ReadBotStep, ReadBrainStep, CommitIdentityStep, WriteRiskStep, WriteBrainStep
     DEF Update
<1>4. ASSUME NEW r \in Requests, Fails(r) PROVE IInv'
  BY <1>4, FailsStep
<1> QED BY <1>1, <1>2, <1>3, <1>4 DEF Next

\* The invariant that the others follow from.
THEOREM ConfigurationInvariant == Spec => []IInv
BY InitIInv, NextIInv, PTL DEF Spec

\* Every variable keeps its type, in whatever order createBot, the updates and
\* deleteBot interleave or fail.
THEOREM ConfigurationTypes == Spec => []TypeOK
<1>1. IInv => TypeOK
  BY DEF IInv
<1> QED BY <1>1, ConfigurationInvariant, PTL

\* "no orphaned records on partial failure": a bot has its settings and its brain,
\* and there are none without a bot.
THEOREM NeverOrphans == Spec => []NoOrphans
<1>1. IInv => NoOrphans
  BY DEF IInv
<1> QED BY <1>1, ConfigurationInvariant, PTL

\* Any number of concurrent edits of an agent, each with a backstory, leave the
\* name and the backstory of one of them.
THEOREM IdentityNeverMixed == Spec => []IdentityNotMixed
<1>1. IInv => IdentityNotMixed
  BY DEF IInv
<1> QED BY <1>1, ConfigurationInvariant, PTL

\* A brain that updateBotBrain has written has the variant of its own provider and
\* no other.
THEOREM BrainStaysSettled == Spec => []BrainSettled
<1>1. IInv => BrainSettled
  BY DEF IInv
<1> QED BY <1>1, ConfigurationInvariant, PTL
=============================================================================
