------------------------------ MODULE MCBotReads ------------------------------
(***************************************************************************)
(* The instance of BotReads that TLC checks.                               *)
(***************************************************************************)
EXTENDS BotReads

CONSTANTS b1, b2, r1, r2

Query1(root, rows, sub) == [root |-> root, rows |-> rows, table |-> Null, sub |-> sub]
Queries(fields) == [serial |-> FALSE, fields |-> fields]
Write1(root, rows, table, sub) == [root |-> root, rows |-> rows, table |-> table, sub |-> sub]
Mutations(fields) == [serial |-> TRUE, fields |-> fields]

Both(d, e) == [r \in Requests |-> IF r = r1 THEN d ELSE e]

\* The settings of two bots on two paths.
TwoPaths == Queries(<<Query1("bots", Bots, {"settings"}),
                      Query1("proposals", {b1}, {"settings"})>>)
Figures == Queries(<<Query1("bots", {b1}, {"used", "remaining", "tier"})>>)
Brains == Queries(<<Query1("bots", {b1}, {"brain", "botBrainConfig"})>>)
Report == Queries(<<Query1("performance", {b1}, {"trades", "decisions"})>>)
Me == Queries(<<Query1("me", {User}, {"tier", "onboarded"})>>)

\* One bot updated twice, and an approval before another update.
Twice == Mutations(<<Write1("update", {b1}, "bot_settings", {"settings"}),
                     Write1("update", {b1}, "bot_settings", {"settings"})>>)
Approve == Mutations(<<Write1("decide", {b1}, "trade_proposals", {"botBrainConfig"}),
                       Write1("update", {b1}, "bot_brain_configs", {"brain", "botBrainConfig"})>>)
Once == Mutations(<<Write1("update", {b1}, "bot_settings", {})>>)
Settings == Queries(<<Query1("bots", {b1}, {"settings"})>>)
Skip == Mutations(<<Write1("decide", {b1}, "trade_proposals", {"proposals"})>>)
Onboard == Mutations(<<Write1("onboard", {User}, "user_settings", {})>>)

MCTraffic == {Both(TwoPaths, Once), Both(Twice, Settings), Both(Skip, Settings), Both(Figures, Figures),
              Both(Brains, Approve), Both(Report, Onboard), Both(Me, Onboard)}
==============================================================================
