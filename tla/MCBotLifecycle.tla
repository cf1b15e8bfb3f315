---------------------------- MODULE MCBotLifecycle ----------------------------
(***************************************************************************)
(* The instances of BotLifecycle that TLC checks.                          *)
(***************************************************************************)
EXTENDS BotLifecycle, Naturals

CONSTANTS alice, r1, r2

\* alice owns every bot: the calls of any other user are foreign ones.
MCOwner == [b \in Bots |-> alice]

\* Requests are interchangeable, so that of two assignments of calls which differ
\* in who brings which one is enough: r1 has the call that comes first here.
Place(c) ==
    (CASE c.op = "create" -> 0 [] c.op = "activate" -> 1 [] c.op = "pause" -> 2 [] OTHER -> 3)
        + (IF c.user = alice THEN 0 ELSE 4)

\* Bound: nobody subscribes who has no bots.
Bounds == Place(call[r1]) <= Place(call[r2]) /\ subscribed \subseteq {alice}
=============================================================================
