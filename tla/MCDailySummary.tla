--------------------------- MODULE MCDailySummary ---------------------------
EXTENDS DailySummary

CONSTANT constructor    \* a name every object inherits

Row(c, u, v, a, p, g, n, t) ==
    [company |-> c, user |-> u, device |-> v, action |-> a, path |-> p, agent |-> g, count |-> n, at |-> t]

\* A user on two devices works on two projects, equally often; another one, with
\* as many events at first, changes a path of the first.  On the next day it has
\* a project named like an inherited property and an agent named __proto__.
MCEvent == {
    Row(1, 1, 1, "write", 1, "codex", 2, 5), Row(1, 1, 2, "create", 3, "claude", 2, 6),
    Row(1, 2, 3, "write", 1, "codex", 2, 6), Row(1, 2, 3, "write", 2, "codex", 0, 7),
    Row(1, 2, 3, "write", 4, Proto, 1, 7)}

Naming(user, device, label) == [user |-> user, device |-> device, label |-> label]
MCNames == Naming(<<1, 2>>, <<1, 2, 3>>, <<1, 1, 2, constructor>>)
MCNamings == {Naming(<<2, 1>>, <<2, 2, 1>>, <<2, 2, 1, 3>>), Naming(<<1, 1>>, <<3, 1, 3>>, <<3, 3, 1, 2>>)}
=============================================================================
