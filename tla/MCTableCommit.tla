--------------------------- MODULE MCTableCommit ---------------------------
(***************************************************************************)
(* Instances of TableCommit for TLC.                                       *)
(***************************************************************************)
EXTENDS TableCommitRefinement, TLC

CONSTANTS c1, c2, c3, n1, n2, r1, r2, r3, r4

\* Two tables; the other rows are not created yet.
MCInitialName == [r \in Rows |-> IF r = r1 THEN n1 ELSE IF r = r2 THEN n2 ELSE None]

OnTable(n, u, m) == [name |-> n, uuid |-> u, main |-> m]

Req(k, chs, u, to) == [kind |-> k, changes |-> chs, update |-> u, to |-> to]

\* An append to n1 that asserts the uuid u and the main branch m.
Append1(u, m) == Req("commit", <<OnTable(n1, u, m)>>, "append", n1)

Drop == Req("drop", <<OnTable(n1, Unchecked, Unchecked)>>, "touch", n1)
Rename(a, b) == Req("rename", <<OnTable(a, Unchecked, Unchecked)>>, "touch", b)
Create == Req("create", <<OnTable(n1, Unchecked, Unchecked)>>, "touch", n1)
Expire == Req("commit", <<OnTable(n1, Unchecked, Unchecked)>>, "expire", n1)
Touch == Req("commit", <<OnTable(n1, Unchecked, Unchecked)>>, "touch", n1)
Invalid == Req("commit", <<OnTable(n1, Unchecked, Unchecked)>>, "invalid", n1)
Txn(a, b) == Req("txn", <<OnTable(a, Unchecked, None), OnTable(b, Unchecked, Unchecked)>>, "append", n1)

\* Everything on one table, and transactions over two, in both orders.  The
\* appends assert nothing or that main does not exist.
RaceRequests ==
    {Append1(Unchecked, m) : m \in {Unchecked, None}} \cup
    {Expire, Touch, Drop, Create, Rename(n1, n2), Txn(n1, n2), Txn(n2, n1)}

\* Three clients on one table: a waiting commit or drop outlives a drop and a
\* new table of the same name; one append builds on that of c1.
RecreateRequests ==
    {Append1(Unchecked, c1), Append1(r1, None), Invalid, Drop, Create, Rename(n2, n1)}
=============================================================================
