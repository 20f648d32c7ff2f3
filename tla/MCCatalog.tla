----------------------------- MODULE MCCatalog -----------------------------
(***************************************************************************)
(* Instances of Catalog for TLC.                                           *)
(***************************************************************************)
EXTENDS Catalog, TLC

\* Clients are interchangeable.
Symmetry == Permutations(Clients)

OneSpace == <<"a">>
BothSpaces == <<"a", "b">>

R(op, kind, s, n, ts, tn) ==
    [op |-> op, kind |-> kind, space |-> s, name |-> n, toSpace |-> ts, toName |-> tn,
     set |-> {}, remove |-> {}, content |-> 1]

On(op, s) == R(op, "table", s, "x", s, "x")
Object(op, kind, n) == R(op, kind, "a", n, "a", n)
Props(s, add, del) == [On("updateProperties", s) EXCEPT !.set = add, !.remove = del]

\* Namespaces that come and go, and the tables and views in them.
RaceRequests ==
    {On("createNamespace", "a"), On("deleteNamespace", "a"), On("deleteNamespace", "b"),
     Props("a", {"k"}, {}), Props("a", {}, {"k"}),
     Object("create", "table", "x"), Object("drop", "table", "x"),
     R("rename", "table", "a", "x", "b", "x"), R("rename", "table", "b", "x", "a", "x"),
     Object("create", "view", "x"), Object("create", "view", "y"), Object("drop", "view", "x"),
     R("rename", "view", "a", "x", "a", "y"), R("rename", "view", "a", "x", "b", "x"),
     Object("replace", "view", "x")}

DeleteRequests == {On("deleteNamespace", "a"), Object("create", "table", "x")}
=============================================================================
