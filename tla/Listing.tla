------------------------------ MODULE Listing ------------------------------
(***************************************************************************)
(* ListNamespaces, ListTables and ListViews: a client reads a listing page *)
(* by page while others create and delete what is listed.  A page is one   *)
(* query, ordered by name, of at most pageSize + 1 rows after the page     *)
(* token; the row beyond the page is only there to tell that there is more.*)
(*                                                                         *)
(* A behaviour is about one listing: of the namespaces, under a parent or  *)
(* not, or of the tables or the views of a namespace.  A name is a         *)
(* sequence of parts, as a namespace's is; that of a table or view has one.*)
(***************************************************************************)
EXTENDS Naturals, Sequences, FiniteSets, SequencesExt

CONSTANTS
    NamespaceNames, \* the names of namespaces
    TableNames,  \* the names of the tables, or views, of a namespace
    Parents,     \* the parents to filter by, <<>> for none
    Sizes,       \* the page sizes that clients ask for
    MaxPageSize, \* the largest page size that is served
    MaxChanges,  \* how many changes the others make
    None

ASSUME ListingAssumption ==
    /\ NamespaceNames \subseteq Seq(Nat) /\ TableNames \subseteq Seq(Nat) /\ Parents \subseteq Seq(Nat)
    /\ Sizes \subseteq Nat /\ MaxPageSize \in Nat \ {0} /\ MaxChanges \in Nat
    /\ <<>> \in Parents /\ None \notin NamespaceNames \cup TableNames

VARIABLES
    inNamespace, \* whether tables or views of a namespace are listed, or namespaces
    names,     \* what exists
    space,     \* whether the namespace of the listed tables exists
    changes,   \* how many changes have been made
    phase,     \* idle, listing, checking (the namespace of an empty page), or how it ended
    parent,    \* the parent, and
    size,      \* the page size that the client gave
    token,     \* the page token of the next request
    page,      \* the last page
    listed,    \* the names on all pages
    steady,    \* the names that have existed since the listing began
    broken,    \* whether the query of the last page broke off
    vacated,   \* whether, since the last request was sent, there was a moment at
               \* which the namespace existed with nothing for it to list
    resumed    \* whether the client went on without a token from the server

database == <<inNamespace, names, space, changes>>
vars == <<database, phase, parent, size, token, page, listed, steady, broken, vacated, resumed>>

\* What the listing is about.
Names == IF inNamespace THEN TableNames ELSE NamespaceNames

Init ==
    /\ inNamespace \in BOOLEAN
    /\ names \in SUBSET Names /\ IsFiniteSet(names) /\ space = TRUE /\ changes = 0
    /\ phase = "idle"
    /\ parent = <<>> /\ size = 1 /\ token = None
    /\ page = <<>> /\ listed = <<>>
    /\ steady = {} /\ broken = FALSE /\ vacated = FALSE /\ resumed = FALSE

----------------------------------------------------------------------------
\* The order of PostgreSQL's text arrays: part by part, then by length.
Less(a, b) ==
    \/ \E k \in DOMAIN a \cap DOMAIN b :
         a[k] < b[k] /\ \A j \in 1..(k - 1) : a[j] = b[j]
    \/ a # b /\ IsPrefix(a, b)

\* validatePageSize
ValidatePageSize(n) == IF n < 1 THEN 1 ELSE IF n > MaxPageSize THEN MaxPageSize ELSE n

\* name > token
AtOrAfterToken(n) == token # None => ~Less(n, token)

AfterToken(n) == token # None => Less(token, n)

\* name[1:array_length(parent)] = parent
UnderParent(n) == IsPrefix(parent, n)

\* ORDER BY name: before the i-th row there are i - 1.
Ordered(S) ==
    [i \in 1..Cardinality(S) |->
       CHOOSE n \in S : Cardinality({m \in S : Less(m, n)}) = i - 1]

\* LIMIT pageSize + 1
Limit == ValidatePageSize(size) + 1

Rows ==
    LET found == {n \in names : UnderParent(n) /\ AfterToken(n)}
        all == Ordered(found)
    IN  SubSeq(all, 1, IF Len(all) < Limit THEN Len(all) ELSE Limit)

\* The loop stops at the row beyond the page, which it has fetched already.
Fetched(rows) ==
    IF Len(rows) > ValidatePageSize(size) THEN ValidatePageSize(size) + 1 ELSE Len(rows)

PageOf(rows) ==
    SubSeq(rows, 1, IF Len(rows) > ValidatePageSize(size) THEN ValidatePageSize(size) ELSE Len(rows))

\* The token is set if there is yet another row.
NextToken(rows) ==
    IF Len(rows) > Fetched(rows) /\ PageOf(rows) # <<>> THEN Last(PageOf(rows)) ELSE None

\* The namespace exists and the query has nothing to find in it.
Vacant == space /\ ~\E n \in names : UnderParent(n) /\ AfterToken(n)

----------------------------------------------------------------------------
\* The client sends its first request.
Begin(p, n) ==
    /\ phase = "idle" /\ (inNamespace => p = <<>>)
    /\ phase' = "listing" /\ parent' = p /\ size' = n
    /\ steady' = names
    /\ UNCHANGED <<database, token, page, listed, broken, resumed>>
    /\ vacated' = Vacant'

\* The page is what arrives of the rows.  Nobody asks rows.Err(), so a query that
\* breaks off is a query with fewer rows.  An empty page of tables or views is
\* followed by a look at the namespace.
Serve(rows) ==
    /\ phase = "listing"
    /\ page' = PageOf(rows)
    /\ listed' = listed \o PageOf(rows)
    /\ token' = NextToken(rows)
    /\ phase' = IF inNamespace /\ PageOf(rows) = <<>> THEN "checking"
                ELSE IF NextToken(rows) # None THEN "listing" ELSE "ended"
    /\ broken' = (Len(rows) < Len(Rows))
    /\ UNCHANGED <<database, parent, size, steady, resumed>>
    /\ vacated' = IF phase' = "listing" THEN Vacant' ELSE vacated

ServePage == \E k \in 0..Len(Rows) : Serve(SubSeq(Rows, 1, k))

\* 500: the query is refused, a row cannot be read, or the look at the namespace,
\* whose error is not ignored, fails.
Fail ==
    /\ phase \in {"listing", "checking"}
    /\ phase' = "failed"
    /\ UNCHANGED <<database, parent, size, token, page, listed, steady, broken, vacated, resumed>>

CheckNamespaceSkipped ==
    /\ phase = "checking"
    /\ phase' = "ended"
    /\ UNCHANGED <<database, parent, size, token, page, listed, steady, broken, vacated, resumed>>

CheckNamespace ==
    /\ phase = "checking"
    /\ phase' = IF space THEN "ended" ELSE "notFound"
    /\ UNCHANGED <<database, parent, size, token, page, listed, steady, broken, vacated, resumed>>

\* A client that was given no token goes on after the last name it has seen.
Resume ==
    /\ phase = "ended" /\ page # <<>>
    /\ phase' = "listing" /\ token' = Last(page) /\ resumed' = TRUE
    /\ UNCHANGED <<database, parent, size, page, listed, steady, broken>>
    /\ vacated' = Vacant'

----------------------------------------------------------------------------
\* The other clients.
Create(n) ==
    /\ changes < MaxChanges /\ space /\ n \notin names
    /\ names' = names \cup {n}
    /\ changes' = changes + 1
    /\ UNCHANGED <<inNamespace, space, phase, parent, size, token, page, listed, steady, broken, vacated, resumed>>

Delete(n) ==
    /\ changes < MaxChanges /\ n \in names
    /\ names' = names \ {n}
    /\ steady' = steady \ {n}
    /\ changes' = changes + 1
    /\ UNCHANGED <<inNamespace, space, phase, parent, size, token, page, listed, broken, resumed>>
    /\ vacated' = (vacated \/ Vacant')

\* The namespace goes, with what ON DELETE CASCADE takes, and comes back empty.
ToggleNamespace ==
    /\ inNamespace /\ changes < MaxChanges
    /\ space' = ~space
    /\ names' = {} /\ steady' = {}
    /\ changes' = changes + 1
    /\ UNCHANGED <<inNamespace, phase, parent, size, token, page, listed, broken, resumed>>
    /\ vacated' = (vacated \/ Vacant')

Next ==
    \/ \E p \in Parents, n \in Sizes : Begin(p, n)
    \/ ServePage \/ CheckNamespace \/ Fail \/ Resume
    \/ \E n \in Names : Create(n) \/ Delete(n)
    \/ ToggleNamespace

Spec == Init /\ [][Next]_vars

----------------------------------------------------------------------------
\* However the catalog changes between the pages and wherever a query breaks off,
\* no name is listed twice, the names come in order and there is no hole among
\* them, the cursor being a name and not a position: a name that the client asked
\* for and that existed all the while is listed or comes after the last one that
\* is.  A client that goes on after the last name until a page is not full has
\* seen all of them, if the query of that page did not break off.
ResumedListingIsComplete ==
    /\ \A i, j \in DOMAIN listed : i < j => Less(listed[i], listed[j])
    /\ \A n \in steady, i \in DOMAIN listed :
         UnderParent(n) /\ Less(n, listed[i]) => n \in ToSet(listed)
    /\ phase = "ended" /\ ~broken /\ Len(page) < ValidatePageSize(size)
       => \A n \in steady : UnderParent(n) => n \in ToSet(listed)

\* The page and the namespace are read by two queries, and the namespace may go or
\* come back between them: a namespace that is said to be empty (200, no tables)
\* nevertheless existed and had nothing to list at one and the same moment of the
\* request, unless the query of the page broke off.
EmptyAnswerIsTrue ==
    phase = "ended" /\ inNamespace /\ page = <<>> /\ ~broken => vacated

\* namespace.go: "We have more, will set next page token"; the API contract: a
\* next-page-token is returned "if there are more results available".
NoTokenMeansComplete ==
    phase = "ended" /\ ~resumed /\ ~broken
    => \A n \in steady : UnderParent(n) => n \in ToSet(listed)
=============================================================================
