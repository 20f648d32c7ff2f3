------------------------------ MODULE MCAccess ------------------------------
(***************************************************************************)
(* An instance of Access for TLC.                                          *)
(***************************************************************************)
EXTENDS Access, TLC

\* A key that stays, one that expires with the grace period of its rotation,
\* and one whose 300 years are a negative number of nanoseconds.
MCDurations == {None, [n |-> 1, unit |-> "d"], [n |-> 300, unit |-> "y"]}

Ask(scheme, segments, required) == [scheme |-> scheme, segments |-> segments, required |-> required]

\* A namespace; one of two levels; a namespace that the check takes for none; one
\* that is routed but not recognised; and what is outside of all namespaces.
MCCalls == {Ask("bearer", <<"namespaces", "a">>, "read"),
            Ask("x-api-key", <<"namespaces", "a">>, "read"),
            Ask("bearer", <<"namespaces", "a%1Fb">>, "manage"),
            Ask("bearer", <<"namespaces", "tables">>, "write"),
            Ask("x-api-key", <<"NAMESPACES", "a">>, "write"),
            Ask("stream", <<"events", "stream">>, "read"), Ask("other", <<"namespaces">>, "read")}

KeyGrant(space, p) == [space |-> space, principal |-> 1, type |-> "api_key", permission |-> p]

MCInitialGrants ==
    {KeyGrant(<<"a", "b">>, "write"),
     [space |-> <<"a">>, principal |-> OAuthClient, type |-> "oauth2", permission |-> "read"]}

MCGrantSets == {MCInitialGrants, {KeyGrant(<<"a">>, "read")}}

Symmetry == Permutations(Rotators)
=============================================================================
