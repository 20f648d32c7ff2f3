--------------------------- MODULE MCEventBroker ---------------------------
(***************************************************************************)
(* An instance of EventBroker for TLC.                                     *)
(***************************************************************************)
EXTENDS EventBroker, TLC

CONSTANTS s1, s2

\* Table "b" of the namespace "a" has the topic of the namespace "a/b".
AllTopics == {"*", "a", "a/b"}

MCJoin(namespace, item) == namespace \o "/" \o item

\* The namespace "*" has the topic of everything.
AllEvents == {[namespace |-> "a", item |-> "b"], [namespace |-> "a/b", item |-> None],
              [namespace |-> "*", item |-> None]}

\* A stream of everything or of a namespace, and one of a table.
MCSubscriptions == s1 :> {"*", "a"} @@ s2 :> {"a/b"}
=============================================================================
