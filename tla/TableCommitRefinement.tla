----------------------- MODULE TableCommitRefinement -----------------------
(***************************************************************************)
(* TableCommit implements AtomicCatalog.  A request is open from its       *)
(* submission to its answer, and takes effect at the COMMIT of its         *)
(* transaction or at its single statement.                                 *)
(***************************************************************************)
EXTENDS TableCommit

\* The phase of a client's request, from the handler's program counter.
Phase == [c \in Clients |-> CASE pc[c] = "idle"     -> "idle"
                              [] pc[c] = "answered" -> "answered"
                              [] OTHER              -> "open"]

Abstract == INSTANCE AtomicCatalog WITH phase <- Phase, effective <- committed

\* CommitTable, CommitTransaction, DropTable, RenameTable and CreateTable behave
\* as if each of them were one atomic step with a truthful answer.
ImplementsAtomicCatalog == Abstract!Spec
=============================================================================
