--------------------------- MODULE MCHousekeeping ---------------------------
(***************************************************************************)
(* An instance of Housekeeping for TLC.                                    *)
(***************************************************************************)
EXTENDS Housekeeping, TLC

MCTasks == {PlanTask, "cleanup_expired_tokens"}

OneTable == "a" :> 1 @@ "b" :> None
=============================================================================
