------------------------------ MODULE Planner ------------------------------
(***************************************************************************)
(* The decisions pg-migrate takes before it touches the schema, as pure    *)
(* operators: what BuildPlan puts in a plan (internal/migrator/planner.go) *)
(* and which guard of Reconcile refuses it (blockedBy, service.go).        *)
(*                                                                         *)
(* A migration is its ID.  IDs are compared as strings by the code; a      *)
(* natural number stands for the ID's place in that order.  The order in   *)
(* which a plan is executed is the subject of PlannerLoop, where the loops *)
(* of BuildPlan are modelled step by step and shown to compute these sets. *)
(***************************************************************************)
EXTENDS Naturals

\* Reconcile's switches, RunOptions in service.go.
Options == {"rollback", "interleaved", "empty"}

(***************************************************************************)
(* BuildPlan by set difference.  Whether an extra counts when detecting    *)
(* out-of-order migrations depends on whether the caller is going to roll  *)
(* it back first.                                                          *)
(***************************************************************************)
BuildPlan(fromFiles, fromDB, rollbackExtras) ==
  LET staysApplied == IF rollbackExtras THEN fromDB \cap fromFiles ELSE fromDB
      toApply == fromFiles \ fromDB
  IN  [ toRollback  |-> fromDB \ fromFiles,
        toApply     |-> toApply,
        interleaved |-> {m \in toApply : \E k \in staysApplied : m < k} ]

\* blockedBy without the interleaving guard.
BlockedByNoInterleavedGuard(plan, fromFiles, opts) ==
  CASE fromFiles = {} /\ plan.toRollback # {} /\ "empty" \notin opts -> "emptySource"
    [] plan.toRollback # {} /\ "rollback" \notin opts -> "divergence"
    [] OTHER -> "none"

(***************************************************************************)
(* The guard a Reconcile would trip on, in the order the code checks them; *)
(* "none" when it would run.  A CASE of TLA+ has no order, so each arm of  *)
(* the Go switch is guarded by the failure of the earlier ones.            *)
(***************************************************************************)
BlockedBy(plan, fromFiles, opts) ==
  LET emptySource == fromFiles = {} /\ plan.toRollback # {} /\ "empty" \notin opts
      divergence  == plan.toRollback # {} /\ "rollback" \notin opts
      interleaved == plan.interleaved # {} /\ "interleaved" \notin opts
  IN  CASE emptySource -> "emptySource"
        [] ~emptySource /\ divergence -> "divergence"
        [] ~emptySource /\ ~divergence /\ interleaved -> "interleaved"
        [] OTHER -> "none"

\* The prefix of the files, up to and including throughID, that Baseline adopts.
MigrationsThrough(fromFiles, throughID) == {m \in fromFiles : m <= throughID}
=============================================================================
