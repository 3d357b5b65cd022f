---------------------------- MODULE PlannerLoop ----------------------------
(***************************************************************************)
(* BuildPlan (internal/migrator/planner.go) as the code runs it: three     *)
(* loops over two slices, one iteration per step.  fromFiles is sorted by  *)
(* ID, because the source loader sorts it; fromDB is in the order the      *)
(* migrations were applied, which is any order at all.                     *)
(*                                                                         *)
(* The module settles what the set-level operators of Planner leave open:  *)
(* the order in which the plan lists its migrations, which is the order in *)
(* which they are executed.                                                *)
(***************************************************************************)
EXTENDS Planner, SequencesExt

CONSTANT Ids    \* the migration IDs that files and database draw from

ASSUME IdsAssumption == Ids \subseteq Nat \ {0} /\ IsFiniteSet(Ids)

NoID == 0       \* maxAppliedID's initial "", which sorts before every ID

VARIABLES
  fromFiles, fromDB, rollbackExtras,   \* the arguments
  loop,                                \* the loop being run, or "done"
  i,                                   \* its index into the slice
  maxAppliedID,                        \* local of the same name
  ToRollback, ToApply, Interleaved     \* the plan under construction

args == <<fromFiles, fromDB, rollbackExtras>>
vars == <<args, loop, i, maxAppliedID, ToRollback, ToApply, Interleaved>>

Ascending(s) == \A j, k \in DOMAIN s : j < k => s[j] < s[k]

\* The sorted slice the loader returns, and any order the database may hold:
\* an ID occurs at most once in either (the table's primary key, the file name).
Init ==
  /\ fromFiles \in {s \in SetToAllKPermutations(Ids) : Ascending(s)}
  /\ fromDB \in SetToAllKPermutations(Ids)
  /\ rollbackExtras \in BOOLEAN
  /\ loop = "highest" /\ i = 1
  /\ maxAppliedID = NoID
  /\ ToRollback = <<>> /\ ToApply = <<>> /\ Interleaved = <<>>

\* filesMap and dbMap, the lookups built before the loops.
InFiles(m) == m \in ToSet(fromFiles)
InDB(m) == m \in ToSet(fromDB)

\* A bug the planner's comment warns of: extras count even when they are
\* about to be rolled back.
HighestCountsExtras ==
  /\ loop = "highest" /\ i <= Len(fromDB)
  /\ maxAppliedID' = IF fromDB[i] > maxAppliedID THEN fromDB[i] ELSE maxAppliedID
  /\ i' = i + 1
  /\ UNCHANGED <<args, loop, ToRollback, ToApply, Interleaved>>

\* One iteration of the loop that finds the highest ID that stays applied.
Highest ==
  /\ loop = "highest" /\ i <= Len(fromDB)
  /\ LET m == fromDB[i]
         skipped == rollbackExtras /\ ~InFiles(m)
     IN  maxAppliedID' = IF ~skipped /\ m > maxAppliedID THEN m ELSE maxAppliedID
  /\ i' = i + 1
  /\ UNCHANGED <<args, loop, ToRollback, ToApply, Interleaved>>

\* The loop exits; the next one runs over fromDB from its end.
HighestDone ==
  /\ loop = "highest" /\ i > Len(fromDB)
  /\ loop' = "extras" /\ i' = Len(fromDB)
  /\ UNCHANGED <<args, maxAppliedID, ToRollback, ToApply, Interleaved>>

\* Extras collected by prepending, that is in the order they were applied.
ExtrasInApplicationOrder ==
  /\ loop = "extras" /\ i >= 1
  /\ ToRollback' = IF InFiles(fromDB[i]) THEN ToRollback ELSE <<fromDB[i]>> \o ToRollback
  /\ i' = i - 1
  /\ UNCHANGED <<args, loop, maxAppliedID, ToApply, Interleaved>>

\* One iteration of slices.Backward(fromDB).
Extras ==
  /\ loop = "extras" /\ i >= 1
  /\ ToRollback' = IF InFiles(fromDB[i]) THEN ToRollback ELSE Append(ToRollback, fromDB[i])
  /\ i' = i - 1
  /\ UNCHANGED <<args, loop, maxAppliedID, ToApply, Interleaved>>

ExtrasDone ==
  /\ loop = "extras" /\ i < 1
  /\ loop' = "pending" /\ i' = 1
  /\ UNCHANGED <<args, maxAppliedID, ToRollback, ToApply, Interleaved>>

\* The pending loop stopping one file short of the end of the slice.
PendingDoneEarly ==
  /\ loop = "pending" /\ i >= Len(fromFiles)
  /\ loop' = "done"
  /\ UNCHANGED <<args, i, maxAppliedID, ToRollback, ToApply, Interleaved>>

\* One iteration of the loop over the files.
Pending ==
  /\ loop = "pending" /\ i <= Len(fromFiles)
  /\ LET m == fromFiles[i]
         late == maxAppliedID # NoID /\ m < maxAppliedID
     IN  /\ ToApply' = IF InDB(m) THEN ToApply ELSE Append(ToApply, m)
         /\ Interleaved' = IF ~InDB(m) /\ late THEN Append(Interleaved, m) ELSE Interleaved
  /\ i' = i + 1
  /\ UNCHANGED <<args, loop, maxAppliedID, ToRollback>>

PendingDone ==
  /\ loop = "pending" /\ i > Len(fromFiles)
  /\ loop' = "done"
  /\ UNCHANGED <<args, i, maxAppliedID, ToRollback, ToApply, Interleaved>>

Next ==
  \/ Highest \/ HighestDone
  \/ Extras \/ ExtrasDone
  \/ Pending \/ PendingDone

Spec == Init /\ [][Next]_vars /\ WF_vars(Next)

-----------------------------------------------------------------------------

\* m is still applied once the plan's rollbacks have been executed.
StaysApplied(m) == InDB(m) /\ ~(rollbackExtras /\ m \in ToSet(ToRollback))

\* s lists m before n.
Lists(s, m, n) == \E j, k \in DOMAIN s : j < k /\ s[j] = m /\ s[k] = n

\* The application order that is left by the rollbacks, and the one that the
\* whole plan leaves: ToApply goes in after everything that stays.
RemainsBefore(m, n) == StaysApplied(m) /\ StaysApplied(n) /\ Lists(fromDB, m, n)
EndsUpBefore(m, n) ==
  \/ RemainsBefore(m, n)
  \/ StaysApplied(m) /\ n \in ToSet(ToApply)
  \/ Lists(ToApply, m, n)

(***************************************************************************)
(* The loops compute the sets of Planner!BuildPlan, which is what the      *)
(* model of the service uses in their place, and list every migration once.*)
(***************************************************************************)
LoopsComputeBuildPlan ==
  loop = "done" =>
    LET plan == BuildPlan(ToSet(fromFiles), ToSet(fromDB), rollbackExtras)
    IN  /\ ToSet(ToRollback) = plan.toRollback
        /\ ToSet(ToApply) = plan.toApply
        /\ ToSet(Interleaved) = plan.interleaved
        /\ Len(ToRollback) = Cardinality(plan.toRollback)
        /\ Len(ToApply) = Cardinality(plan.toApply)

(***************************************************************************)
(* Undoing the plan's rollbacks one after another always undoes the        *)
(* migration that was applied last among the extras still there: what a    *)
(* migration builds on is undone after it, whatever IDs the two carry.     *)
(***************************************************************************)
RollsBackLatestFirst ==
  loop = "done" =>
    \A k \in DOMAIN ToRollback :
      LET at(m) == CHOOSE p \in DOMAIN fromDB : fromDB[p] = m
      IN  \A later \in k+1..Len(ToRollback) : at(ToRollback[k]) > at(ToRollback[later])

(***************************************************************************)
(* The interleaving guard means what its name says.  Take a database whose *)
(* remaining migrations went in in ID order, and execute the plan: the     *)
(* application order is still the ID order exactly when Interleaved is     *)
(* empty.  This is the reason the flag has to know whether the extras are  *)
(* rolled back.                                                            *)
(***************************************************************************)
InterleavedIffOutOfOrder ==
  loop = "done" /\ (\A m, n \in Ids : RemainsBefore(m, n) => m < n) =>
    (Interleaved = <<>> <=> \A m, n \in Ids : EndsUpBefore(m, n) => m < n)
=============================================================================
