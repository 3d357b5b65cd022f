------------------------------ MODULE Migrator ------------------------------
(***************************************************************************)
(* The core of pg-migrate: the service (internal/migrator/service.go) and  *)
(* the executor (internal/migrator/custom_executor.go) running against one *)
(* PostgreSQL database, one step per database round trip that matters.     *)
(*                                                                         *)
(* A runner is a process, or a goroutine, that calls the public API of     *)
(* migrate.go.  Every call that writes runs under the advisory lock, which *)
(* is a single variable here; how it is obtained, kept and lost on pooled  *)
(* connections is the subject of PgLock.  It is kept for as long as the    *)
(* call lasts: what overlapping runs do once it is lost is the subject of  *)
(* OverlappingRuns.                                                        *)
(*                                                                         *)
(* Data is abstracted to what the code distinguishes.  A migration is its  *)
(* ID; a script is the directive that decides how it runs; the schema      *)
(* records, for each migration, how much of its effect is present.  The    *)
(* ledger is the bookkeeping table read ORDER BY seq.                      *)
(***************************************************************************)
EXTENDS Planner, SequencesExt

CONSTANTS
  Runners,       \* processes calling the API against the one database
  Ids,           \* migration IDs, as places in the lexicographic order
  Calls,         \* the API calls the runners may make
  Legacies,      \* the sets of IDs whose effect the database may start with
  MayCrash,      \* whether a process may die in the middle of a call
  None           \* no runner

UpScripts == {"tx", "notx"}
DownScripts == {"tx", "notx", "irreversible"}
Sources == UNION {[D -> [up : UpScripts, down : DownScripts]] : D \in SUBSET Ids}
Ops == {"up", "reconcile", "down", "forget", "baseline", "plan"}

\* count is used by Down, which refuses a count below 1, and by DownAll, where 0
\* stands for its sentinel; id by Forget and Baseline, opts by Reconcile and Plan.
CallType == [op : Ops, src : Sources, opts : SUBSET Options, count : Nat, id : Ids]
Row == [id : Ids, down : DownScripts, err : BOOLEAN]

ASSUME IdsAssumption == Ids \subseteq Nat /\ IsFiniteSet(Ids) /\ Ids # {}
ASSUME CallsAssumption == Calls \subseteq CallType
ASSUME LegaciesAssumption == Legacies \subseteq SUBSET Ids
ASSUME SwitchesAssumption == MayCrash \in BOOLEAN
ASSUME NoneAssumption == None \notin Runners

VARIABLES
  lock,          \* the runner whose session holds the advisory lock, or None
  table,         \* whether the bookkeeping table exists
  ledger,        \* its rows, in the order they were inserted
  schema,        \* for each ID, how much of the migration's effect is present
  excused,       \* IDs whose schema is known to be the operator's business
  pc,            \* where each runner's call is
  call,          \* the call, with its arguments
  fromDB,        \* the rows read when the call made its plan
  toRollback,    \* IDs the plan still has to roll back
  toApply,       \* IDs the plan still has to apply (or Baseline to record)
  cur,           \* the ID of the script being run
  applied,       \* Result.Applied and Result.RolledBack, as sets
  rolledBack,
  outcome        \* how the call ended: "ok", "refused" or "failed"

database == <<table, ledger, schema, excused>>
plan == <<fromDB, toRollback, toApply>>
result == <<applied, rolledBack>>
vars == <<lock, database, pc, call, plan, cur, result, outcome>>

PCs == {"idle", "ensure", "refuse", "plan", "reversible", "execute", "downTx",
        "downStmts", "markFailed", "deleteRow", "upStmts", "recordOk",
        "recordErr", "forget", "baseline", "recordAll", "return"}

NoCall == [op |-> "plan", src |-> [m \in {} |-> m], opts |-> {}, count |-> 0,
           id |-> CHOOSE m \in Ids : TRUE]
-----------------------------------------------------------------------------
(***************************************************************************)
(* The ledger.                                                             *)
(***************************************************************************)

RecordedIn(rows) == {row.id : row \in ToSet(rows)}
Recorded == RecordedIn(ledger)
FailedIn(rows) == {row.id : row \in {x \in ToSet(rows) : x.err}}
IrreversibleIn(rows) == {row.id : row \in {x \in ToSet(rows) : x.down = "irreversible"}}

\* INSERT: a new row gets the next seq; the primary key refuses a second one.
Insert(rows, row) == Append(rows, row)

\* DELETE ... WHERE id = $1, which removes nothing when there is no such row.
Delete(rows, m) ==
  IF m \in RecordedIn(rows)
    THEN RemoveAt(rows, CHOOSE k \in DOMAIN rows : rows[k].id = m)
    ELSE rows

\* UPDATE ... SET error = $1 WHERE id = $2.
MarkError(rows, m) ==
  [k \in DOMAIN rows |-> IF rows[k].id = m THEN [rows[k] EXCEPT !.err = TRUE] ELSE rows[k]]

(***************************************************************************)
(* What the ledger claims of a migration is true of the schema: no row, no *)
(* effect; a row without an error, the whole effect.  A failed row claims  *)
(* nothing, it says that a human has to look.                              *)
(***************************************************************************)
Truthful(m, rows, sch) ==
  /\ m \notin RecordedIn(rows) => sch[m] = "none"
  /\ m \in RecordedIn(rows) \ FailedIn(rows) => sch[m] = "applied"

\* Control points between the first statement of a notransaction script and
\* the bookkeeping write that reports on it.
ScriptWindow == {"downStmts", "markFailed", "deleteRow", "upStmts", "recordOk", "recordErr"}
-----------------------------------------------------------------------------
Init ==
  /\ lock = None
  /\ table = FALSE
  /\ ledger = << >>
  /\ \E L \in Legacies :
       /\ schema = [m \in Ids |-> IF m \in L THEN "applied" ELSE "none"]
       /\ excused = L
  /\ pc = [r \in Runners |-> "idle"]
  /\ call = [r \in Runners |-> NoCall]
  /\ fromDB = [r \in Runners |-> << >>]
  /\ toRollback = [r \in Runners |-> {}]
  /\ toApply = [r \in Runners |-> {}]
  /\ cur = [r \in Runners |-> NoCall.id]
  /\ applied = [r \in Runners |-> {}]
  /\ rolledBack = [r \in Runners |-> {}]
  /\ outcome = [r \in Runners |-> "ok"]

\* The call returns: withLock's deferred ReleaseLock is the next step.
Return(r, how) ==
  /\ pc' = [pc EXCEPT ![r] = "return"]
  /\ outcome' = [outcome EXCEPT ![r] = how]

Goto(r, where) ==
  /\ pc' = [pc EXCEPT ![r] = where]
  /\ UNCHANGED outcome
-----------------------------------------------------------------------------
(***************************************************************************)
(* Starting a call.                                                        *)
(***************************************************************************)

(***************************************************************************)
(* withLock: AcquireLock succeeds and fn starts.  A call that cannot get   *)
(* the lock returns an error and has changed nothing, so it needs no step. *)
(***************************************************************************)
Begin(r, c) ==
  /\ pc[r] = "idle" /\ lock = None
  /\ c.op # "plan"
  /\ lock' = r
  /\ call' = [call EXCEPT ![r] = c]
  /\ Goto(r, IF c.op = "forget" THEN "forget" ELSE "ensure")
  /\ UNCHANGED <<database, plan, cur, result>>

(***************************************************************************)
(* BuildReconcilePlan: Plan takes no lock and creates no table; a missing  *)
(* table reads as an empty one.  What it answers is whether the plan is    *)
(* blocked; the plan itself goes to the caller, and no later step uses it. *)
(***************************************************************************)
ReconcilePlan(c) == BuildPlan(DOMAIN c.src, Recorded, TRUE)

PlanOnly(r, c) ==
  /\ pc[r] = "idle" /\ c.op = "plan"
  /\ Return(r, IF BlockedBy(ReconcilePlan(c), DOMAIN c.src, c.opts) = "none"
                 THEN "ok" ELSE "refused")
  /\ call' = [call EXCEPT ![r] = c]
  /\ UNCHANGED <<lock, database, plan, cur, result>>

\* EnsureMigrationsTable: CREATE TABLE IF NOT EXISTS, whose reply may be lost.
EnsureMigrationsTable(r) ==
  /\ pc[r] = "ensure"
  /\ table' \in {table, TRUE}
  /\ \/ table' /\ Goto(r, IF call[r].op = "baseline" THEN "baseline" ELSE "refuse")
     \/ Return(r, "failed")
  /\ UNCHANGED <<lock, ledger, schema, excused, call, plan, cur, result>>

\* refuseIfFailed not called by Rollback.
RefuseButForDown(r) ==
  /\ pc[r] = "refuse"
  /\ IF FailedIn(ledger) = {} \/ call[r].op = "down" THEN Goto(r, "plan") ELSE Return(r, "refused")
  /\ UNCHANGED <<lock, database, call, plan, cur, result>>

\* refuseIfFailed: one failed row anywhere stops the call.
RefuseIfFailed(r) ==
  /\ pc[r] = "refuse"
  /\ IF FailedIn(ledger) = {} THEN Goto(r, "plan") ELSE Return(r, "refused")
  /\ UNCHANGED <<lock, database, call, plan, cur, result>>
-----------------------------------------------------------------------------
(***************************************************************************)
(* Planning.  Each operation reads the ledger again, after the check for   *)
(* failed rows, and decides what to roll back and what to apply.           *)
(***************************************************************************)

\* ExecutePlan's first lines: an empty plan is done, any other one is checked.
StartPlan(r, rollback, apply) ==
  /\ fromDB' = [fromDB EXCEPT ![r] = ledger]
  /\ toRollback' = [toRollback EXCEPT ![r] = rollback]
  /\ toApply' = [toApply EXCEPT ![r] = apply]
  /\ IF rollback = {} /\ apply = {} THEN Return(r, "ok") ELSE Goto(r, "reversible")

\* Up strips the plan's rollbacks: extras stay applied.
PlanUp(r) ==
  /\ pc[r] = "plan" /\ call[r].op = "up"
  /\ StartPlan(r, {}, BuildPlan(DOMAIN call[r].src, Recorded, FALSE).toApply)
  /\ UNCHANGED <<lock, database, call, cur, result>>

PlanReconcile(r) ==
  /\ pc[r] = "plan" /\ call[r].op = "reconcile"
  /\ LET files == DOMAIN call[r].src
         p == BuildPlan(files, Recorded, TRUE)
     IN  IF BlockedBy(p, files, call[r].opts) = "none"
           THEN StartPlan(r, p.toRollback, p.toApply)
           ELSE Return(r, "refused") /\ UNCHANGED plan
  /\ UNCHANGED <<lock, database, call, cur, result>>

\* The IDs of the last n rows.
Tail_n(rows, n) == {rows[k].id : k \in Len(rows) - n + 1 .. Len(rows)}

\* Rollback taking the head of the ledger for its tail.
PlanDownFromHead(r) ==
  /\ pc[r] = "plan" /\ call[r].op = "down"
  /\ LET all == call[r].count = 0 \/ call[r].count > Len(ledger)
         n == IF all THEN Len(ledger) ELSE call[r].count
     IN  StartPlan(r, {ledger[k].id : k \in 1 .. n}, {})
  /\ UNCHANGED <<lock, database, call, cur, result>>

\* Rollback (Down and DownAll): the last count rows, or all of them.
PlanDown(r) ==
  /\ pc[r] = "plan" /\ call[r].op = "down"
  /\ LET all == call[r].count = 0 \/ call[r].count > Len(ledger)
         n == IF all THEN Len(ledger) ELSE call[r].count
     IN  StartPlan(r, Tail_n(ledger, n), {})
  /\ UNCHANGED <<lock, database, call, cur, result>>

\* The pre-flight check left out.
SkipEnsureReversible(r) ==
  /\ pc[r] = "reversible"
  /\ Goto(r, "execute")
  /\ UNCHANGED <<lock, database, call, plan, cur, result>>

\* EnsureReversible reads the stored scripts of all the candidates before the
\* first one is rolled back; a candidate without a row is skipped.
EnsureReversible(r) ==
  /\ pc[r] = "reversible"
  /\ IF toRollback[r] \cap IrreversibleIn(ledger) = {}
       THEN Goto(r, "execute")
       ELSE Return(r, "refused")
  /\ UNCHANGED <<lock, database, call, plan, cur, result>>
-----------------------------------------------------------------------------
(***************************************************************************)
(* Rolling back.                                                           *)
(***************************************************************************)

\* A plan that lists the extras in the order they were applied.
NextToRollbackOldest(r, m) ==
  LET before(j, k) == IF call[r].op = "reconcile" THEN j < k ELSE j > k IN
  \E k \in DOMAIN fromDB[r] :
    /\ fromDB[r][k].id = m /\ m \in toRollback[r]
    /\ \A j \in DOMAIN fromDB[r] : before(j, k) => fromDB[r][j].id \notin toRollback[r]

\* m is the extra, or candidate, that was applied last among those left.
NextToRollback(r, m) ==
  \E k \in DOMAIN fromDB[r] :
    /\ fromDB[r][k].id = m /\ m \in toRollback[r]
    /\ \A j \in DOMAIN fromDB[r] : j > k => fromDB[r][j].id \notin toRollback[r]

StoredDown(m) == ledger[CHOOSE k \in DOMAIN ledger : ledger[k].id = m].down

(***************************************************************************)
(* RollbackMigration reads the stored down script; its directives, not the *)
(* source's, decide how it runs.  An irreversible script is only comments, *)
(* and nothing at this point stops it from being "run": its row would be   *)
(* deleted and its effect would stay.                                      *)
(***************************************************************************)
SelectDown(r, m) ==
  /\ pc[r] = "execute" /\ NextToRollback(r, m)
  /\ cur' = [cur EXCEPT ![r] = m]
  /\ IF m \notin Recorded
       THEN Return(r, "failed")
       ELSE Goto(r, IF StoredDown(m) = "notx" THEN "downStmts" ELSE "downTx")
  /\ UNCHANGED <<lock, database, call, plan, result>>

\* The loop's body is done: result.RolledBack grows, the loop goes on.
RolledBackOne(r) ==
  /\ toRollback' = [toRollback EXCEPT ![r] = @ \ {cur[r]}]
  /\ rolledBack' = [rolledBack EXCEPT ![r] = @ \cup {cur[r]}]
  /\ Goto(r, "execute")
  /\ UNCHANGED <<fromDB, toApply, applied>>

(***************************************************************************)
(* The down script and the DELETE in one transaction.  When the commit's   *)
(* reply is lost the transaction may have taken effect all the same; the   *)
(* code can only report a failure.  BEGIN, the script, the DELETE and the  *)
(* COMMIT are one step: under the lock nobody else writes between them,    *)
(* as OverlappingRuns shows, which takes them one by one.                  *)
(***************************************************************************)
DownTx(r) ==
  /\ pc[r] = "downTx"
  /\ \E committed, replied \in BOOLEAN :
       /\ replied => committed
       /\ IF committed
            THEN /\ ledger' = Delete(ledger, cur[r])
                 /\ schema' = IF cur[r] \in IrreversibleIn(ledger) THEN schema
                              ELSE [schema EXCEPT ![cur[r]] = "none"]
                 /\ excused' = excused \ {cur[r]}
            ELSE UNCHANGED <<ledger, schema, excused>>
       /\ IF replied THEN RolledBackOne(r)
                     ELSE Return(r, "failed") /\ UNCHANGED <<plan, result>>
  /\ UNCHANGED <<lock, table, call, cur>>

(***************************************************************************)
(* One statement of a notransaction down script, committed by itself: the  *)
(* script has more to do, or that was its last statement, or it failed.  A *)
(* statement that failed may have had its effect before the reply was lost.*)
(***************************************************************************)
DownStatement(r) ==
  /\ pc[r] = "downStmts"
  /\ \/ /\ schema' = [schema EXCEPT ![cur[r]] = "partial"]
        /\ UNCHANGED <<pc, outcome>>
     \/ /\ schema' = [schema EXCEPT ![cur[r]] = "none"]
        /\ Goto(r, "deleteRow")
     \/ /\ schema' \in {schema} \cup {[schema EXCEPT ![cur[r]] = s] : s \in {"partial", "none"}}
        /\ Goto(r, "markFailed")
  /\ UNCHANGED <<lock, table, ledger, excused, call, plan, cur, result>>

(***************************************************************************)
(* The bookkeeping write that follows a notransaction script runs detached *)
(* from the caller's context, through the pool.  Whether it landed and     *)
(* whether its reply arrived are two questions; without a reply the call   *)
(* reports ErrUnrecorded, and a write that did not land leaves the schema  *)
(* and the ledger apart, which from here on is the operator's business.    *)
(***************************************************************************)
Bookkeeping(r, rows, landed) ==
  /\ ledger' = IF landed THEN rows ELSE ledger
  /\ excused' = IF landed THEN excused \ {cur[r]} ELSE excused \cup {cur[r]}
  /\ UNCHANGED <<lock, table, schema, call, cur>>

\* markFailed after a failed statement: the row survives, with an error.
MarkFailed(r) ==
  /\ pc[r] = "markFailed"
  /\ \E landed \in BOOLEAN : Bookkeeping(r, MarkError(ledger, cur[r]), landed)
  /\ Return(r, "failed")
  /\ UNCHANGED <<plan, result>>

\* The DELETE after a script that ran to its end.
DeleteRow(r) ==
  /\ pc[r] = "deleteRow"
  /\ \E landed, replied \in BOOLEAN :
       /\ replied => landed
       /\ Bookkeeping(r, Delete(ledger, cur[r]), landed)
       /\ IF replied THEN RolledBackOne(r)
                     ELSE Return(r, "failed") /\ UNCHANGED <<plan, result>>
-----------------------------------------------------------------------------
(***************************************************************************)
(* Applying.                                                               *)
(***************************************************************************)

\* The next migration in ID order, once every rollback is done.
NextToApply(r, m) ==
  /\ toRollback[r] = {} /\ m \in toApply[r]
  /\ \A other \in toApply[r] : m <= other

\* An INSERT that leaves a column out.
RowOfWithoutError(src, m, err) == [id |-> m, down |-> src[m].down]

RowOf(src, m, err) == [id |-> m, down |-> src[m].down, err |-> err]

\* The apply loop without its append to result.Applied.
AppliedOneUnreported(r, m) ==
  /\ toApply' = [toApply EXCEPT ![r] = @ \ {m}]
  /\ Goto(r, "execute")
  /\ UNCHANGED <<fromDB, toRollback, applied, rolledBack>>

\* result.Applied grows, the loop goes on.
AppliedOne(r, m) ==
  /\ toApply' = [toApply EXCEPT ![r] = @ \ {m}]
  /\ applied' = [applied EXCEPT ![r] = @ \cup {m}]
  /\ Goto(r, "execute")
  /\ UNCHANGED <<fromDB, toRollback, rolledBack>>

\* The row written after the script's commit instead of with it.
ApplyTxRowApart(r, m) ==
  /\ pc[r] = "execute" /\ NextToApply(r, m) /\ call[r].src[m].up = "tx"
  /\ m \notin Recorded
  /\ cur' = [cur EXCEPT ![r] = m]
  /\ schema' = [schema EXCEPT ![m] = "applied"]
  /\ \/ ledger' = Insert(ledger, RowOf(call[r].src, m, FALSE)) /\ AppliedOne(r, m)
     \/ UNCHANGED <<ledger, plan, result>> /\ Return(r, "failed")
  /\ UNCHANGED <<lock, table, excused, call>>

\* ApplyMigration with a transaction: script and row commit together, or the
\* primary key, the script or the connection stops both.  One step for the same
\* reason as DownTx.
ApplyTx(r, m) ==
  /\ pc[r] = "execute" /\ NextToApply(r, m) /\ call[r].src[m].up = "tx"
  /\ cur' = [cur EXCEPT ![r] = m]
  /\ \E committed, replied \in BOOLEAN :
       /\ replied => committed
       /\ committed => m \notin Recorded
       /\ IF committed
            THEN /\ ledger' = Insert(ledger, RowOf(call[r].src, m, FALSE))
                 /\ schema' = [schema EXCEPT ![m] = "applied"]
                 /\ excused' = excused \ {m}
            ELSE UNCHANGED <<ledger, schema, excused>>
       /\ IF replied THEN AppliedOne(r, m)
                     ELSE Return(r, "failed") /\ UNCHANGED <<plan, result>>
  /\ UNCHANGED <<lock, table, call>>

\* applyWithoutTransaction has its dedicated connection and starts the script.
StartUpScript(r, m) ==
  /\ pc[r] = "execute" /\ NextToApply(r, m) /\ call[r].src[m].up = "notx"
  /\ cur' = [cur EXCEPT ![r] = m]
  /\ Goto(r, "upStmts")
  /\ UNCHANGED <<lock, database, call, plan, result>>

\* One statement of a notransaction up script; see DownStatement.
UpStatement(r) ==
  /\ pc[r] = "upStmts"
  /\ \/ /\ schema' = [schema EXCEPT ![cur[r]] = "partial"]
        /\ UNCHANGED <<pc, outcome>>
     \/ /\ schema' = [schema EXCEPT ![cur[r]] = "applied"]
        /\ Goto(r, "recordOk")
     \/ /\ schema' \in {schema} \cup {[schema EXCEPT ![cur[r]] = s] : s \in {"partial", "applied"}}
        /\ Goto(r, "recordErr")
  /\ UNCHANGED <<lock, table, ledger, excused, call, plan, cur, result>>

\* A failed script whose failure is not recorded.
RecordOnlySuccess(r) ==
  LET m == cur[r] IN
  \/ /\ pc[r] = "recordOk"
     /\ m \notin Recorded
     /\ Bookkeeping(r, Insert(ledger, RowOf(call[r].src, m, FALSE)), TRUE)
     /\ AppliedOne(r, m)
  \/ /\ pc[r] = "recordErr"
     /\ Return(r, "failed")
     /\ UNCHANGED <<lock, database, call, cur, plan, result>>

\* The row is inserted whether or not the script failed, with its error.
RecordUp(r) ==
  LET m == cur[r]
      err == pc[r] = "recordErr"
  IN
  /\ pc[r] \in {"recordOk", "recordErr"}
  /\ \E landed, replied \in BOOLEAN :
       /\ replied => landed
       /\ landed => m \notin Recorded
       /\ Bookkeeping(r, Insert(ledger, RowOf(call[r].src, m, err)), landed)
       /\ IF replied /\ ~err THEN AppliedOne(r, m)
                             ELSE Return(r, "failed") /\ UNCHANGED <<plan, result>>

\* ExecutePlan returning after its rollbacks.
PlanDoneEarly(r) ==
  /\ pc[r] = "execute" /\ toRollback[r] = {}
  /\ Return(r, "ok")
  /\ UNCHANGED <<lock, database, call, plan, cur, result>>

\* The loops of ExecutePlan, or of Rollback, have nothing left.
PlanDone(r) ==
  /\ pc[r] = "execute" /\ toRollback[r] = {} /\ toApply[r] = {}
  /\ Return(r, "ok")
  /\ UNCHANGED <<lock, database, call, plan, cur, result>>
-----------------------------------------------------------------------------
(***************************************************************************)
(* The operations that write the ledger and leave the schema alone.        *)
(***************************************************************************)

(***************************************************************************)
(* Forget deletes one row, failed or not.  It is sound when the operator   *)
(* has undone the migration first; otherwise the effect that is left is    *)
(* the operator's business.                                                *)
(***************************************************************************)
Forget(r) ==
  LET m == call[r].id IN
  /\ pc[r] = "forget"
  /\ \/ /\ ~table \/ m \notin Recorded
        /\ Return(r, "refused")
        /\ UNCHANGED <<ledger, excused>>
     \/ /\ table /\ m \in Recorded
        /\ ledger' = Delete(ledger, m)
        /\ excused' = IF schema[m] = "none" THEN excused \ {m} ELSE excused \cup {m}
        /\ \/ Return(r, "ok")
           \/ Return(r, "failed")
  /\ UNCHANGED <<lock, table, schema, call, plan, cur, result>>

\* Baseline without the check that the ledger is empty.
BaselineAnyLedger(r) ==
  /\ pc[r] = "baseline"
  /\ call[r].id \in DOMAIN call[r].src
  /\ fromDB' = [fromDB EXCEPT ![r] = ledger]
  /\ toApply' = [toApply EXCEPT ![r] = MigrationsThrough(DOMAIN call[r].src, call[r].id)]
  /\ Goto(r, "recordAll")
  /\ UNCHANGED <<lock, database, call, toRollback, cur, result>>

\* Baseline refuses a ledger that is not empty and an ID the source lacks.
Baseline(r) ==
  LET files == DOMAIN call[r].src IN
  /\ pc[r] = "baseline"
  /\ IF ledger # << >> \/ call[r].id \notin files
       THEN Return(r, "refused") /\ UNCHANGED plan
       ELSE /\ fromDB' = [fromDB EXCEPT ![r] = ledger]
            /\ toApply' = [toApply EXCEPT ![r] = MigrationsThrough(files, call[r].id)]
            /\ Goto(r, "recordAll")
            /\ UNCHANGED toRollback
  /\ UNCHANGED <<lock, database, call, cur, result>>

\* The IDs of S as the slice of files has them: in ascending order.
Slices(S) ==
  {s \in [1 .. Cardinality(S) -> S] :
     ToSet(s) = S /\ \A j, k \in DOMAIN s : j < k => s[j] < s[k]}

\* RecordApplied: all the rows in one transaction, or none.
RecordApplied(r) ==
  LET S == toApply[r] IN
  /\ pc[r] = "recordAll"
  /\ \E committed, replied \in BOOLEAN :
       /\ replied => committed
       /\ committed => S \cap Recorded = {}
       /\ IF committed
            THEN /\ \E s \in Slices(S) :
                      ledger' = ledger \o [k \in DOMAIN s |-> RowOf(call[r].src, s[k], FALSE)]
                 /\ excused' = (excused \ S) \cup {m \in S : schema[m] # "applied"}
            ELSE UNCHANGED <<ledger, excused>>
       /\ IF replied
            THEN /\ applied' = [applied EXCEPT ![r] = S]
                 /\ Return(r, "ok")
                 /\ UNCHANGED rolledBack
            ELSE Return(r, "failed") /\ UNCHANGED result
  /\ UNCHANGED <<lock, table, schema, call, plan, cur>>
-----------------------------------------------------------------------------
(***************************************************************************)
(* Ending a call, and what may happen around it.                           *)
(***************************************************************************)

(***************************************************************************)
(* A read fails, the context is cancelled before a statement is sent, the  *)
(* files cannot be read, a script cannot be split into statements, or the  *)
(* pool has no dedicated connection for it (errNoPinnedConn): the call     *)
(* returns the error and has changed nothing in this step.                 *)
(***************************************************************************)
CallFails(r) ==
  /\ pc[r] \in {"refuse", "plan", "reversible", "execute", "forget", "baseline", "recordAll"}
  /\ pc[r] = "reversible" => toRollback[r] # {}
  /\ pc[r] = "execute" => toRollback[r] \cup toApply[r] # {}
  /\ Return(r, "failed")
  /\ UNCHANGED <<lock, database, call, plan, cur, result>>

\* The runner has no call: its local state is gone.
Reset(r) ==
  /\ pc' = [pc EXCEPT ![r] = "idle"]
  /\ call' = [call EXCEPT ![r] = NoCall]
  /\ fromDB' = [fromDB EXCEPT ![r] = << >>]
  /\ toRollback' = [toRollback EXCEPT ![r] = {}]
  /\ toApply' = [toApply EXCEPT ![r] = {}]
  /\ cur' = [cur EXCEPT ![r] = NoCall.id]
  /\ applied' = [applied EXCEPT ![r] = {}]
  /\ rolledBack' = [rolledBack EXCEPT ![r] = {}]
  /\ outcome' = [outcome EXCEPT ![r] = "ok"]

\* The session that has the lock gives it back, or ends.
Unlock(r) == lock' = IF lock = r THEN None ELSE lock

\* ReleaseLock on the way out of a success alone.
ReleaseLockOnSuccess(r) ==
  /\ pc[r] = "return"
  /\ IF outcome[r] = "ok" THEN Unlock(r) ELSE UNCHANGED lock
  /\ Reset(r)
  /\ UNCHANGED database

\* withLock's deferred ReleaseLock, and the call returns to its caller.
ReleaseLock(r) ==
  /\ pc[r] = "return"
  /\ Unlock(r) /\ Reset(r)
  /\ UNCHANGED database

(***************************************************************************)
(* The process dies and its sessions end, the lock's among them.  Inside a *)
(* notransaction script this leaves an effect no row tells of.             *)
(***************************************************************************)
Crash(r) ==
  /\ MayCrash /\ pc[r] # "idle"
  /\ Unlock(r) /\ Reset(r)
  /\ excused' = IF pc[r] \in ScriptWindow /\ ~Truthful(cur[r], ledger, schema)
                  THEN excused \cup {cur[r]} ELSE excused
  /\ UNCHANGED <<table, ledger, schema>>

\* With no call in progress, an operator brings the effect of a failed or
\* unrecorded migration to one of the two states a migration describes.
Repair(m) ==
  /\ lock = None
  /\ m \in FailedIn(ledger) \cup excused
  /\ \E s \in {"none", "applied"} : schema' = [schema EXCEPT ![m] = s]
  /\ UNCHANGED <<lock, table, ledger, excused, pc, call, plan, cur, result, outcome>>

\* The steps a call takes once it has begun.
TransactionStep(r) == DownTx(r) \/ \E m \in Ids : ApplyTx(r, m)

OtherStep(r) ==
  \/ EnsureMigrationsTable(r) \/ RefuseIfFailed(r)
  \/ PlanUp(r) \/ PlanReconcile(r) \/ PlanDown(r) \/ EnsureReversible(r)
  \/ \E m \in Ids : SelectDown(r, m) \/ StartUpScript(r, m)
  \/ DownStatement(r) \/ MarkFailed(r) \/ DeleteRow(r)
  \/ UpStatement(r) \/ RecordUp(r) \/ PlanDone(r)
  \/ Forget(r) \/ Baseline(r) \/ RecordApplied(r)
  \/ CallFails(r) \/ ReleaseLock(r)

Step(r) == TransactionStep(r) \/ OtherStep(r)

Next ==
  \/ \E r \in Runners :
       \/ \E c \in Calls : Begin(r, c) \/ PlanOnly(r, c)
       \/ Step(r)
       \/ Crash(r)
  \/ \E m \in Ids : Repair(m)

\* Every statement ends, by its reply, its context or its timeout.
Fairness == \A r \in Runners : WF_vars(Step(r))

Spec == Init /\ [][Next]_vars /\ Fairness
-----------------------------------------------------------------------------
(***************************************************************************)
(* Properties.                                                             *)
(***************************************************************************)

\* The shape of the state: the rows of the bookkeeping table are whole and the
\* variables of every call are what service.go and custom_executor.go make them.
TypeOK ==
  /\ lock \in Runners \cup {None}
  /\ table \in BOOLEAN
  /\ ledger \in Seq(Row)
  /\ schema \in [Ids -> {"none", "partial", "applied"}]
  /\ excused \subseteq Ids
  /\ pc \in [Runners -> PCs]
  /\ call \in [Runners -> CallType]
  /\ fromDB \in [Runners -> Seq(Row)]
  /\ toRollback \in [Runners -> SUBSET Ids]
  /\ toApply \in [Runners -> SUBSET Ids]
  /\ cur \in [Runners -> Ids]
  /\ applied \in [Runners -> SUBSET Ids]
  /\ rolledBack \in [Runners -> SUBSET Ids]
  /\ outcome \in [Runners -> {"ok", "refused", "failed"}]

\* A notransaction script of m is between its first statement and its record.
InFlux(m) == \E r \in Runners : pc[r] \in ScriptWindow /\ cur[r] = m

(***************************************************************************)
(* The ledger tells the truth about the schema.  Whatever sequence of      *)
(* calls, failures, lost replies and crashes led here, a migration without *)
(* a row has left no effect and a migration with a healthy row has its     *)
(* whole effect, except while its notransaction script is running and      *)
(* except for the IDs the code has handed to the operator: ErrUnrecorded,  *)
(* a crash inside a notransaction script, a Forget or Baseline that        *)
(* asserted something untrue.                                              *)
(***************************************************************************)
LedgerTruth ==
  \A m \in Ids \ excused : InFlux(m) \/ Truthful(m, ledger, schema)

(***************************************************************************)
(* refuseIfFailed: while a failed row is recorded, no call changes the     *)
(* schema, and none changes the ledger but a Forget of one row.  A call    *)
(* that passed the check before the row failed must not go on either.      *)
(***************************************************************************)
FailedRowFreezes ==
  [][ FailedIn(ledger) # {} =>
        \/ UNCHANGED <<ledger, schema>>
        \/ lock = None /\ UNCHANGED <<lock, ledger>>     \* Repair, by the operator
        \/ /\ UNCHANGED schema
           /\ \E r \in Runners : pc[r] = "forget" /\ ledger' = Delete(ledger, call[r].id) ]_vars

(***************************************************************************)
(* EnsureReversible runs before the first rollback: a migration stored as  *)
(* irreversible leaves the ledger by Forget and in no other way.  The      *)
(* rollback itself would delete its row and undo nothing.                  *)
(***************************************************************************)
IrreversibleStays ==
  [][ \A m \in IrreversibleIn(ledger) :
        m \notin Recorded' => \E r \in Runners : pc[r] = "forget" /\ call[r].id = m ]_vars

(***************************************************************************)
(* Rollbacks go through the ledger from its end.  When a rollback removes  *)
(* a row, every row inserted after it belongs to a migration that the call *)
(* keeps: none for Down, those of the source for Reconcile.                *)
(***************************************************************************)
RollbackLatestFirst ==
  [][ \A r \in Runners :
        LET kept == IF call[r].op = "reconcile" THEN DOMAIN call[r].src ELSE {}
        IN  pc[r] \in {"downTx", "deleteRow"} /\ cur[r] \in Recorded \ Recorded' =>
              \A j, k \in DOMAIN ledger :
                ledger[j].id = cur[r] /\ j < k => ledger[k].id \in kept ]_vars

(***************************************************************************)
(* Reconcile applies a migration behind one that stays applied only with   *)
(* WithInterleaved.  The plan promised it; the rollbacks that came before  *)
(* have to have made it true.                                              *)
(***************************************************************************)
InOrderUnlessAllowed ==
  [][ \A r \in Runners :
        call[r].op = "reconcile" /\ "interleaved" \notin call[r].opts =>
          \A m \in Recorded' \ Recorded :
            (pc[r] = "execute" \/ pc[r] \in ScriptWindow) => \A k \in Recorded : k < m ]_vars

(***************************************************************************)
(* A call that returns without an error has done what it is for: Up has    *)
(* every migration of the source applied, Reconcile has made the ledger    *)
(* equal to the source, and neither leaves a failed row behind.            *)
(***************************************************************************)
SuccessConverges ==
  \A r \in Runners : pc[r] = "return" /\ outcome[r] = "ok" =>
    /\ call[r].op = "up" => DOMAIN call[r].src \subseteq Recorded \ FailedIn(ledger)
    /\ call[r].op = "reconcile" => Recorded = DOMAIN call[r].src /\ FailedIn(ledger) = {}

(***************************************************************************)
(* The Result never claims too much, also on error: between two migrations *)
(* the ledger is the one the call found, less RolledBack, plus Applied,    *)
(* and when the call returns what it lists has really happened.            *)
(***************************************************************************)
ResultIsFact ==
  \A r \in Runners :
    /\ pc[r] = "execute" =>
         Recorded = (RecordedIn(fromDB[r]) \ rolledBack[r]) \cup applied[r]
    /\ pc[r] = "return" /\ call[r].op # "plan" =>
         applied[r] \subseteq Recorded /\ rolledBack[r] \cap Recorded = {}

(***************************************************************************)
(* Down(n) takes n migrations off the end of the ledger and nothing else:  *)
(* whether it succeeded or not, the IDs left are the first ones it found,  *)
(* and on success exactly n are gone, or all of them.                      *)
(***************************************************************************)
DownTakesTheTail ==
  \A r \in Runners : pc[r] = "return" /\ call[r].op = "down" /\ outcome[r] # "refused" =>
    LET n == call[r].count
        before == Len(fromDB[r])
    IN  fromDB[r] # << >> =>
          /\ \A k \in DOMAIN ledger : ledger[k].id = fromDB[r][k].id
          /\ outcome[r] = "ok" =>
               Len(ledger) = IF n = 0 \/ n > before THEN 0 ELSE before - n

(***************************************************************************)
(* Plan's Blocked "reports whether a Reconcile called with the same        *)
(* options would refuse to run": if it is not set, the ledger Plan read    *)
(* has no failed row, and no irreversible migration to roll back.          *)
(***************************************************************************)
PlanForetellsReconcile ==
  [][ \A r \in Runners, c \in Calls :
        PlanOnly(r, c) /\ outcome'[r] = "ok" =>
          FailedIn(ledger) = {} /\ ReconcilePlan(c).toRollback \cap IrreversibleIn(ledger) = {} ]_vars

(***************************************************************************)
(* The recovery docs/troubleshooting.md prescribes for a failed migration: *)
(* bring the schema to fully applied or fully undone by hand, Forget the   *)
(* row, and "normal operation resumes on the next run".  For that the row  *)
(* must leave behind a ledger that is true of the schema; if it is not,    *)
(* the next Up runs the script over its own effect.                        *)
(***************************************************************************)
DocumentedRecoveryIsSound ==
  [][ \A m \in FailedIn(ledger) :
        m \notin Recorded' /\ schema[m] \in {"none", "applied"} =>
          Truthful(m, ledger', schema') ]_vars

(***************************************************************************)
(* A call that got the lock ends, and the lock is given back.              *)
(***************************************************************************)
CallsEnd == \A r \in Runners : pc[r] # "idle" ~> pc[r] = "idle" /\ lock # r

(***************************************************************************)
(* Runs implement the abstract ledger.  The advisory lock is what makes a  *)
(* session of it: whoever holds the lock has the book open.                *)
(***************************************************************************)
Book == INSTANCE MigrationLedger WITH
          book <- ledger,
          session <- IF lock = None THEN "none" ELSE call[lock].op

\* Every behaviour of the service and executor, crashes and lost replies
\* included, is a behaviour of MigrationLedger.
ImplementsLedger == Book!Spec
=============================================================================
