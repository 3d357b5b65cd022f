--------------------------- MODULE OverlappingRuns ---------------------------
(***************************************************************************)
(* Transactions step by step, and runs that overlap.  ApplyMigration and   *)
(* RollbackMigration send BEGIN, the script, the INSERT or DELETE of the   *)
(* row, and COMMIT one after the other, at READ COMMITTED.  When the       *)
(* session holding the advisory lock is terminated, the call it belonged   *)
(* to goes on, a second one may begin, and what they send interleaves.     *)
(*                                                                         *)
(* What PostgreSQL does with it: a statement sees what is committed when   *)
(* it starts; a row written by an open transaction is locked, an insert of *)
(* the same ID included; and so is the object a script has changed.        *)
(*                                                                         *)
(* Whether a script notices that it has nothing to do is up to its author. *)
(* A strict one fails (CREATE TABLE t), another one succeeds and has done  *)
(* nothing (CREATE TABLE IF NOT EXISTS t, DELETE ... WHERE key = 'k').     *)
(***************************************************************************)
EXTENDS Migrator

CONSTANT Strict   \* IDs whose scripts fail when there is nothing for them to do

\* A script that runs in no transaction is not strict: its statements are several.
ASSUME OverlapAssumption ==
  /\ Strict \subseteq Ids
  /\ \A c \in Calls : \A m \in DOMAIN c.src \cap Strict :
       c.src[m].up = "tx" /\ c.src[m].down = "tx"

VARIABLES
  tx,            \* each runner's open transaction: its ID, and what it has done so far
  adopted,       \* IDs Baseline recorded beside a rollback that had found no row
  lost           \* whether a session holding the lock has ever been terminated

overlapVars == <<vars, tx, adopted, lost>>

\* The script has run or not, with or without an effect; so has the write of the
\* row, where "missing" is a DELETE that found none.
TxType == [id : Ids, script : {"none", "noop", "changed"},
           row : {"none", "inserted", "deleted", "missing"}]
NoTx == [id |-> NoCall.id, script |-> "none", row |-> "none"]

OverlapInit == Init /\ tx = [r \in Runners |-> NoTx] /\ adopted = {} /\ lost = FALSE

\* What locks r's transaction holds.
HoldsObject(r, m) == tx[r].script = "changed" /\ tx[r].id = m
HoldsRow(r, m) == tx[r].row \in {"inserted", "deleted"} /\ tx[r].id = m

\* Nobody writes what an open transaction has written.
TxLocksRespected ==
  \A q \in Runners, m \in Ids :
    /\ HoldsObject(q, m) => schema'[m] = schema[m]
    /\ HoldsRow(q, m) => {row \in ToSet(ledger') : row.id = m} = {row \in ToSet(ledger) : row.id = m}
-----------------------------------------------------------------------------
(***************************************************************************)
(* The transaction of ApplyMigration or RollbackMigration.                 *)
(***************************************************************************)

\* tx.ExecContext of the script, for the state "to" of the schema.  It decides by
\* what is committed, and waits for whoever is changing the same object.
RunScript(r, m, to) ==
  LET nothingToDo == schema[m] = to \/ (to = "none" /\ m \in IrreversibleIn(ledger)) IN
  /\ tx[r].script = "none"
  /\ IF nothingToDo
       THEN /\ m \notin Strict
            /\ tx' = [tx EXCEPT ![r] = [id |-> m, script |-> "noop", row |-> "none"]]
       ELSE /\ \A q \in Runners : ~HoldsObject(q, m)
            /\ tx' = [tx EXCEPT ![r] = [id |-> m, script |-> "changed", row |-> "none"]]
  /\ UNCHANGED <<vars, adopted, lost>>

UpScriptTx(r, m) ==
  /\ pc[r] = "execute" /\ NextToApply(r, m) /\ call[r].src[m].up = "tx"
  /\ RunScript(r, m, "applied")

DownScriptTx(r) == pc[r] = "downTx" /\ RunScript(r, cur[r], "none")

\* The row written through e.db, beside the transaction.
WriteRowApart(r) ==
  LET m == tx[r].id IN
  /\ tx[r].script # "none" /\ tx[r].row = "none"
  /\ pc[r] = "execute" => m \notin Recorded
  /\ ledger' = IF pc[r] = "execute" THEN Insert(ledger, RowOf(call[r].src, m, FALSE))
                                   ELSE Delete(ledger, m)
  /\ tx' = [tx EXCEPT ![r].row = "missing"]
  /\ UNCHANGED <<lock, table, schema, excused, pc, call, plan, cur, result, outcome, adopted, lost>>

\* The INSERT or DELETE of the row, which waits for an open one and goes by the
\* outcome.  The number of rows it has deleted is not looked at.
WriteRow(r) ==
  LET m == tx[r].id IN
  /\ tx[r].script # "none" /\ tx[r].row = "none"
  /\ \A q \in Runners : ~HoldsRow(q, m)
  /\ \/ /\ pc[r] = "execute" /\ m \notin Recorded
        /\ tx' = [tx EXCEPT ![r].row = "inserted"]
     \/ /\ pc[r] = "downTx"
        /\ tx' = [tx EXCEPT ![r].row = IF m \in Recorded THEN "deleted" ELSE "missing"]
  /\ UNCHANGED <<vars, adopted, lost>>

\* What the transaction makes of the schema.
SchemaAfter(r) ==
  IF tx[r].script = "changed"
    THEN [schema EXCEPT ![tx[r].id] = IF pc[r] = "execute" THEN "applied" ELSE "none"]
    ELSE schema

\* COMMIT makes both visible in one moment; its reply may be lost.
CommitTx(r) ==
  LET m == tx[r].id IN
  /\ tx[r].row # "none"
  /\ ledger' = CASE tx[r].row = "inserted" -> Insert(ledger, RowOf(call[r].src, m, FALSE))
                 [] tx[r].row = "deleted" -> Delete(ledger, m)
                 [] OTHER -> ledger
  /\ schema' = SchemaAfter(r)
  /\ excused' = excused \ {m}
  /\ \/ /\ pc[r] = "execute" /\ AppliedOne(r, m)
     \/ /\ pc[r] = "downTx" /\ RolledBackOne(r)
     \/ Return(r, "failed") /\ UNCHANGED <<plan, result>>
  /\ cur' = [cur EXCEPT ![r] = m]
  /\ tx' = [tx EXCEPT ![r] = NoTx]
  /\ UNCHANGED <<lock, table, call, adopted, lost>>

\* BEGIN, the script, the write or the COMMIT fails: the deferred tx.Rollback.
RollbackTx(r) ==
  /\ tx[r].script # "none" \/ pc[r] = "downTx"
  /\ Return(r, "failed")
  /\ tx' = [tx EXCEPT ![r] = NoTx]
  /\ UNCHANGED <<lock, database, call, plan, cur, result, adopted, lost>>
-----------------------------------------------------------------------------
(***************************************************************************)
(* Everything else is as in Migrator, beside the transactions of others.   *)
(***************************************************************************)

\* Baseline's row of a migration whose open rollback has found no row to delete:
\* what it asserts is about to become untrue.
Adoptions(r) ==
  {m \in Recorded' \ Recorded :
     pc[r] = "recordAll" /\ \E q \in Runners : tx[q].row = "missing" /\ tx[q].id = m}

CallGoesOn(r) ==
  /\ tx[r].script = "none" /\ OtherStep(r)
  /\ TxLocksRespected
  /\ adopted' = adopted \cup Adoptions(r)
  /\ UNCHANGED <<tx, lost>>

CallBegins(r) ==
  /\ \E c \in Calls : Begin(r, c) \/ PlanOnly(r, c)
  /\ UNCHANGED <<tx, adopted, lost>>

\* The sessions of a process that dies are rolled back.
ProcessDies(r) ==
  /\ Crash(r)
  /\ tx' = [tx EXCEPT ![r] = NoTx]
  /\ UNCHANGED <<adopted, lost>>

\* The backend holding the lock is terminated; the call knows nothing of it.
LoseLock ==
  /\ lock # None
  /\ lock' = None /\ lost' = TRUE
  /\ UNCHANGED <<database, pc, call, plan, cur, result, outcome, tx, adopted>>

OperatorRepairs ==
  /\ \E m \in Ids : Repair(m)
  /\ TxLocksRespected
  /\ UNCHANGED <<tx, adopted, lost>>

OverlapNext ==
  \/ \E r \in Runners :
       \/ \E m \in Ids : UpScriptTx(r, m)
       \/ DownScriptTx(r) \/ WriteRow(r) \/ CommitTx(r) \/ RollbackTx(r)
       \/ CallGoesOn(r) \/ CallBegins(r) \/ ProcessDies(r)
  \/ LoseLock \/ OperatorRepairs

OverlapSpec == OverlapInit /\ [][OverlapNext]_overlapVars
-----------------------------------------------------------------------------
(***************************************************************************)
(* Properties.                                                             *)
(***************************************************************************)

(***************************************************************************)
(* Without the lock the ledger is true of the migrations whose scripts are *)
(* strict, whatever the other scripts are: of two runs that meet, one has  *)
(* to wait and then fails, at the script's object or at the row's primary  *)
(* key, and its transaction takes the other half back.  A script that may  *)
(* do nothing has no such protection: a rollback that finds no effect and  *)
(* then the row of a run that has just committed deletes that row.         *)
(***************************************************************************)
TruthWithoutLock ==
  \A m \in Strict \ (excused \cup adopted) : Truthful(m, ledger, schema)

(***************************************************************************)
(* Until the lock is lost, the steps of a transaction look like one: every *)
(* step here is one of Migrator, or changes nothing Migrator knows of.     *)
(* That is what DownTx and ApplyTx take for granted.                       *)
(***************************************************************************)
ImplementsMigrator == Init /\ [][~lost' => Next]_vars
=============================================================================
