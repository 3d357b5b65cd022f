--------------------------- MODULE LateStatements ---------------------------
(***************************************************************************)
(* Statements that outlive their call.  In Migrator a statement has its    *)
(* effect, or not, before its call goes on.  When a context ends, or the   *)
(* process dies, in the middle of a statement, the client is told at once  *)
(* and the server may go on: an index build for hours, a COMMIT until it   *)
(* reaches the disk, a DELETE until a lock is free.  By then the advisory  *)
(* lock, which another session held, is free, and the next run has begun.  *)
(*                                                                         *)
(* This module adds what the server is still working on to Migrator and    *)
(* leaves everything else as it is.  Every write of the executor that      *)
(* commits can be late: the statement of a notransaction script, the       *)
(* INSERT, UPDATE or DELETE that reports on one, Forget's DELETE, and the  *)
(* COMMITs of ApplyMigration, RollbackMigration and RecordApplied.  A      *)
(* statement inside a transaction cannot: nobody is left to commit it.  A  *)
(* late CREATE TABLE is left out: the empty table it leaves reads like no  *)
(* table.                                                                  *)
(***************************************************************************)
EXTENDS Migrator

CONSTANT MaxLate   \* how much the server may be working on at a time

ASSUME MaxLateAssumption == MaxLate \in Nat

VARIABLES
  late,            \* the work the server goes on with, without a client
  orphaned         \* IDs with late work that nothing in the ledger tells of

lateVars == <<vars, late, orphaned>>

LateInit == Init /\ late = {} /\ orphaned = {}

(***************************************************************************)
(* A statement leaves part or all of what its script is for.  A write of   *)
(* one row commits by itself.  A COMMIT makes a whole transaction visible  *)
(* in one moment: a script with the INSERT or DELETE of its row, the rows  *)
(* of a Baseline, or a rollback that has found no row to delete.           *)
(***************************************************************************)
Statements == {w \in late : w.kind = "statement"}
Writes == {w \in late : w.kind \in {"insert", "mark", "delete", "forget"}}
Commits == {w \in late : w.kind \in {"applying", "undoing", "adopting", "rowless"}}

\* The IDs w is about, and those whose rows its open transaction has written.
About(w) == IF w.kind = "adopting" THEN RecordedIn(w.rows) ELSE {w.id}
RowsOf(w) == IF w.kind \in {"applying", "undoing", "adopting"} THEN About(w) ELSE {}

\* The server goes on with w.
GoesOn(w) ==
  /\ Cardinality(late) < MaxLate
  /\ late' = late \cup {w}

(***************************************************************************)
(* A transaction whose COMMIT is on its way keeps its locks: on the rows   *)
(* of the bookkeeping table it inserted or deleted, and on the objects of  *)
(* its script.  Whoever wants to write them waits, or fails.  Reads do     *)
(* not.                                                                    *)
(***************************************************************************)
LocksRespected ==
  \A w \in Commits \cap late' :
    /\ w.kind # "adopting" => schema'[w.id] = schema[w.id]
    /\ \A m \in RowsOf(w) :
         {row \in ToSet(ledger') : row.id = m} = {row \in ToSet(ledger) : row.id = m}

(***************************************************************************)
(* A step orphans a late statement when it is the crash of the call that   *)
(* would have recorded it, its ErrUnrecorded, or a DELETE, Forget's own or *)
(* one that lands late, of the failed row.  It orphans a late write when   *)
(* it overtakes it: the row it was sent for has been replaced, the effect  *)
(* it reports on is another one, or a script is at it again.  From then on *)
(* what late work leaves of the migration is the operator's business.      *)
(***************************************************************************)
RowTakenAway(m) ==
  /\ m \in Recorded \ Recorded'
  /\ \/ \E r \in Runners : pc[r] = "forget" /\ pc'[r] # "forget"
     \/ \E w \in Writes \ late' : w.id = m

CallGone(m) == \E r \in Runners : pc[r] \in ScriptWindow /\ cur[r] = m /\ pc'[r] = "idle"

Overtaken(m) == m \in Recorded' \ Recorded \/ schema'[m] # schema[m] \/ InFlux(m)'

Orphans ==
  {w.id : w \in {x \in Statements \cap late' :
                   x.id \in excused' \/ RowTakenAway(x.id) \/ CallGone(x.id)}}
  \cup {w.id : w \in {x \in Writes \cap late' : Overtaken(x.id)}}
-----------------------------------------------------------------------------
(***************************************************************************)
(* The call gives the statement up.                                        *)
(***************************************************************************)

\* No COMMIT on its way has written m's row: a second one would have had to wait.
RowFree(m) == \A w \in Commits : m \notin RowsOf(w)

\* What the server may be working on for r.
Sent(r) ==
  LET m == cur[r]
      src == call[r].src
      next == {k \in toApply[r] \ Recorded : NextToApply(r, k) /\ src[k].up = "tx" /\ RowFree(k)}
      adopts == toApply[r] \cap Recorded = {} /\ \A k \in toApply[r] : RowFree(k)
  IN
  CASE pc[r] = "upStmts" -> {[kind |-> "statement", id |-> m, to |-> "applied"]}
    [] pc[r] = "downStmts" -> {[kind |-> "statement", id |-> m, to |-> "none"]}
    [] pc[r] \in {"recordOk", "recordErr"} /\ m \notin Recorded ->
         {[kind |-> "insert", id |-> m, row |-> RowOf(src, m, pc[r] = "recordErr")]}
    [] pc[r] = "markFailed" -> {[kind |-> "mark", id |-> m]}
    [] pc[r] = "deleteRow" -> {[kind |-> "delete", id |-> m]}
    [] pc[r] = "forget" /\ table -> {[kind |-> "forget", id |-> call[r].id]}
    [] pc[r] = "execute" ->
         {[kind |-> "applying", id |-> k, row |-> RowOf(src, k, FALSE)] : k \in next}
    [] pc[r] = "downTx" /\ m \in Recorded /\ RowFree(m) -> {[kind |-> "undoing", id |-> m]}
    [] pc[r] = "downTx" /\ m \notin Recorded /\ schema[m] # "none" -> {[kind |-> "rowless", id |-> m]}
    [] pc[r] = "recordAll" /\ adopts ->
         {[kind |-> "adopting", rows |-> [k \in DOMAIN s |-> RowOf(src, s[k], FALSE)]] :
            s \in Slices(toApply[r])}
    [] OTHER -> {}

\* A cancelled script whose bookkeeping write is cancelled with it.
AbandonStatementUnrecorded(r) ==
  /\ \E w \in Sent(r) : w.kind = "statement" /\ GoesOn(w)
  /\ Return(r, "failed")
  /\ UNCHANGED <<lock, database, call, plan, cur, result>>
  /\ orphaned' = orphaned \cup Orphans

(***************************************************************************)
(* The context ends while runStatements waits for a statement.  The call   *)
(* has its error and takes the path of a failed script; the write that     *)
(* follows is detached from the context and uses another connection.       *)
(***************************************************************************)
AbandonStatement(r) ==
  /\ \E w \in Sent(r) : w.kind = "statement" /\ GoesOn(w)
  /\ Goto(r, IF pc[r] = "upStmts" THEN "recordErr" ELSE "markFailed")
  /\ UNCHANGED <<lock, database, call, plan, cur, result>>
  /\ orphaned' = orphaned \cup Orphans

\* The timeout of a bookkeeping write passes: ErrUnrecorded.
AbandonWrite(r) ==
  /\ \E w \in Sent(r) :
       /\ w.kind \in {"insert", "mark", "delete"} /\ GoesOn(w)
       /\ excused' = excused \cup {w.id}
  /\ Return(r, "failed")
  /\ UNCHANGED <<lock, table, ledger, schema, call, plan, cur, result>>
  /\ orphaned' = orphaned \cup Orphans

\* The COMMIT of a rollback that has found no row is not reported anywhere.
Rowless(w) == IF w.kind = "rowless" THEN {w.id} ELSE {}

\* The context ends while the call waits for Forget's DELETE or for a COMMIT.
AbandonCommit(r) ==
  \E w \in Sent(r) :
    /\ w.kind \notin {"statement", "insert", "mark", "delete"} /\ GoesOn(w)
    /\ cur' = IF w.kind = "applying" THEN [cur EXCEPT ![r] = w.id] ELSE cur
    /\ Return(r, "failed")
    /\ UNCHANGED <<lock, database, call, plan, result>>
    /\ orphaned' = orphaned \cup Orphans \cup Rowless(w)

\* The process dies in the middle of any of them.
CrashInStatement(r) ==
  \E w \in Sent(r) :
    /\ GoesOn(w)
    /\ Crash(r)
    /\ orphaned' = orphaned \cup Orphans \cup Rowless(w)
                     \cup (IF w.kind = "statement" THEN {w.id} ELSE {})
-----------------------------------------------------------------------------
(***************************************************************************)
(* The server finishes.  A row that lands is put at the end of the ledger, *)
(* although its seq may be older: nothing below depends on the order.      *)
(***************************************************************************)

StatementLands(w) ==
  /\ w.kind = "statement"
  /\ \E s \in {"partial", w.to} : schema' = [schema EXCEPT ![w.id] = s]
  /\ UNCHANGED <<ledger, excused>>

ApplyCommitLands(w) ==
  /\ w.kind = "applying"
  /\ ledger' = Insert(ledger, w.row)
  /\ schema' = [schema EXCEPT ![w.id] = "applied"]
  /\ excused' = excused \ {w.id}

UndoCommitLands(w) ==
  /\ w.kind = "undoing"
  /\ ledger' = Delete(ledger, w.id)
  /\ schema' = IF w.id \in IrreversibleIn(ledger) THEN schema
               ELSE [schema EXCEPT ![w.id] = "none"]
  /\ excused' = excused \ {w.id}

RowlessCommitLands(w) ==
  /\ w.kind = "rowless"
  /\ schema' = [schema EXCEPT ![w.id] = "none"]
  /\ UNCHANGED <<ledger, excused>>

AdoptCommitLands(w) ==
  LET S == RecordedIn(w.rows) IN
  /\ w.kind = "adopting"
  /\ ledger' = ledger \o w.rows
  /\ excused' = (excused \ S) \cup {m \in S : schema[m] # "applied"}
  /\ UNCHANGED schema

\* The row is told of after all.
InsertLands(w) ==
  /\ w.kind = "insert" /\ w.id \notin Recorded
  /\ ledger' = Insert(ledger, w.row)
  /\ excused' = excused \ {w.id}
  /\ UNCHANGED schema

MarkLands(w) ==
  /\ w.kind = "mark" /\ w.id \in Recorded
  /\ ledger' = MarkError(ledger, w.id)
  /\ excused' = excused \ {w.id}
  /\ UNCHANGED schema

DeleteLands(w) ==
  /\ w.kind \in {"delete", "forget"} /\ w.id \in Recorded
  /\ ledger' = Delete(ledger, w.id)
  /\ excused' = IF w.kind = "delete" \/ schema[w.id] = "none"
                  THEN excused \ {w.id} ELSE excused \cup {w.id}
  /\ UNCHANGED schema

Lands(w) ==
  /\ \/ StatementLands(w) \/ ApplyCommitLands(w) \/ UndoCommitLands(w) \/ RowlessCommitLands(w)
     \/ AdoptCommitLands(w) \/ InsertLands(w) \/ MarkLands(w) \/ DeleteLands(w)
  /\ UNCHANGED <<lock, table, pc, call, plan, cur, result, outcome>>
  /\ late' = late \ {w}
  /\ LocksRespected
  /\ orphaned' = orphaned \cup Orphans

\* The work fails, finds no row, or is undone: by the driver's cancel request, or
\* because the backend notices that its client is gone.
Stops(w) == late' = late \ {w} /\ UNCHANGED <<vars, orphaned>>

\* A step of Migrator beside the server's work.
Beside(A) == A /\ UNCHANGED late /\ LocksRespected /\ orphaned' = orphaned \cup Orphans

LateNext ==
  \/ Beside(Next)
  \/ \E r \in Runners :
       AbandonStatement(r) \/ AbandonWrite(r) \/ AbandonCommit(r) \/ CrashInStatement(r)
  \/ \E w \in late : Lands(w) \/ Stops(w)

\* Every statement ends, and so does whatever the server goes on with: a call
\* that meets the locks of a COMMIT waits for no longer than the COMMIT takes.
LateFairness ==
  /\ \A r \in Runners : WF_lateVars(Beside(Step(r)))
  /\ \A m \in Ids : WF_lateVars(\E w \in late : m \in About(w) /\ (Lands(w) \/ Stops(w)))

LateSpec == LateInit /\ [][LateNext]_lateVars /\ LateFairness
-----------------------------------------------------------------------------
(***************************************************************************)
(* Properties.                                                             *)
(***************************************************************************)

(***************************************************************************)
(* The ledger tells the truth beside work that lands late.  What makes it  *)
(* so differs: a COMMIT brings its row along; a statement finds a failed   *)
(* row, because the write of that row was detached from the context that   *)
(* ended; a write of one row is true when it lands if nobody has overtaken *)
(* it.  An orphaned migration is not vouched for: a cancelled Forget whose *)
(* DELETE lands behind a second Forget and a new Up takes a healthy row.   *)
(***************************************************************************)
TruthBesideLateWork ==
  \A m \in Ids \ (excused \cup orphaned) : InFlux(m) \/ Truthful(m, ledger, schema)

(***************************************************************************)
(* A statement of a notransaction script that goes on after its call is    *)
(* fenced in: its migration has a failed row, or is about to get it under  *)
(* the lock, so that no other call runs one of the migration's scripts     *)
(* beside the statement.                                                   *)
(***************************************************************************)
LateStatementIsFenced ==
  \A w \in Statements : w.id \notin orphaned =>
    LET busy == {r \in Runners : pc[r] \in ScriptWindow /\ cur[r] = w.id} IN
    \/ w.id \in FailedIn(ledger) /\ busy = {}
    \/ \E r \in Runners :
         busy = {r} /\ pc[r] \in {"recordErr", "markFailed"} /\ lock = r
=============================================================================
