---------------------------- MODULE OverlapProofs ----------------------------
(***************************************************************************)
(* Proofs about work that overlaps the lock: runs that overlap each other  *)
(* because the session holding the lock was terminated (OverlappingRuns),  *)
(* and statements, writes and COMMITs that outlive the call they were sent *)
(* for (LateStatements).                                                   *)
(*                                                                         *)
(* OverlapInv says how far each open transaction is and that locks are     *)
(* exclusive; a strict migration's row and effect then change together.    *)
(* LockInv says that whoever has a transaction open holds the advisory     *)
(* lock, so that nobody else has changed what the script has seen by the   *)
(* time of the COMMIT.  LateInv says of each thing the server is working   *)
(* on what will make it true when it lands, and of each place in a call    *)
(* what the call may rely on meanwhile.                                    *)
(***************************************************************************)
EXTENDS LateStatements, OverlappingRuns, MigratorProofs

\* The source of a call gives strict migrations scripts that run in transactions.
StrictCall(c) ==
  \A m \in DOMAIN c.src \cap Strict : c.src[m].up = "tx" /\ c.src[m].down = "tx"

\* And so do the rows such calls write, which never fail.
StrictRows(rows) ==
  \A row \in ToSet(rows) : row.id \in Strict => row.down = "tx" /\ row.err = FALSE

\* What r's transaction has done fits where r's call is and what the others have done.
TxFits(r) ==
  /\ tx[r].script = "none" => tx[r].row = "none"
  /\ tx[r].script # "none" =>
       \/ pc[r] = "execute" /\ tx[r].id \in toApply[r]
       \/ pc[r] = "downTx" /\ tx[r].id = cur[r]
  /\ tx[r].script # "none" /\ tx[r].id \in Strict => tx[r].script = "changed"
  /\ tx[r].row = "inserted" => pc[r] = "execute" /\ tx[r].id \notin Recorded
  /\ tx[r].row \in {"deleted", "missing"} => pc[r] = "downTx"
  /\ tx[r].row = "missing" /\ tx[r].id \in Strict \ adopted => tx[r].id \notin Recorded

\* Locks are exclusive.
Exclusive ==
  \A q, r \in Runners, m \in Ids :
    /\ HoldsObject(q, m) /\ HoldsObject(r, m) => q = r
    /\ HoldsRow(q, m) /\ HoldsRow(r, m) => q = r

\* Strict migrations are kept apart from what runs outside transactions.
RunsInv ==
  /\ TypeInv /\ UniqueIds(ledger) /\ StrictRows(ledger) /\ TruthWithoutLock
  /\ \A r \in Runners :
       StrictCall(call[r]) /\ (pc[r] \in ScriptWindow => cur[r] \notin Strict)

OverlapInv ==
  /\ RunsInv /\ tx \in [Runners -> TxType] /\ Exclusive
  /\ \A r \in Runners : TxFits(r)

\* What a step has to keep of the ledger.
KeepsStrict ==
  /\ UniqueIds(ledger') /\ StrictRows(ledger')
  /\ \A m \in Strict \ (excused' \cup adopted) : Truthful(m, ledger', schema')

\* Outside the transactions only Baseline gives a strict migration a row.
OnlyAdopts(r) == \A m \in Strict : m \in Recorded' \ Recorded => pc[r] = "recordAll"

\* Strict migrations are among the migrations.
LEMMA StrictTypes == Strict \subseteq Ids
  BY OverlapAssumption

\* A strict migration's row, if there is one, is healthy and can be undone.
LEMMA StrictFacts ==
  ASSUME NEW rows, StrictRows(rows)
  PROVE  Strict \cap FailedIn(rows) = {} /\ Strict \cap IrreversibleIn(rows) = {}
  BY DEF StrictRows, FailedIn, IrreversibleIn

\* The rows a call writes for strict migrations.
LEMMA StrictRowOf ==
  ASSUME NEW c, StrictCall(c), NEW m \in DOMAIN c.src
  PROVE  /\ RowOf(c.src, m, FALSE).id = m
         /\ m \in Strict => /\ RowOf(c.src, m, FALSE).down = "tx"
                            /\ RowOf(c.src, m, FALSE).err = FALSE
  BY DEF StrictCall, RowOf

\* A step that writes nothing of the strict migrations outside M.
LEMMA Elsewhere ==
  ASSUME RunsInv, NEW M,
         \A row : row.id \in Strict \ M =>
                    (row \in ToSet(ledger') <=> row \in ToSet(ledger)),
         \A k \in Strict \ M : schema'[k] = schema[k] /\ (k \in excused => k \in excused')
  PROVE  /\ \A row \in ToSet(ledger') : row.id \in Strict \ M => row.down = "tx" /\ row.err = FALSE
         /\ \A k \in Strict \ (M \cup excused' \cup adopted) : Truthful(k, ledger', schema')
         /\ \A k \in Strict \ M : k \in Recorded' <=> k \in Recorded
  <1>1. \A row \in ToSet(ledger') : row.id \in Strict \ M => row.down = "tx" /\ row.err = FALSE
    BY DEF RunsInv, StrictRows
  <1>2. \A k \in Strict \ M : /\ k \in RecordedIn(ledger') <=> k \in RecordedIn(ledger)
                              /\ k \in FailedIn(ledger') <=> k \in FailedIn(ledger)
    BY DEF RecordedIn, FailedIn
  <1>3. \A k \in Strict \ (M \cup excused' \cup adopted) : Truthful(k, ledger', schema')
    BY <1>2 DEF RunsInv, TruthWithoutLock, Truthful
  <1> QED BY <1>1, <1>2, <1>3 DEF Recorded

\* A step that touches no strict migration.
LEMMA OffStrict ==
  ASSUME RunsInv, NEW r \in Runners, UniqueIds(ledger'),
         \A row : row.id \in Strict => (row \in ToSet(ledger') <=> row \in ToSet(ledger)),
         \A k \in Strict : schema'[k] = schema[k] /\ (k \in excused => k \in excused')
  PROVE  KeepsStrict /\ OnlyAdopts(r)
  <1> DEFINE M == {}
  <1>1. /\ \A row : row.id \in Strict \ M =>
                      (row \in ToSet(ledger') <=> row \in ToSet(ledger))
        /\ \A k \in Strict \ M : schema'[k] = schema[k] /\ (k \in excused => k \in excused')
    OBVIOUS
  <1>2. /\ \A row \in ToSet(ledger') : row.id \in Strict \ M => row.down = "tx" /\ row.err = FALSE
        /\ \A k \in Strict \ (M \cup excused' \cup adopted) : Truthful(k, ledger', schema')
        /\ \A k \in Strict \ M : k \in Recorded' <=> k \in Recorded
    <2> HIDE DEF M
    <2> QED BY <1>1, Elsewhere
  <1> QED BY <1>2 DEF KeepsStrict, OnlyAdopts, StrictRows

\* The UPDATE of a row, which may be gone.
LEMMA MarkErrorElsewhere ==
  ASSUME NEW rows \in Seq(Row), NEW m, UniqueIds(rows)
  PROVE  /\ UniqueIds(MarkError(rows, m))
         /\ \A row : row.id # m => (row \in ToSet(MarkError(rows, m)) <=> row \in ToSet(rows))
  <1> DEFINE t == MarkError(rows, m)
  <1>1. \A k \in DOMAIN rows : rows[k] \in Row
    BY RowsType
  <1>2. DOMAIN t = DOMAIN rows
    BY DEF MarkError
  <1>3. \A k \in DOMAIN rows : t[k].id = rows[k].id /\ (rows[k].id # m => t[k] = rows[k])
    <2> SUFFICES ASSUME NEW k \in DOMAIN rows
                 PROVE  t[k].id = rows[k].id /\ (rows[k].id # m => t[k] = rows[k])
      OBVIOUS
    <2>1. rows[k] \in Row
      BY <1>1
    <2> QED BY <2>1 DEF MarkError, Row
  <1> HIDE DEF t
  <1>4. UniqueIds(t)
    BY <1>2, <1>3 DEF UniqueIds
  <1>5. \A row : row.id # m => (row \in ToSet(t) <=> row \in ToSet(rows))
    BY <1>2, <1>3 DEF ToSet
  <1> QED BY <1>4, <1>5 DEF t
-----------------------------------------------------------------------------
\* Reading, planning, returning.
LEMMA QuietKeepsStrict ==
  ASSUME RunsInv, NEW r \in Runners, UNCHANGED <<ledger, schema, excused>>
  PROVE  KeepsStrict /\ OnlyAdopts(r)
  <1>1. UniqueIds(ledger')
    BY DEF RunsInv
  <1> QED BY <1>1, OffStrict

\* Statements and bookkeeping of notransaction scripts: none of them is strict.
LEMMA ScriptKeepsStrict ==
  ASSUME RunsInv, NEW r \in Runners,
         \/ DownStatement(r) \/ UpStatement(r) \/ MarkFailed(r) \/ DeleteRow(r) \/ RecordUp(r)
  PROVE  KeepsStrict /\ OnlyAdopts(r)
  <1> DEFINE m == cur[r]
  <1>1. /\ ledger \in Seq(Row) /\ UniqueIds(ledger)
        /\ schema \in [Ids -> {"none", "partial", "applied"}]
    BY DEF RunsInv, TypeInv, TypeOK
  <1>2. pc[r] \in ScriptWindow /\ m \notin Strict
    BY DEF RunsInv, DownStatement, UpStatement, MarkFailed, DeleteRow, RecordUp, ScriptWindow
  <1>3. \A k \in Strict : schema'[k] = schema[k]
    <2>1. UNCHANGED schema \/ \E s : schema' = [schema EXCEPT ![m] = s]
      BY DEF DownStatement, UpStatement, MarkFailed, DeleteRow, RecordUp, Bookkeeping
    <2> QED BY <1>1, <1>2, <2>1, StrictTypes
  <1>4. \A k \in Strict : k \in excused => k \in excused'
    BY <1>2 DEF DownStatement, UpStatement, MarkFailed, DeleteRow, RecordUp, Bookkeeping
  <1>5. /\ UniqueIds(ledger')
        /\ \A row : row.id \in Strict => (row \in ToSet(ledger') <=> row \in ToSet(ledger))
    <2>1. CASE UNCHANGED ledger
      BY <1>1, <2>1
    <2>2. CASE MarkFailed(r) /\ ledger' = MarkError(ledger, m)
      BY <1>1, <1>2, <2>2, MarkErrorElsewhere
    <2>3. CASE DeleteRow(r) /\ ledger' = Delete(ledger, m)
      BY <1>1, <1>2, <2>3, DeleteSets
    <2>4. CASE RecordUp(r) /\ ledger' # ledger
      <3> DEFINE row == RowOf(call[r].src, m, pc[r] = "recordErr")
      <3>1. m \notin Recorded /\ ledger' = Insert(ledger, row)
        BY <2>4 DEF RecordUp, Bookkeeping
      <3>2. row \in Row /\ row.id = m
        <4>1. m \in DOMAIN call[r].src /\ call[r].src \in Sources
          BY <2>4, TypeFacts DEF RecordUp, RunsInv
        <4> QED BY <4>1, RowOfType DEF RowOf
      <3> HIDE DEF row
      <3>3. UniqueIds(ledger') /\ ToSet(ledger') = ToSet(ledger) \cup {row}
        BY <1>1, <3>1, <3>2, InsertFacts, InsertRow DEF Recorded
      <3> QED BY <1>2, <3>2, <3>3
    <2>5. /\ DownStatement(r) \/ UpStatement(r) => UNCHANGED ledger
          /\ MarkFailed(r) => ledger' \in {ledger, MarkError(ledger, m)}
          /\ DeleteRow(r) => ledger' \in {ledger, Delete(ledger, m)}
      BY DEF DownStatement, UpStatement, MarkFailed, DeleteRow, Bookkeeping
    <2> QED BY <2>1, <2>2, <2>3, <2>4, <2>5
  <1> QED BY <1>3, <1>4, <1>5, OffStrict

\* Forget leaves an effect that is there to the operator.
LEMMA ForgetKeepsStrict ==
  ASSUME RunsInv, NEW r \in Runners, Forget(r)
  PROVE  KeepsStrict /\ OnlyAdopts(r)
  <1> DEFINE m == call[r].id
  <1>1. ledger \in Seq(Row) /\ UniqueIds(ledger)
    BY DEF RunsInv, TypeInv, TypeOK
  <1>2. CASE UNCHANGED <<ledger, excused>>
    BY <1>2, QuietKeepsStrict DEF Forget
  <1>3. CASE /\ ledger' = Delete(ledger, m)
             /\ excused' = IF schema[m] = "none" THEN excused \ {m} ELSE excused \cup {m}
    <2> DEFINE M == {m}
    <2>1. UNCHANGED schema
      BY DEF Forget
    <2>2. /\ UniqueIds(ledger') /\ ToSet(ledger') = {row \in ToSet(ledger) : row.id # m}
          /\ RecordedIn(ledger') = RecordedIn(ledger) \ {m}
      BY <1>1, <1>3, DeleteSets, DeleteFacts
    <2>3. /\ \A row : row.id \in Strict \ M =>
                        (row \in ToSet(ledger') <=> row \in ToSet(ledger))
          /\ \A k \in Strict \ M : schema'[k] = schema[k] /\ (k \in excused => k \in excused')
      BY <1>3, <2>1, <2>2
    <2>4. /\ \A row \in ToSet(ledger') : row.id \in Strict \ M => row.down = "tx" /\ row.err = FALSE
          /\ \A k \in Strict \ (M \cup excused' \cup adopted) : Truthful(k, ledger', schema')
      <3> HIDE DEF M
      <3> QED BY <2>3, Elsewhere
    <2>5. m \in excused' \/ Truthful(m, ledger', schema')
      BY <1>3, <2>1, <2>2 DEF Truthful
    <2>6. Recorded' \ Recorded = {}
      BY <2>2 DEF Recorded
    <2>7. StrictRows(ledger')
      BY <2>2, <2>4 DEF StrictRows
    <2>8. \A k \in Strict \ (excused' \cup adopted) : Truthful(k, ledger', schema')
      BY <2>4, <2>5
    <2> QED BY <2>2, <2>6, <2>7, <2>8 DEF KeepsStrict, OnlyAdopts
  <1> QED BY <1>2, <1>3 DEF Forget

\* Baseline's rows, behind those another run may have written since the ledger
\* was found empty.
LEMMA RecordAppliedKeepsStrict ==
  ASSUME RunsInv, NEW r \in Runners, RecordApplied(r)
  PROVE  KeepsStrict /\ OnlyAdopts(r)
  <1> DEFINE M == toApply[r]
             src == call[r].src
  <1>1. ledger \in Seq(Row) /\ UniqueIds(ledger) /\ StrictCall(call[r]) /\ StrictRows(ledger)
    BY DEF RunsInv, TypeInv, TypeOK
  <1>2. UNCHANGED schema /\ pc[r] = "recordAll"
    BY DEF RecordApplied
  <1>3. CASE UNCHANGED <<ledger, excused>>
    BY <1>2, <1>3, QuietKeepsStrict
  <1>4. ASSUME NEW s \in Slices(M), M \cap Recorded = {},
               ledger' = ledger \o [k \in DOMAIN s |-> RowOf(src, s[k], FALSE)],
               excused' = (excused \ M) \cup {m \in M : schema[m] # "applied"}
        PROVE  KeepsStrict /\ OnlyAdopts(r)
    <2> DEFINE more == [k \in DOMAIN s |-> RowOf(src, s[k], FALSE)]
    <2>1. src \in Sources /\ M \in SUBSET DOMAIN src
      BY TypeFacts DEF RunsInv
    <2>2. more \in Seq(Row) /\ UniqueIds(more) /\ RecordedIn(more) = M /\ FailedIn(more) = {}
      <3>1. more \in Seq(Row)
        BY <2>1, SliceType
      <3>2. /\ << >> \o more = more /\ UniqueIds(<< >> \o more)
            /\ RecordedIn(<< >> \o more) = M /\ FailedIn(<< >> \o more) = {}
        BY <2>1, AdoptFacts
      <3> HIDE DEF more
      <3> QED BY <3>1, <3>2
    <2>3. StrictRows(more)
      <3>1. DOMAIN more = DOMAIN s /\ \A k \in DOMAIN s : s[k] \in DOMAIN src
        BY <2>1 DEF Slices
      <3>2. \A k \in DOMAIN s : /\ more[k].id = s[k]
                                /\ s[k] \in Strict => more[k].down = "tx" /\ more[k].err = FALSE
        BY <1>1, <3>1, StrictRowOf
      <3> HIDE DEF more
      <3> QED BY <3>1, <3>2 DEF StrictRows, ToSet
    <2>4. ledger' = ledger \o more
      BY <1>4
    <2> HIDE DEF more
    <2>5. /\ UniqueIds(ledger') /\ ToSet(ledger') = ToSet(ledger) \cup ToSet(more)
          /\ RecordedIn(ledger') = RecordedIn(ledger) \cup M
      <3>1. RecordedIn(ledger) \cap RecordedIn(more) = {}
        BY <1>4, <2>2 DEF Recorded
      <3> QED BY <1>1, <2>2, <2>4, <3>1, ConcatFacts
    <2>6. StrictRows(ledger')
      BY <1>1, <2>3, <2>5 DEF StrictRows
    <2>7. \A m \in M : m \in excused' \/ Truthful(m, ledger', schema')
      BY <1>2, <1>4, <2>5 DEF Truthful
    <2>8. \A row \in ToSet(more) : row.id \in M
      BY <2>2 DEF RecordedIn
    <2>9. \A k \in Strict \ (M \cup excused' \cup adopted) : Truthful(k, ledger', schema')
      <3> HIDE DEF M
      <3>1. /\ \A row : row.id \in Strict \ M =>
                          (row \in ToSet(ledger') <=> row \in ToSet(ledger))
            /\ \A k \in Strict \ M : schema'[k] = schema[k] /\ (k \in excused => k \in excused')
        BY <1>2, <1>4, <2>5, <2>8
      <3> QED BY <3>1, Elsewhere
    <2>10. \A k \in Strict \ (excused' \cup adopted) : Truthful(k, ledger', schema')
      BY <2>7, <2>9
    <2> QED BY <1>2, <2>5, <2>6, <2>10 DEF KeepsStrict, OnlyAdopts
  <1> QED BY <1>3, <1>4 DEF RecordApplied

\* Every step outside the transactions.
LEMMA OtherKeepsStrict ==
  ASSUME RunsInv, NEW r \in Runners, OtherStep(r)
  PROVE  KeepsStrict /\ OnlyAdopts(r)
  <1>1. CASE \/ DownStatement(r) \/ UpStatement(r) \/ MarkFailed(r) \/ DeleteRow(r) \/ RecordUp(r)
    BY <1>1, ScriptKeepsStrict
  <1>2. CASE Forget(r) \/ RecordApplied(r)
    BY <1>2, ForgetKeepsStrict, RecordAppliedKeepsStrict
  <1>3. CASE \/ EnsureMigrationsTable(r) \/ RefuseIfFailed(r)
             \/ PlanUp(r) \/ PlanReconcile(r) \/ PlanDown(r) \/ EnsureReversible(r)
             \/ PlanDone(r) \/ Baseline(r) \/ CallFails(r) \/ ReleaseLock(r)
             \/ \E m \in Ids : SelectDown(r, m) \/ StartUpScript(r, m)
    <2>1. UNCHANGED <<ledger, schema, excused>>
      BY <1>3 DEF EnsureMigrationsTable, RefuseIfFailed, PlanUp, PlanReconcile, PlanDown,
         EnsureReversible, PlanDone, Baseline, CallFails, ReleaseLock, SelectDown, StartUpScript,
         database
    <2> QED BY <2>1, QuietKeepsStrict
  <1> QED BY <1>1, <1>2, <1>3 DEF OtherStep
-----------------------------------------------------------------------------
\* What a step of r leaves of the other calls, and what it makes of its own.
Moves(r) ==
  /\ \A q \in Runners \ {r} : /\ pc'[q] = pc[q] /\ cur'[q] = cur[q]
                              /\ call'[q] = call[q] /\ toApply'[q] = toApply[q]
  /\ pc'[r] \in ScriptWindow => cur'[r] \notin Strict
  /\ StrictCall(call'[r])

\* The stored script of a strict migration runs in a transaction.
LEMMA StoredIsTx ==
  ASSUME RunsInv, NEW m \in Recorded \cap Strict PROVE StoredDown(m) = "tx"
  <1>1. PICK k \in DOMAIN ledger : ledger[k].id = m
    BY DEF Recorded, RecordedIn, ToSet
  <1> DEFINE p == CHOOSE i \in DOMAIN ledger : ledger[i].id = m
  <1>2. p \in DOMAIN ledger /\ ledger[p].id = m
    BY <1>1
  <1> HIDE DEF p
  <1>3. ledger[p] \in ToSet(ledger)
    BY <1>2 DEF ToSet
  <1>4. ledger[p].down = "tx"
    BY <1>2, <1>3 DEF RunsInv, StrictRows
  <1> QED BY <1>4 DEF StoredDown, p

\* Where a call goes outside the transactions.
LEMMA OtherMoves ==
  ASSUME RunsInv, NEW r \in Runners, OtherStep(r)
  PROVE  Moves(r)
  <1>1. /\ pc \in [Runners -> PCs] /\ call \in [Runners -> CallType]
        /\ cur \in [Runners -> Ids] /\ toApply \in [Runners -> SUBSET Ids]
        /\ StrictCall(call[r]) /\ (pc[r] \in ScriptWindow => cur[r] \notin Strict)
    BY DEF RunsInv, TypeInv, TypeOK
  <1>2. CASE EnsureMigrationsTable(r) \/ RefuseIfFailed(r) \/ EnsureReversible(r)
             \/ PlanDone(r) \/ Forget(r) \/ CallFails(r)
    <2>1. UNCHANGED <<call, cur, toApply>>
      BY <1>2 DEF EnsureMigrationsTable, RefuseIfFailed, EnsureReversible, PlanDone, Forget,
         CallFails, plan
    <2>2. \E x \in {"baseline", "refuse", "return", "plan", "execute"} : pc' = [pc EXCEPT ![r] = x]
      BY <1>2 DEF EnsureMigrationsTable, RefuseIfFailed, EnsureReversible, PlanDone, Forget,
         CallFails, Goto, Return
    <2> QED BY <1>1, <2>1, <2>2 DEF Moves, ScriptWindow
  <1>3. CASE PlanUp(r) \/ PlanReconcile(r) \/ PlanDown(r) \/ Baseline(r) \/ RecordApplied(r)
    <2>1. UNCHANGED <<call, cur>> /\ (toApply' = toApply \/ \E S : toApply' = [toApply EXCEPT ![r] = S])
      BY <1>3 DEF PlanUp, PlanReconcile, PlanDown, Baseline, RecordApplied, StartPlan, plan
    <2>2. \E x \in {"return", "reversible", "recordAll"} : pc' = [pc EXCEPT ![r] = x]
      BY <1>3 DEF PlanUp, PlanReconcile, PlanDown, Baseline, RecordApplied, StartPlan, Goto, Return
    <2> QED BY <1>1, <2>1, <2>2 DEF Moves, ScriptWindow
  <1>4. ASSUME NEW m \in Ids, SelectDown(r, m) PROVE Moves(r)
    <2>1. UNCHANGED <<call, toApply>> /\ cur' = [cur EXCEPT ![r] = m]
      BY <1>4 DEF SelectDown, plan
    <2>2. \/ \E x \in {"return", "downTx"} : pc' = [pc EXCEPT ![r] = x]
          \/ pc' = [pc EXCEPT ![r] = "downStmts"] /\ m \in Recorded /\ StoredDown(m) = "notx"
      BY <1>4 DEF SelectDown, Goto, Return
    <2>3. m \in Recorded /\ StoredDown(m) = "notx" => m \notin Strict
      BY StoredIsTx
    <2> QED BY <1>1, <2>1, <2>2, <2>3 DEF Moves, ScriptWindow
  <1>5. ASSUME NEW m \in Ids, StartUpScript(r, m) PROVE Moves(r)
    <2>1. /\ UNCHANGED <<call, toApply>> /\ cur' = [cur EXCEPT ![r] = m]
          /\ pc' = [pc EXCEPT ![r] = "upStmts"]
      BY <1>5 DEF StartUpScript, plan, Goto
    <2>2. m \in DOMAIN call[r].src /\ call[r].src[m].up = "notx"
      BY <1>5, TypeFacts DEF StartUpScript, NextToApply, RunsInv
    <2>3. m \notin Strict
      BY <1>1, <2>2 DEF StrictCall
    <2> QED BY <1>1, <2>1, <2>3 DEF Moves
  <1>6. CASE DownStatement(r) \/ UpStatement(r) \/ MarkFailed(r) \/ DeleteRow(r) \/ RecordUp(r)
    <2>1. /\ UNCHANGED <<call, cur>>
          /\ toApply' = toApply \/ \E S : toApply' = [toApply EXCEPT ![r] = S]
      BY <1>6 DEF DownStatement, UpStatement, MarkFailed, DeleteRow, RecordUp, Bookkeeping,
         RolledBackOne, AppliedOne, plan
    <2>2. UNCHANGED pc \/ \E x : pc' = [pc EXCEPT ![r] = x]
      BY <1>6 DEF DownStatement, UpStatement, MarkFailed, DeleteRow, RecordUp, RolledBackOne,
         AppliedOne, Goto, Return
    <2>3. cur[r] \notin Strict
      BY <1>1, <1>6 DEF DownStatement, UpStatement, MarkFailed, DeleteRow, RecordUp, ScriptWindow
    <2> QED BY <1>1, <2>1, <2>2, <2>3 DEF Moves
  <1>7. CASE ReleaseLock(r)
    <2>1. /\ pc' = [pc EXCEPT ![r] = "idle"] /\ call' = [call EXCEPT ![r] = NoCall]
          /\ \E S : toApply' = [toApply EXCEPT ![r] = S]
          /\ \E m : cur' = [cur EXCEPT ![r] = m]
      BY <1>7 DEF ReleaseLock, Reset
    <2>2. StrictCall(NoCall)
      BY DEF StrictCall, NoCall
    <2> QED BY <1>1, <2>1, <2>2 DEF Moves, ScriptWindow
  <1> QED BY <1>2, <1>3, <1>4, <1>5, <1>6, <1>7 DEF OtherStep

\* Beginning and dying.
LEMMA TurnMoves ==
  ASSUME RunsInv, NEW r \in Runners, Crash(r) \/ \E c \in Calls : Begin(r, c) \/ PlanOnly(r, c)
  PROVE  Moves(r)
  <1>1. /\ pc \in [Runners -> PCs] /\ call \in [Runners -> CallType]
        /\ cur \in [Runners -> Ids] /\ toApply \in [Runners -> SUBSET Ids]
    BY DEF RunsInv, TypeInv, TypeOK
  <1>2. \E x \in {"forget", "ensure", "return", "idle"} : pc' = [pc EXCEPT ![r] = x]
    BY DEF Begin, PlanOnly, Crash, Reset, Goto, Return
  <1>3. \E c \in Calls \cup {NoCall} : call' = [call EXCEPT ![r] = c]
    BY DEF Begin, PlanOnly, Crash, Reset
  <1>4. /\ toApply' = toApply \/ \E S : toApply' = [toApply EXCEPT ![r] = S]
        /\ cur' = cur \/ \E m : cur' = [cur EXCEPT ![r] = m]
    BY DEF Begin, PlanOnly, Crash, Reset, plan
  <1>5. \A c \in Calls \cup {NoCall} : StrictCall(c)
    BY OverlapAssumption DEF StrictCall, NoCall
  <1> QED BY <1>1, <1>2, <1>3, <1>4, <1>5 DEF Moves, ScriptWindow

\* RunsInv after such a step.
LEMMA MovesKeepRuns ==
  ASSUME RunsInv, TypeInv', NEW r \in Runners, KeepsStrict, Moves(r), adopted \subseteq adopted'
  PROVE  RunsInv'
  <1>1. TruthWithoutLock'
    BY DEF KeepsStrict, OnlyAdopts, TruthWithoutLock
  <1>2. \A q \in Runners : StrictCall(call'[q]) /\ (pc'[q] \in ScriptWindow => cur'[q] \notin Strict)
    BY DEF Moves, RunsInv
  <1> QED BY <1>1, <1>2 DEF KeepsStrict, OnlyAdopts, RunsInv, StrictCall, ScriptWindow
-----------------------------------------------------------------------------
\* A runner that has no transaction.
LEMMA NoTxFits ==
  ASSUME NEW r, tx[r].script = "none", tx[r].row = "none"
  PROVE  TxFits(r)
  BY DEF TxFits

\* A runner without a transaction.
LEMMA NoTxType == NoTx \in TxType /\ NoTx.script = "none" /\ NoTx.row = "none"
  <1>1. NoCall.id \in Ids
    BY NoCallType, CallFields
  <1> QED BY <1>1 DEF NoTx, TxType

\* Another runner's transaction, beside a step that writes none of its rows.
LEMMA BesideFits ==
  ASSUME OverlapInv, NEW q \in Runners, tx'[q] = tx[q],
         pc'[q] = pc[q], cur'[q] = cur[q], toApply'[q] = toApply[q], adopted \subseteq adopted',
         tx[q].row = "inserted" => tx[q].id \notin Recorded',
         tx[q].row = "missing" /\ tx[q].id \in Strict \ adopted' => tx[q].id \notin Recorded' \ Recorded
  PROVE  TxFits(q)'
  BY DEF OverlapInv, TxFits

\* An open INSERT or DELETE keeps others away from the row's ID.
LEMMA RowLocked ==
  ASSUME OverlapInv, NEW q \in Runners, tx[q].row = "inserted", TxLocksRespected
  PROVE  tx[q].id \notin Recorded'
  <1>1. tx[q].id \in Ids /\ HoldsRow(q, tx[q].id) /\ tx[q].id \notin Recorded
    BY DEF OverlapInv, TxType, HoldsRow, TxFits
  <1>2. {row \in ToSet(ledger') : row.id = tx[q].id} = {row \in ToSet(ledger) : row.id = tx[q].id}
    BY <1>1 DEF TxLocksRespected
  <1> QED BY <1>1, <1>2 DEF Recorded, RecordedIn

\* A call's other steps.
LEMMA CallGoesOnKeeps ==
  ASSUME OverlapInv, NEW r \in Runners, CallGoesOn(r)
  PROVE  OverlapInv'
  <1>1. OtherStep(r) /\ TxLocksRespected /\ UNCHANGED tx /\ tx[r].script = "none"
        /\ adopted' = adopted \cup Adoptions(r)
    BY DEF CallGoesOn
  <1>2. TypeInv'
    <2>1. Next
      BY <1>1 DEF Next, Step
    <2> QED BY <2>1, TypeStep DEF OverlapInv, RunsInv
  <1>3. RunsInv' /\ KeepsStrict /\ OnlyAdopts(r) /\ Moves(r)
    BY <1>1, <1>2, OtherKeepsStrict, OtherMoves, MovesKeepRuns DEF OverlapInv
  <1>4. Exclusive' /\ tx' \in [Runners -> TxType]
    BY <1>1 DEF OverlapInv, Exclusive, HoldsObject, HoldsRow
  <1>5. ASSUME NEW q \in Runners \ {r} PROVE TxFits(q)'
    <2>1. tx[q].row = "inserted" => tx[q].id \notin Recorded'
      BY <1>1, RowLocked
    <2>2. tx[q].row = "missing" /\ tx[q].id \in Strict \ adopted' => tx[q].id \notin Recorded' \ Recorded
      BY <1>1, <1>3 DEF KeepsStrict, OnlyAdopts, Adoptions
    <2>3. adopted \subseteq adopted' /\ tx'[q] = tx[q]
      BY <1>1
    <2> QED BY <1>3, <2>1, <2>2, <2>3, BesideFits DEF Moves
  <1>6. TxFits(r)'
    BY <1>1 DEF OverlapInv, TxFits
  <1> QED BY <1>3, <1>4, <1>5, <1>6 DEF OverlapInv

\* A step of r that leaves everything but r's transaction alone.
LEMMA TxMove ==
  ASSUME OverlapInv, NEW r \in Runners, UNCHANGED <<vars, adopted>>,
         NEW t \in TxType, tx' = [tx EXCEPT ![r] = t], TxFits(r)', Exclusive'
  PROVE  OverlapInv'
  <1>1. /\ UNCHANGED <<ledger, schema, excused, adopted, pc, call, cur, toApply>>
        /\ UNCHANGED vars /\ tx \in [Runners -> TxType]
    BY DEF vars, database, plan, OverlapInv
  <1>2. TypeInv'
    BY <1>1, TypeStep DEF OverlapInv, RunsInv
  <1>3. RunsInv'
    BY <1>1, <1>2 DEF OverlapInv, RunsInv, UniqueIds, StrictRows, StrictCall, ScriptWindow,
       TruthWithoutLock
  <1>4. ASSUME NEW q \in Runners \ {r} PROVE TxFits(q)'
    <2>1. tx'[q] = tx[q] /\ Recorded' = Recorded /\ adopted' = adopted
      BY <1>1 DEF Recorded
    <2>2. tx[q].row = "inserted" => tx[q].id \notin Recorded
      BY DEF OverlapInv, TxFits
    <2> QED BY <1>1, <2>1, <2>2, BesideFits
  <1> QED BY <1>1, <1>3, <1>4 DEF OverlapInv

\* The script: of a strict migration it has something to do, or it fails.
LEMMA ScriptTxKeeps ==
  ASSUME OverlapInv, NEW r \in Runners, NEW m \in Ids, NEW to, RunScript(r, m, to),
         \/ pc[r] = "execute" /\ m \in toApply[r]
         \/ pc[r] = "downTx" /\ m = cur[r]
  PROVE  OverlapInv'
  <1>1. /\ UNCHANGED <<vars, adopted>>
        /\ \E how \in {"noop", "changed"} :
             /\ tx' = [tx EXCEPT ![r] = [id |-> m, script |-> how, row |-> "none"]]
             /\ m \in Strict => how = "changed"
             /\ how = "changed" => \A q \in Runners : ~HoldsObject(q, m)
    BY DEF RunScript
  <1>2. PICK how \in {"noop", "changed"} :
             /\ tx' = [tx EXCEPT ![r] = [id |-> m, script |-> how, row |-> "none"]]
             /\ m \in Strict => how = "changed"
             /\ how = "changed" => \A q \in Runners : ~HoldsObject(q, m)
    BY <1>1
  <1> DEFINE t == [id |-> m, script |-> how, row |-> "none"]
  <1>3. t \in TxType /\ tx \in [Runners -> TxType]
    BY DEF TxType, OverlapInv
  <1>4. Exclusive'
    BY <1>2, <1>3 DEF OverlapInv, Exclusive, HoldsObject, HoldsRow
  <1>5. TxFits(r)'
    BY <1>1, <1>2, <1>3 DEF TxFits, vars, plan
  <1> HIDE DEF t
  <1> QED BY <1>1, <1>2, <1>3, <1>4, <1>5, TxMove DEF t

\* The INSERT or DELETE.
LEMMA WriteRowKeeps ==
  ASSUME OverlapInv, NEW r \in Runners, WriteRow(r)
  PROVE  OverlapInv'
  <1> DEFINE m == tx[r].id
  <1>1. /\ UNCHANGED <<vars, adopted>> /\ tx \in [Runners -> TxType] /\ tx[r] \in TxType
        /\ tx[r].script # "none" /\ \A q \in Runners : ~HoldsRow(q, m)
    BY DEF WriteRow, OverlapInv
  <1>2. \E how \in {"inserted", "deleted", "missing"} :
          /\ tx' = [tx EXCEPT ![r].row = how]
          /\ how = "inserted" => pc[r] = "execute" /\ m \notin Recorded
          /\ how \in {"deleted", "missing"} => pc[r] = "downTx"
          /\ how = "missing" => m \notin Recorded
    BY DEF WriteRow
  <1>3. PICK how \in {"inserted", "deleted", "missing"} :
          /\ tx' = [tx EXCEPT ![r].row = how]
          /\ how = "inserted" => pc[r] = "execute" /\ m \notin Recorded
          /\ how \in {"deleted", "missing"} => pc[r] = "downTx"
          /\ how = "missing" => m \notin Recorded
    BY <1>2
  <1> DEFINE t == [tx[r] EXCEPT !.row = how]
  <1>4. t \in TxType /\ t.id = m /\ t.script = tx[r].script /\ t.row = how
    BY <1>1 DEF TxType
  <1>5. tx' = [tx EXCEPT ![r] = t] /\ tx'[r] = t
    BY <1>1, <1>3
  <1> HIDE DEF t
  <1>6. Exclusive'
    BY <1>1, <1>4, <1>5 DEF OverlapInv, Exclusive, HoldsObject, HoldsRow
  <1>7. UNCHANGED <<pc, cur, toApply, ledger>>
    BY <1>1 DEF vars, plan, database
  <1>8. TxFits(r)
    BY DEF OverlapInv
  <1>9. TxFits(r)'
    BY <1>1, <1>3, <1>4, <1>5, <1>7, <1>8 DEF TxFits, Recorded
  <1> QED BY <1>1, <1>4, <1>5, <1>6, <1>9, TxMove

\* The transaction takes nothing with it.
LEMMA RollbackTxKeeps ==
  ASSUME OverlapInv, NEW r \in Runners, RollbackTx(r)
  PROVE  OverlapInv'
  <1>1. /\ UNCHANGED <<lock, table, ledger, schema, excused, call, plan, cur, result, adopted>>
        /\ Return(r, "failed") /\ tx' = [tx EXCEPT ![r] = NoTx]
        /\ tx \in [Runners -> TxType] /\ TypeInv
    BY DEF RollbackTx, OverlapInv, RunsInv, database
  <1>2. TypeInv'
    <2>1. RunType' /\ SourceInv'
      BY <1>1, TypeParts, ReturnKeepsType DEF TypeInv
    <2> QED BY <1>1, <2>1, TypeParts DEF TypeInv, DatabaseType
  <1>3. KeepsStrict /\ OnlyAdopts(r)
    BY <1>1, QuietKeepsStrict DEF OverlapInv
  <1>4. Moves(r)
    <2>1. /\ pc \in [Runners -> PCs] /\ pc' = [pc EXCEPT ![r] = "return"]
          /\ UNCHANGED <<call, cur, toApply>> /\ StrictCall(call[r])
      BY <1>1 DEF Return, plan, OverlapInv, RunsInv, TypeInv, TypeOK
    <2> QED BY <2>1 DEF Moves, ScriptWindow
  <1>5. RunsInv'
    BY <1>1, <1>2, <1>3, <1>4, MovesKeepRuns DEF OverlapInv
  <1>6. tx'[r] = NoTx /\ tx' \in [Runners -> TxType] /\ TxFits(r)'
    BY <1>1, NoTxType DEF TxFits
  <1>7. Exclusive'
    BY <1>1, NoTxType DEF OverlapInv, Exclusive, HoldsObject, HoldsRow
  <1>8. ASSUME NEW q \in Runners \ {r} PROVE TxFits(q)'
    <2>1. tx'[q] = tx[q] /\ Recorded' = Recorded
      BY <1>1 DEF Recorded
    <2>2. tx[q].row = "inserted" => tx[q].id \notin Recorded
      BY DEF OverlapInv, TxFits
    <2> QED BY <1>1, <1>4, <2>1, <2>2, BesideFits DEF Moves
  <1> QED BY <1>5, <1>6, <1>7, <1>8 DEF OverlapInv

\* What a COMMIT makes visible.
LEMMA CommitWrites ==
  ASSUME OverlapInv, NEW r \in Runners, CommitTx(r)
  PROVE  /\ ledger' \in Seq(Row) /\ UniqueIds(ledger') /\ StrictRows(ledger')
         /\ schema' \in [Ids -> {"none", "partial", "applied"}] /\ excused' \subseteq Ids
         /\ \A k \in Strict \ (excused' \cup adopted) : Truthful(k, ledger', schema')
         /\ \A k \in Ids : k \in Recorded' \ Recorded => k = tx[r].id /\ tx[r].row = "inserted"
  <1> DEFINE m == tx[r].id
             row == RowOf(call[r].src, m, FALSE)
             M == {m}
  <1>1. /\ ledger \in Seq(Row) /\ UniqueIds(ledger) /\ StrictRows(ledger) /\ StrictCall(call[r])
        /\ schema \in [Ids -> {"none", "partial", "applied"}] /\ excused \subseteq Ids
        /\ tx[r] \in TxType /\ m \in Ids /\ TxFits(r)
    BY DEF OverlapInv, RunsInv, TypeInv, TypeOK, TxType
  <1>2. /\ excused' = excused \ {m} /\ schema' = SchemaAfter(r)
        /\ tx[r].row \in {"inserted", "deleted", "missing"} /\ tx[r].script # "none"
    BY <1>1 DEF CommitTx, TxFits, TxType
  <1>3. /\ schema' \in [Ids -> {"none", "partial", "applied"}]
        /\ \A k \in Ids \ {m} : schema'[k] = schema[k]
        /\ m \in Strict => schema'[m] = IF pc[r] = "execute" THEN "applied" ELSE "none"
    BY <1>1, <1>2 DEF SchemaAfter, TxFits
  <1>4. CASE tx[r].row = "inserted"
    <2>1. ledger' = Insert(ledger, row) /\ pc[r] = "execute" /\ m \notin Recorded
      BY <1>1, <1>4 DEF CommitTx, TxFits
    <2>2. m \in DOMAIN call[r].src /\ call[r].src \in Sources
      BY <1>1, <1>2, <2>1, TypeFacts DEF TxFits, OverlapInv, RunsInv
    <2>3. /\ row \in Row /\ row.id = m /\ row.err = FALSE
          /\ m \in Strict => row.down = "tx"
      BY <1>1, <2>2, RowOfType, StrictRowOf DEF RowOf
    <2> HIDE DEF row
    <2>4. /\ UniqueIds(ledger') /\ ToSet(ledger') = ToSet(ledger) \cup {row} /\ ledger' \in Seq(Row)
          /\ RecordedIn(ledger') = RecordedIn(ledger) \cup {m}
      BY <1>1, <2>1, <2>3, InsertFacts, InsertRow DEF Recorded
    <2>5. StrictRows(ledger')
      BY <1>1, <2>3, <2>4 DEF StrictRows
    <2>6. m \in Strict => Truthful(m, ledger', schema')
      BY <1>3, <2>1, <2>4 DEF Truthful
    <2>7. \A k \in Strict \ (M \cup excused' \cup adopted) : Truthful(k, ledger', schema')
      <3>1. /\ \A x : x.id \in Strict \ M => (x \in ToSet(ledger') <=> x \in ToSet(ledger))
            /\ \A k \in Strict \ M : schema'[k] = schema[k] /\ (k \in excused => k \in excused')
        BY <1>2, <1>3, <2>3, <2>4, StrictTypes
      <3> HIDE DEF M
      <3> QED BY <3>1, Elsewhere DEF OverlapInv
    <2> QED BY <1>1, <1>2, <1>3, <1>4, <2>4, <2>5, <2>6, <2>7 DEF Recorded
  <1>5. CASE tx[r].row # "inserted"
    <2> DEFINE d == {x \in ToSet(ledger) : x.id # m}
    <2>1. /\ pc[r] = "downTx" /\ ledger' \in {ledger, Delete(ledger, m)}
          /\ ledger' = ledger => tx[r].row = "missing" \/ m \notin Recorded
      <3>1. CASE tx[r].row = "deleted"
        <4>1. m \notin RecordedIn(Delete(ledger, m))
          BY <1>1, DeleteFacts
        <4> QED BY <1>1, <3>1, <4>1 DEF CommitTx, TxFits, Recorded
      <3>2. CASE tx[r].row = "missing"
        BY <1>1, <3>2 DEF CommitTx, TxFits
      <3> QED BY <1>2, <1>5, <3>1, <3>2
    <2>2. /\ ledger' \in Seq(Row) /\ UniqueIds(ledger') /\ ToSet(ledger') \subseteq ToSet(ledger)
          /\ d \subseteq ToSet(ledger') /\ RecordedIn(ledger') \subseteq RecordedIn(ledger)
          /\ ledger' = ledger \/ m \notin RecordedIn(ledger')
      BY <1>1, <2>1, DeleteSets, DeleteFacts, DeleteType
    <2>3. StrictRows(ledger')
      BY <1>1, <2>2 DEF StrictRows
    <2>4. m \in Strict \ adopted => Truthful(m, ledger', schema')
      <3>1. m \in Strict \ adopted => m \notin RecordedIn(ledger')
        BY <1>1, <2>1, <2>2 DEF TxFits, Recorded
      <3> QED BY <1>3, <2>1, <3>1 DEF Truthful
    <2>5. \A k \in Strict \ (M \cup excused' \cup adopted) : Truthful(k, ledger', schema')
      <3>1. /\ \A x : x.id \in Strict \ M => (x \in ToSet(ledger') <=> x \in ToSet(ledger))
            /\ \A k \in Strict \ M : schema'[k] = schema[k] /\ (k \in excused => k \in excused')
        BY <1>2, <1>3, <2>2, StrictTypes
      <3> HIDE DEF M
      <3> QED BY <3>1, Elsewhere DEF OverlapInv
    <2> QED BY <1>1, <1>2, <1>3, <2>2, <2>3, <2>4, <2>5 DEF Recorded
  <1> QED BY <1>4, <1>5

\* The COMMIT of one transaction beside the others.
LEMMA CommitTxKeeps ==
  ASSUME OverlapInv, NEW r \in Runners, CommitTx(r)
  PROVE  OverlapInv'
  <1> DEFINE m == tx[r].id
  <1>1. /\ UNCHANGED <<lock, table, call, adopted>>
        /\ cur' = [cur EXCEPT ![r] = m] /\ tx' = [tx EXCEPT ![r] = NoTx]
        /\ \/ pc[r] = "execute" /\ AppliedOne(r, m)
           \/ pc[r] = "downTx" /\ RolledBackOne(r)
           \/ Return(r, "failed") /\ UNCHANGED <<plan, result>>
    BY DEF CommitTx
  <1>2. /\ TypeInv /\ RunType /\ DatabaseType /\ SourceInv
        /\ tx \in [Runners -> TxType] /\ tx[r] \in TxType /\ m \in Ids /\ TxFits(r)
        /\ tx[r].script # "none"
    BY TypeParts DEF OverlapInv, RunsInv, TypeInv, TxType, TxFits, CommitTx
  <1>3. TypeInv'
    <2>1. pc[r] = "downTx" => UNCHANGED cur
      BY <1>1, <1>2 DEF TxFits, RunType
    <2>2. RunType' /\ SourceInv'
      <3>1. CASE pc[r] = "execute" /\ AppliedOne(r, m)
        BY <1>1, <1>2, <3>1, AppliedOneKeepsType
      <3>2. CASE pc[r] = "downTx" /\ RolledBackOne(r)
        BY <1>1, <1>2, <2>1, <3>2, RolledBackOneKeepsType
      <3>3. CASE Return(r, "failed") /\ UNCHANGED <<plan, result>>
        <4>1. RunType'
          BY <1>1, <1>2, <3>3 DEF RunType, Return, plan, result, PCs
        <4>2. SourceInv'
          BY <1>1, <1>2, <3>3 DEF RunType, SourceInv, Return, plan
        <4> QED BY <4>1, <4>2
      <3> QED BY <1>1, <3>1, <3>2, <3>3
    <2>3. DatabaseType'
      BY <1>1, <1>2, CommitWrites DEF DatabaseType
    <2> QED BY <2>2, <2>3, TypeParts DEF TypeInv
  <1>4. KeepsStrict
    BY CommitWrites DEF KeepsStrict, OnlyAdopts
  <1>5. Moves(r)
    <2>1. /\ pc \in [Runners -> PCs] /\ cur \in [Runners -> Ids] /\ toApply \in [Runners -> SUBSET Ids]
          /\ StrictCall(call[r])
      BY <1>2 DEF RunType, OverlapInv, RunsInv
    <2>2. \E x \in {"execute", "return"} : pc' = [pc EXCEPT ![r] = x]
      BY <1>1 DEF AppliedOne, RolledBackOne, Goto, Return
    <2>3. toApply' = toApply \/ \E S : toApply' = [toApply EXCEPT ![r] = S]
      BY <1>1 DEF AppliedOne, RolledBackOne, plan
    <2> QED BY <1>1, <2>1, <2>2, <2>3 DEF Moves, ScriptWindow
  <1>6. RunsInv'
    BY <1>1, <1>3, <1>4, <1>5, MovesKeepRuns DEF OverlapInv
  <1>7. tx'[r] = NoTx /\ tx' \in [Runners -> TxType] /\ TxFits(r)'
    BY <1>1, <1>2, NoTxType DEF TxFits
  <1>8. Exclusive'
    BY <1>1, <1>2, NoTxType DEF OverlapInv, Exclusive, HoldsObject, HoldsRow
  <1>9. ASSUME NEW q \in Runners \ {r} PROVE TxFits(q)'
    <2>1. tx'[q] = tx[q] /\ tx[q] \in TxType /\ tx[q].id \in Ids /\ TxFits(q)
      BY <1>1, <1>2 DEF OverlapInv, TxType
    <2>2. tx[q].row = "inserted" => tx[q].id \notin Recorded'
      <3>1. tx[q].row = "inserted" => tx[q].id \notin Recorded
        BY <2>1 DEF TxFits
      <3>2. ~(HoldsRow(q, m) /\ HoldsRow(r, m))
        BY <1>2 DEF OverlapInv, Exclusive
      <3>3. tx[q].row = "inserted" /\ tx[r].row = "inserted" => tx[q].id # m
        BY <3>2 DEF HoldsRow
      <3> QED BY <2>1, <3>1, <3>3, CommitWrites
    <2>3. tx[q].row = "missing" /\ tx[q].id \in Strict => tx[q].id \notin Recorded' \ Recorded
      <3>1. ~(HoldsObject(q, m) /\ HoldsObject(r, m))
        BY <1>2 DEF OverlapInv, Exclusive
      <3>2. tx[q].row = "missing" => tx[q].script # "none"
        BY <2>1 DEF TxFits
      <3>3. tx[q].row = "missing" /\ tx[q].id \in Strict => tx[q].id # m
        BY <1>2, <2>1, <3>1, <3>2 DEF TxFits, HoldsObject
      <3> QED BY <2>1, <3>3, CommitWrites
    <2> QED BY <1>1, <1>5, <2>1, <2>2, <2>3, BesideFits DEF Moves
  <1> QED BY <1>6, <1>7, <1>8, <1>9 DEF OverlapInv

\* A call begins, or its process dies and takes the transaction along.
LEMMA TurnKeeps ==
  ASSUME OverlapInv, NEW r \in Runners, CallBegins(r) \/ ProcessDies(r)
  PROVE  OverlapInv'
  <1>1. /\ Crash(r) \/ \E c \in Calls : Begin(r, c) \/ PlanOnly(r, c)
        /\ UNCHANGED adopted /\ tx \in [Runners -> TxType]
    BY DEF CallBegins, ProcessDies, OverlapInv
  <1>2. /\ UNCHANGED <<ledger, schema>> /\ excused \subseteq excused'
    BY <1>1 DEF Crash, Begin, PlanOnly, database
  <1>3. TypeInv'
    <2>1. Next
      BY <1>1 DEF Next
    <2> QED BY <2>1, TypeStep DEF OverlapInv, RunsInv
  <1>4. Moves(r)
    BY <1>1, TurnMoves DEF OverlapInv
  <1>5. KeepsStrict /\ OnlyAdopts(r)
    BY <1>2, OffStrict DEF OverlapInv, RunsInv
  <1>6. RunsInv'
    BY <1>1, <1>3, <1>4, <1>5, MovesKeepRuns DEF OverlapInv
  <1>7. /\ tx'[r].script = "none" /\ tx'[r].row = "none" /\ tx' \in [Runners -> TxType]
        /\ \A q \in Runners \ {r} : tx'[q] = tx[q]
    <2>1. CASE ProcessDies(r)
      BY <1>1, <2>1, NoTxType DEF ProcessDies
    <2>2. CASE CallBegins(r)
      <3>1. pc[r] = "idle" /\ tx' = tx
        BY <2>2 DEF CallBegins, Begin, PlanOnly
      <3> QED BY <1>1, <3>1 DEF OverlapInv, TxFits
    <2> QED BY <2>1, <2>2
  <1>8. TxFits(r)'
    BY <1>7 DEF TxFits
  <1>9. Exclusive'
    BY <1>7 DEF OverlapInv, Exclusive, HoldsObject, HoldsRow
  <1>10. ASSUME NEW q \in Runners \ {r} PROVE TxFits(q)'
    <2>1. tx'[q] = tx[q] /\ Recorded' = Recorded
      BY <1>2, <1>7 DEF Recorded
    <2>2. tx[q].row = "inserted" => tx[q].id \notin Recorded
      BY DEF OverlapInv, TxFits
    <2> QED BY <1>1, <1>4, <2>1, <2>2, BesideFits DEF Moves
  <1> QED BY <1>6, <1>7, <1>8, <1>9, <1>10 DEF OverlapInv

\* The lock's session ends; the operator repairs what the code has left to them.
LEMMA OutsideKeeps ==
  ASSUME OverlapInv, LoseLock \/ OperatorRepairs
  PROVE  OverlapInv'
  <1>1. UNCHANGED <<table, ledger, excused, pc, call, plan, cur, result, outcome, tx, adopted>>
    BY DEF LoseLock, OperatorRepairs, Repair, database
  <1>2. \A k \in Strict \ excused : schema'[k] = schema[k]
    <2>1. Strict \cap FailedIn(ledger) = {} /\ schema \in [Ids -> {"none", "partial", "applied"}]
      BY StrictFacts DEF OverlapInv, RunsInv, TypeInv, TypeOK
    <2> QED BY <2>1, StrictTypes DEF LoseLock, OperatorRepairs, Repair, database
  <1>3. TypeInv'
    <2>1. CASE LoseLock
      <3>1. UNCHANGED schema /\ lock' = None
        BY <2>1 DEF LoseLock, database
      <3> QED BY <1>1, <3>1 DEF OverlapInv, RunsInv, TypeInv, TypeOK, SourceInv, plan, result
    <2>2. CASE OperatorRepairs
      <3>1. Next
        BY <2>2 DEF OperatorRepairs, Next
      <3> QED BY <3>1, TypeStep DEF OverlapInv, RunsInv
    <2> QED BY <2>1, <2>2
  <1>4. TruthWithoutLock'
    BY <1>1, <1>2 DEF OverlapInv, RunsInv, TruthWithoutLock, Truthful
  <1>5. RunsInv'
    BY <1>1, <1>3, <1>4 DEF OverlapInv, RunsInv, UniqueIds, StrictRows, StrictCall, ScriptWindow
  <1>6. \A r \in Runners : TxFits(r)'
    BY <1>1 DEF OverlapInv, TxFits, Recorded, plan
  <1> QED BY <1>1, <1>5, <1>6 DEF OverlapInv, Exclusive, HoldsObject, HoldsRow

\* OverlapInv is inductive.
LEMMA OverlapStep == OverlapInv /\ [OverlapNext]_overlapVars => OverlapInv'
  <1> SUFFICES ASSUME OverlapInv, [OverlapNext]_overlapVars PROVE OverlapInv'
    OBVIOUS
  <1>1. ASSUME NEW r \in Runners, NEW m \in Ids, UpScriptTx(r, m) PROVE OverlapInv'
    BY <1>1, ScriptTxKeeps DEF UpScriptTx, NextToApply
  <1>2. ASSUME NEW r \in Runners, DownScriptTx(r) PROVE OverlapInv'
    <2>1. cur[r] \in Ids
      BY DEF OverlapInv, RunsInv, TypeInv, TypeOK
    <2> QED BY <1>2, <2>1, ScriptTxKeeps DEF DownScriptTx
  <1>3. ASSUME NEW r \in Runners, WriteRow(r) \/ CommitTx(r) \/ RollbackTx(r) PROVE OverlapInv'
    BY <1>3, WriteRowKeeps, CommitTxKeeps, RollbackTxKeeps
  <1>4. ASSUME NEW r \in Runners, CallGoesOn(r) \/ CallBegins(r) \/ ProcessDies(r) PROVE OverlapInv'
    BY <1>4, CallGoesOnKeeps, TurnKeeps
  <1>5. CASE LoseLock \/ OperatorRepairs
    BY <1>5, OutsideKeeps
  <1>6. CASE UNCHANGED overlapVars
    <2>1. UNCHANGED <<vars, adopted>> /\ UNCHANGED tx /\ UNCHANGED vars
      BY <1>6 DEF overlapVars
    <2>2. UNCHANGED <<ledger, schema, excused, adopted, pc, call, cur, toApply>>
      BY <2>1 DEF vars, database, plan
    <2>3. TypeInv'
      BY <2>1, TypeStep DEF OverlapInv, RunsInv
    <2> QED BY <2>1, <2>2, <2>3 DEF OverlapInv, RunsInv, UniqueIds, StrictRows, StrictCall, ScriptWindow,
         TruthWithoutLock, Exclusive, HoldsObject, HoldsRow, TxFits, Recorded
  <1> QED BY <1>1, <1>2, <1>3, <1>4, <1>5, <1>6 DEF OverlapNext

(***************************************************************************)
(* However often the lock's session is terminated and however many runs    *)
(* overlap, the ledger stays true of the strict migrations, whatever the   *)
(* scripts of the others are: ApplyMigration and RollbackMigration put the *)
(* script and the write of the row into one transaction, so that of two    *)
(* runs one waits for the other's object or row and takes its half back.   *)
(***************************************************************************)
THEOREM StrictTruthWithoutTheLock == OverlapSpec => []TruthWithoutLock
  <1>1. OverlapInit => OverlapInv
    <2> SUFFICES ASSUME OverlapInit PROVE OverlapInv
      OBVIOUS
    <2>1. Init /\ TypeInv
      BY TypeInit DEF OverlapInit
    <2>2. RecordedIn(<< >>) = {} /\ StrictRows(<< >>) /\ UniqueIds(<< >>)
      BY DEF RecordedIn, StrictRows, ToSet, UniqueIds
    <2>3. TruthWithoutLock
      BY <2>1, <2>2, StrictTypes DEF Init, TruthWithoutLock, Truthful
    <2>4. \A r \in Runners : pc[r] \notin ScriptWindow /\ StrictCall(call[r])
      BY <2>1 DEF Init, ScriptWindow, StrictCall, NoCall
    <2>5. RunsInv
      BY <2>1, <2>2, <2>3, <2>4 DEF Init, RunsInv
    <2>6. /\ \A r \in Runners : tx[r] = NoTx
          /\ tx \in [Runners -> TxType]
      BY NoTxType DEF OverlapInit
    <2> QED BY <2>5, <2>6, NoTxType DEF OverlapInv, Exclusive, HoldsObject, HoldsRow, TxFits
  <1>2. OverlapInv => TruthWithoutLock
    BY DEF OverlapInv, RunsInv
  <1> QED BY <1>1, <1>2, OverlapStep, PTL DEF OverlapSpec
-----------------------------------------------------------------------------
(***************************************************************************)
(* While the lock is kept.                                                 *)
(***************************************************************************)

\* A transaction under the lock has done what its one step in Migrator would do.
OnItsWay(r) ==
  LET m == tx[r].id IN
  \/ /\ pc[r] = "execute" /\ NextToApply(r, m) /\ call[r].src[m].up = "tx"
     /\ tx[r].row \in {"none", "inserted"} /\ (tx[r].row = "inserted" => m \notin Recorded)
     /\ tx[r].script = "noop" => schema[m] = "applied"
  \/ /\ pc[r] = "downTx" /\ m = cur[r] /\ tx[r].row \in {"none", "deleted"}
     /\ tx[r].script = "noop" => schema[m] = "none"

TxUnderLock(r) ==
  /\ tx[r].script = "none" => tx[r].row = "none"
  /\ tx[r].script # "none" => OnItsWay(r)

LockInv ==
  /\ LedgerInv /\ tx \in [Runners -> TxType]
  /\ \A r \in Runners : TxUnderLock(r)

\* A runner with an open transaction holds the lock, and the others are out.
LEMMA OpenHoldsLock ==
  ASSUME LockInv, NEW q \in Runners, tx[q].script # "none"
  PROVE  /\ lock = q
         /\ \A r \in Runners \ {q} : pc[r] \in {"idle", "return"} /\ tx[r].script = "none"
  <1>1. pc[q] \in Busy
    BY DEF LockInv, TxUnderLock, OnItsWay, Busy, PCs
  <1>2. lock = q
    BY <1>1 DEF LockInv, LedgerInv, RunnersInv, RunnerInv
  <1>3. \A r \in Runners \ {q} : pc[r] \in {"idle", "return"}
    BY <1>2 DEF LockInv, LedgerInv, RunnersInv, RunnerInv, TypeInv, TypeOK, Busy
  <1>4. \A r \in Runners \ {q} : tx[r].script = "none"
    BY <1>3 DEF LockInv, TxUnderLock, OnItsWay
  <1> QED BY <1>2, <1>3, <1>4

\* It goes on undisturbed by steps that leave the ledger, the schema and its call alone.
LEMMA UndisturbedTx ==
  ASSUME LockInv, NEW q \in Runners, tx'[q] = tx[q], UNCHANGED <<ledger, schema>>,
         pc'[q] = pc[q], cur'[q] = cur[q], call'[q] = call[q],
         toApply'[q] = toApply[q], toRollback'[q] = toRollback[q]
  PROVE  TxUnderLock(q)'
  BY DEF LockInv, TxUnderLock, OnItsWay, NextToApply, Recorded

\* What a runner without the lock may do.
LEMMA OutOfTheWay ==
  ASSUME LockInv, NEW q \in Runners, tx[q].script # "none", NEW r \in Runners \ {q},
         OtherStep(r) \/ Crash(r) \/ \E c \in Calls : Begin(r, c) \/ PlanOnly(r, c)
  PROVE  /\ UNCHANGED <<ledger, schema>>
         /\ pc'[q] = pc[q] /\ cur'[q] = cur[q] /\ call'[q] = call[q]
         /\ toApply'[q] = toApply[q] /\ toRollback'[q] = toRollback[q]
  <1>1. lock = q /\ pc[r] \in {"idle", "return"} /\ q # None
    BY OpenHoldsLock, NoneAssumption
  <1>2. /\ pc \in [Runners -> PCs] /\ call \in [Runners -> CallType] /\ cur \in [Runners -> Ids]
        /\ toApply \in [Runners -> SUBSET Ids] /\ toRollback \in [Runners -> SUBSET Ids]
    BY DEF LockInv, LedgerInv, TypeInv, TypeOK
  <1>3. ReleaseLock(r) \/ Crash(r) \/ \E c \in Calls : PlanOnly(r, c)
    <2>1. ASSUME OtherStep(r) PROVE ReleaseLock(r)
      <3>1. ~ \E m \in Ids : SelectDown(r, m) \/ StartUpScript(r, m)
        BY <1>1 DEF SelectDown, StartUpScript
      <3> QED BY <1>1, <2>1, <3>1 DEF OtherStep, EnsureMigrationsTable, RefuseIfFailed, PlanUp,
           PlanReconcile, PlanDown, EnsureReversible, DownStatement, MarkFailed, DeleteRow,
           UpStatement, RecordUp, PlanDone, Forget, Baseline, RecordApplied, CallFails
    <2>2. ~ \E c \in Calls : Begin(r, c)
      BY <1>1 DEF Begin
    <2> QED BY <2>1, <2>2
  <1>4. CASE ReleaseLock(r)
    BY <1>2, <1>4 DEF ReleaseLock, Reset, database
  <1>5. CASE Crash(r)
    BY <1>2, <1>5 DEF Crash, Reset
  <1>6. ASSUME NEW c \in Calls, PlanOnly(r, c)
        PROVE  /\ UNCHANGED <<ledger, schema>>
               /\ pc'[q] = pc[q] /\ cur'[q] = cur[q] /\ call'[q] = call[q]
               /\ toApply'[q] = toApply[q] /\ toRollback'[q] = toRollback[q]
    <2>1. /\ UNCHANGED <<ledger, schema, cur>> /\ pc' = [pc EXCEPT ![r] = "return"]
          /\ call' = [call EXCEPT ![r] = c] /\ UNCHANGED <<toApply, toRollback>>
      BY <1>6 DEF PlanOnly, Return, database, plan
    <2> QED BY <1>2, <2>1
  <1> QED BY <1>3, <1>4, <1>5, <1>6

\* Steps outside the transactions are Migrator's.
LEMMA OtherStepsAreNext ==
  ASSUME LockInv, NEW r \in Runners, CallGoesOn(r) \/ CallBegins(r) \/ ProcessDies(r)
  PROVE  Next /\ LockInv'
  <1>1. /\ OtherStep(r) \/ Crash(r) \/ \E c \in Calls : Begin(r, c) \/ PlanOnly(r, c)
        /\ tx \in [Runners -> TxType]
    BY DEF CallGoesOn, CallBegins, ProcessDies, LockInv
  <1>2. Next
    BY <1>1 DEF Next, Step
  <1>3. LedgerInv'
    BY <1>2, LedgerStep DEF LockInv
  <1>4. /\ tx'[r].script = "none" /\ tx'[r].row = "none" /\ tx' \in [Runners -> TxType]
        /\ \A q \in Runners \ {r} : tx'[q] = tx[q]
    <2>1. CASE ProcessDies(r)
      BY <1>1, <2>1, NoTxType DEF ProcessDies
    <2>2. CASE CallBegins(r)
      <3>1. pc[r] = "idle" /\ tx' = tx
        BY <2>2 DEF CallBegins, Begin, PlanOnly
      <3> QED BY <1>1, <3>1 DEF LockInv, TxUnderLock, OnItsWay
    <2>3. CASE CallGoesOn(r)
      BY <1>1, <2>3 DEF CallGoesOn, LockInv, TxUnderLock
    <2> QED BY <2>1, <2>2, <2>3
  <1>5. ASSUME NEW q \in Runners \ {r} PROVE TxUnderLock(q)'
    <2>1. CASE tx[q].script = "none"
      BY <1>4, <2>1 DEF LockInv, TxUnderLock
    <2>2. CASE tx[q].script # "none"
      BY <1>1, <1>4, <2>2, OutOfTheWay, UndisturbedTx
    <2> QED BY <2>1, <2>2
  <1>6. TxUnderLock(r)'
    BY <1>4 DEF TxUnderLock
  <1> QED BY <1>2, <1>3, <1>4, <1>5, <1>6 DEF LockInv

\* A step of r's transaction, which nobody else has open.
LEMMA HolderTx ==
  ASSUME LockInv, NEW r \in Runners, tx[r].script # "none", LedgerInv',
         NEW t \in TxType, tx' = [tx EXCEPT ![r] = t], TxUnderLock(r)'
  PROVE  LockInv'
  <1>1. tx \in [Runners -> TxType]
    BY DEF LockInv
  <1>2. \A q \in Runners \ {r} : tx[q].script = "none" /\ tx[q].row = "none" /\ tx'[q] = tx[q]
    BY <1>1, OpenHoldsLock DEF LockInv, TxUnderLock
  <1> QED BY <1>1, <1>2 DEF LockInv, TxUnderLock

\* The script changes nothing of Migrator's.
LEMMA ScriptTxStutters ==
  ASSUME LockInv, NEW r \in Runners, DownScriptTx(r) \/ \E m \in Ids : UpScriptTx(r, m)
  PROVE  UNCHANGED vars /\ LockInv'
  <1>1. PICK m \in Ids, to \in {"applied", "none"} :
          /\ RunScript(r, m, to)
          /\ \/ /\ pc[r] = "execute" /\ NextToApply(r, m) /\ call[r].src[m].up = "tx"
                /\ to = "applied"
             \/ pc[r] = "downTx" /\ m = cur[r] /\ to = "none"
    <2>1. cur[r] \in Ids
      BY DEF LockInv, LedgerInv, TypeInv, TypeOK
    <2> QED BY <2>1 DEF UpScriptTx, DownScriptTx
  <1>2. /\ UNCHANGED vars /\ UNCHANGED <<ledger, schema, pc, cur, call, toApply, toRollback>>
        /\ tx[r].script = "none" /\ tx \in [Runners -> TxType]
    BY <1>1 DEF RunScript, vars, database, plan, LockInv
  <1>3. to = "none" => m \notin IrreversibleIn(ledger)
    BY <1>1 DEF LockInv, LedgerInv, RunnersInv, RunnerInv, Checked
  <1>4. \E how \in {"noop", "changed"} :
          /\ tx' = [tx EXCEPT ![r] = [id |-> m, script |-> how, row |-> "none"]]
          /\ how = "noop" => schema[m] = to
    BY <1>1, <1>3 DEF RunScript
  <1>5. PICK how \in {"noop", "changed"} :
          /\ tx' = [tx EXCEPT ![r] = [id |-> m, script |-> how, row |-> "none"]]
          /\ how = "noop" => schema[m] = to
    BY <1>4
  <1>6. LedgerInv'
    BY <1>2, LedgerStep DEF LockInv
  <1>7. TxUnderLock(r)'
    BY <1>1, <1>2, <1>5 DEF TxUnderLock, OnItsWay, NextToApply
  <1>8. ASSUME NEW q \in Runners \ {r} PROVE TxUnderLock(q)' /\ tx'[q] = tx[q]
    BY <1>2, <1>5, UndisturbedTx
  <1>9. tx' \in [Runners -> TxType]
    BY <1>2, <1>5 DEF TxType
  <1> QED BY <1>2, <1>6, <1>7, <1>8, <1>9 DEF LockInv

\* Neither does the write of the row, which finds what the plan expects.
LEMMA WriteRowStutters ==
  ASSUME LockInv, NEW r \in Runners, WriteRow(r)
  PROVE  UNCHANGED vars /\ LockInv'
  <1> DEFINE m == tx[r].id
  <1>1. /\ UNCHANGED vars /\ UNCHANGED <<ledger, schema, pc, cur, call, toApply, toRollback>>
        /\ tx \in [Runners -> TxType] /\ tx[r] \in TxType /\ tx[r].script # "none" /\ TxUnderLock(r)
    BY DEF WriteRow, vars, database, plan, LockInv
  <1>2. pc[r] = "downTx" => cur[r] \in Recorded
    BY DEF LockInv, LedgerInv, RunnersInv, RunnerInv
  <1>3. \E how \in {"inserted", "deleted"} :
          /\ tx' = [tx EXCEPT ![r].row = how]
          /\ how = "inserted" => pc[r] = "execute" /\ m \notin Recorded
          /\ how = "deleted" => pc[r] = "downTx"
    BY <1>1, <1>2 DEF WriteRow, TxUnderLock, OnItsWay
  <1>4. PICK how \in {"inserted", "deleted"} :
          /\ tx' = [tx EXCEPT ![r].row = how]
          /\ how = "inserted" => pc[r] = "execute" /\ m \notin Recorded
          /\ how = "deleted" => pc[r] = "downTx"
    BY <1>3
  <1> DEFINE t == [tx[r] EXCEPT !.row = how]
  <1>5. t \in TxType /\ t.id = m /\ t.script = tx[r].script /\ t.row = how
    BY <1>1 DEF TxType
  <1>6. tx' = [tx EXCEPT ![r] = t] /\ tx'[r] = t
    BY <1>1, <1>4
  <1> HIDE DEF t
  <1>7. LedgerInv'
    BY <1>1, LedgerStep DEF LockInv
  <1>8. TxUnderLock(r)'
    BY <1>1, <1>4, <1>5, <1>6 DEF TxUnderLock, OnItsWay, NextToApply, Recorded
  <1> QED BY <1>1, <1>5, <1>6, <1>7, <1>8, HolderTx

\* The COMMIT is ApplyTx or DownTx.
LEMMA CommitTxIsNext ==
  ASSUME LockInv, NEW r \in Runners, CommitTx(r)
  PROVE  Next /\ LockInv'
  <1> DEFINE m == tx[r].id
  <1>1. /\ tx \in [Runners -> TxType] /\ tx[r] \in TxType /\ m \in Ids /\ tx[r].row # "none"
        /\ schema \in [Ids -> {"none", "partial", "applied"}] /\ cur \in [Runners -> Ids]
    BY DEF LockInv, LedgerInv, TypeInv, TypeOK, TxType, CommitTx
  <1>2. tx[r].script # "none" /\ OnItsWay(r)
    BY <1>1 DEF LockInv, TxUnderLock
  <1>3. /\ schema' = SchemaAfter(r) /\ excused' = excused \ {m} /\ cur' = [cur EXCEPT ![r] = m]
        /\ UNCHANGED <<lock, table, call>> /\ tx' = [tx EXCEPT ![r] = NoTx]
    BY DEF CommitTx
  <1>4. schema' = [schema EXCEPT ![m] = IF pc[r] = "execute" THEN "applied" ELSE "none"]
    BY <1>1, <1>2, <1>3 DEF SchemaAfter, OnItsWay, TxType
  <1>5. Step(r)
    <2>1. CASE pc[r] = "execute"
      <3>1. /\ ledger' = Insert(ledger, RowOf(call[r].src, m, FALSE)) /\ m \notin Recorded
            /\ NextToApply(r, m) /\ call[r].src[m].up = "tx"
        BY <1>1, <1>2, <2>1 DEF OnItsWay, CommitTx
      <3>2. AppliedOne(r, m) \/ (Return(r, "failed") /\ UNCHANGED <<plan, result>>)
        BY <2>1 DEF CommitTx
      <3>3. schema' = [schema EXCEPT ![m] = "applied"]
        BY <1>4, <2>1
      <3> DEFINE Committed(replied) ==
            /\ ledger' = Insert(ledger, RowOf(call[r].src, m, FALSE))
            /\ schema' = [schema EXCEPT ![m] = "applied"]
            /\ excused' = excused \ {m}
            /\ IF replied THEN AppliedOne(r, m)
                          ELSE Return(r, "failed") /\ UNCHANGED <<plan, result>>
      <3>4. \E replied \in BOOLEAN : Committed(replied)
        BY <1>3, <3>1, <3>2, <3>3
      <3>5. ApplyTx(r, m)
        BY <1>3, <2>1, <3>1, <3>4 DEF ApplyTx
      <3> QED BY <1>1, <3>5 DEF Step, TransactionStep
    <2>2. CASE pc[r] = "downTx"
      <3>1. m = cur[r] /\ ledger' = Delete(ledger, m) /\ m \notin IrreversibleIn(ledger) /\ UNCHANGED cur
        <4>1. m = cur[r] /\ tx[r].row = "deleted"
          BY <1>1, <1>2, <2>2 DEF OnItsWay
        <4>2. cur[r] \notin IrreversibleIn(ledger)
          BY <2>2 DEF LockInv, LedgerInv, RunnersInv, RunnerInv, Checked
        <4> QED BY <1>1, <1>3, <4>1, <4>2 DEF CommitTx
      <3>2. RolledBackOne(r) \/ (Return(r, "failed") /\ UNCHANGED <<plan, result>>)
        BY <2>2 DEF CommitTx
      <3>3. schema' = [schema EXCEPT ![cur[r]] = "none"]
        BY <1>4, <2>2, <3>1
      <3>4. /\ ledger' = Delete(ledger, cur[r]) /\ excused' = excused \ {cur[r]}
            /\ cur[r] \notin IrreversibleIn(ledger)
        BY <1>3, <3>1
      <3> DEFINE Committed(replied) ==
            /\ ledger' = Delete(ledger, cur[r])
            /\ schema' = IF cur[r] \in IrreversibleIn(ledger) THEN schema
                         ELSE [schema EXCEPT ![cur[r]] = "none"]
            /\ excused' = excused \ {cur[r]}
            /\ IF replied THEN RolledBackOne(r)
                          ELSE Return(r, "failed") /\ UNCHANGED <<plan, result>>
      <3>5. \E replied \in BOOLEAN : Committed(replied)
        BY <3>2, <3>3, <3>4
      <3>6. DownTx(r)
        BY <1>3, <2>2, <3>1, <3>5 DEF DownTx
      <3> QED BY <3>6 DEF Step, TransactionStep
    <2> QED BY <1>2, <2>1, <2>2 DEF OnItsWay
  <1>6. Next /\ LedgerInv'
    BY <1>5, LedgerStep DEF Next, LockInv
  <1>7. NoTx \in TxType /\ TxUnderLock(r)'
    BY <1>1, <1>3, NoTxType DEF TxUnderLock
  <1> QED BY <1>2, <1>3, <1>6, <1>7, HolderTx

\* An error before the COMMIT is CallFails, or DownTx without effect.
LEMMA RollbackTxIsNext ==
  ASSUME LockInv, NEW r \in Runners, RollbackTx(r)
  PROVE  Next /\ LockInv'
  <1>1. /\ tx \in [Runners -> TxType] /\ tx' = [tx EXCEPT ![r] = NoTx] /\ Return(r, "failed")
        /\ UNCHANGED <<lock, database, call, plan, cur, result>>
        /\ UNCHANGED <<lock, table, ledger, schema, excused, call, toApply, toRollback, cur>>
        /\ pc \in [Runners -> PCs]
    BY DEF RollbackTx, LockInv, database, plan, LedgerInv, TypeInv, TypeOK
  <1>2. pc[r] = "downTx" \/ (pc[r] = "execute" /\ toApply[r] # {})
    BY DEF RollbackTx, LockInv, TxUnderLock, OnItsWay, NextToApply
  <1>3. Step(r)
    <2>1. CASE pc[r] = "downTx"
      <3>1. DownTx(r)
        BY <1>1, <2>1 DEF DownTx
      <3> QED BY <3>1 DEF Step, TransactionStep
    <2>2. CASE pc[r] = "execute" /\ toApply[r] # {}
      <3>1. CallFails(r)
        BY <1>1, <2>2 DEF CallFails
      <3> QED BY <3>1 DEF Step, OtherStep
    <2> QED BY <1>2, <2>1, <2>2
  <1>4. Next /\ LedgerInv'
    BY <1>3, LedgerStep DEF Next, LockInv
  <1>5. ASSUME NEW q \in Runners \ {r} PROVE TxUnderLock(q)' /\ tx'[q] = tx[q]
    <2>1. tx'[q] = tx[q] /\ pc'[q] = pc[q]
      BY <1>1 DEF Return
    <2> QED BY <1>1, <2>1, UndisturbedTx
  <1>6. NoTx \in TxType /\ TxUnderLock(r)' /\ tx' \in [Runners -> TxType]
    BY <1>1, NoTxType DEF TxUnderLock
  <1> QED BY <1>4, <1>5, <1>6 DEF LockInv

\* Under the lock every step is one of Migrator or a stutter.
LEMMA LockStep ==
  ASSUME ~lost', LockInv, [OverlapNext]_overlapVars
  PROVE  [Next]_vars /\ LockInv'
  <1>1. ASSUME NEW r \in Runners,
               DownScriptTx(r) \/ WriteRow(r) \/ \E m \in Ids : UpScriptTx(r, m)
        PROVE  [Next]_vars /\ LockInv'
    BY <1>1, ScriptTxStutters, WriteRowStutters
  <1>2. ASSUME NEW r \in Runners,
               \/ CommitTx(r) \/ RollbackTx(r)
               \/ CallGoesOn(r) \/ CallBegins(r) \/ ProcessDies(r)
        PROVE  [Next]_vars /\ LockInv'
    BY <1>2, CommitTxIsNext, RollbackTxIsNext, OtherStepsAreNext
  <1>3. ~LoseLock
    BY DEF LoseLock
  <1>4. CASE OperatorRepairs
    <2>1. Next /\ lock = None /\ UNCHANGED tx
      BY <1>4 DEF OperatorRepairs, Repair, Next
    <2>2. LedgerInv'
      BY <2>1, LedgerStep DEF LockInv
    <2>3. \A q \in Runners : tx[q].script = "none" /\ tx[q].row = "none"
      BY <2>1, OpenHoldsLock, NoneAssumption DEF LockInv, TxUnderLock
    <2> QED BY <2>1, <2>2, <2>3 DEF LockInv, TxUnderLock
  <1>5. CASE UNCHANGED overlapVars
    <2>1. UNCHANGED vars /\ UNCHANGED <<tx, ledger, schema, pc, cur, call, toApply, toRollback>>
      BY <1>5 DEF overlapVars, vars, database, plan
    <2>2. LedgerInv'
      BY <2>1, LedgerStep DEF LockInv
    <2> QED BY <2>1, <2>2, UndisturbedTx DEF LockInv
  <1> QED BY <1>1, <1>2, <1>3, <1>4, <1>5 DEF OverlapNext

\* A lock once lost has been lost for ever.
LEMMA LostStays ==
  ASSUME lost, [OverlapNext]_overlapVars
  PROVE  lost'
  <1>1. ASSUME NEW r \in Runners, WriteRow(r) \/ CommitTx(r) \/ RollbackTx(r) PROVE lost'
    BY <1>1 DEF WriteRow, CommitTx, RollbackTx
  <1>2. ASSUME NEW r \in Runners, CallGoesOn(r) \/ CallBegins(r) \/ ProcessDies(r) PROVE lost'
    BY <1>2 DEF CallGoesOn, CallBegins, ProcessDies
  <1>3. ASSUME NEW r \in Runners, DownScriptTx(r) \/ \E m \in Ids : UpScriptTx(r, m) PROVE lost'
    BY <1>3 DEF DownScriptTx, UpScriptTx, RunScript
  <1>4. CASE LoseLock \/ OperatorRepairs
    BY <1>4 DEF LoseLock, OperatorRepairs
  <1>5. CASE UNCHANGED overlapVars
    BY <1>5 DEF overlapVars
  <1> QED BY <1>1, <1>2, <1>3, <1>4, <1>5 DEF OverlapNext

(***************************************************************************)
(* Until the lock is lost, BEGIN, the script, the write of the row and     *)
(* COMMIT look like one step to everybody else: whatever the calls and     *)
(* however many runners, the steps are those of Migrator.  That is what    *)
(* makes the theorems about Migrator theorems about the transactions the   *)
(* executor sends.                                                         *)
(***************************************************************************)
THEOREM TransactionsLookLikeOneStep == OverlapSpec => ImplementsMigrator
  <1>1. OverlapInit => Init /\ (lost \/ LockInv)
    BY LedgerInit, NoTxType DEF OverlapInit, LockInv, TxUnderLock
  <1>2. (lost \/ LockInv) /\ [OverlapNext]_overlapVars =>
          [~lost' => Next]_vars /\ (lost \/ LockInv)'
    BY LockStep, LostStays
  <1> QED BY <1>1, <1>2, PTL DEF OverlapSpec, ImplementsMigrator
-----------------------------------------------------------------------------
(***************************************************************************)
(* Work that outlives its call.                                            *)
(***************************************************************************)
\* What the server may go on with.
Work ==
  [kind : {"statement"}, id : Ids, to : {"applied", "none"}] \cup
  [kind : {"undoing", "rowless", "mark", "delete", "forget"}, id : Ids] \cup
  {w \in [kind : {"insert", "applying"}, id : Ids, row : Row] :
     w.row.id = w.id /\ (w.kind = "applying" => ~w.row.err)} \cup
  {w \in [kind : {"adopting"}, rows : Seq(Row)] : UniqueIds(w.rows) /\ FailedIn(w.rows) = {}}

\* IDs whose rows a COMMIT brings, IDs whose rows one takes, and so on.
ArrivingIds == UNION {About(w) : w \in {x \in late : x.kind \in {"applying", "adopting"}}}
UndoingIds == {w.id : w \in {x \in late : x.kind = "undoing"}}
InsertIds == {w.id : w \in {x \in late : x.kind = "insert"}}
StatementIds == {w.id : w \in Statements}

\* m's row, if there is one, has a script that runs in a transaction.
TxRow(m) == \A row \in ToSet(ledger) : row.id = m => row.down = "tx"

\* A COMMIT is for rows that its locks keep as its transaction found them.  A write
\* that nobody has overtaken is still true, and no script is at its migration.
WorkInv(w) ==
  /\ w.kind \in {"applying", "adopting"} => About(w) \cap Recorded = {}
  /\ w.kind = "undoing" => w.id \in Recorded /\ (w.id \in orphaned \/ TxRow(w.id))
  /\ w.kind = "rowless" => w.id \in orphaned
  /\ w.kind \in {"insert", "mark", "delete", "forget"} /\ w.id \notin orphaned =>
       /\ ~InFlux(w.id)
       /\ w.kind = "insert" => w.id \notin Recorded /\ (w.row.err \/ schema[w.id] = "applied")
       /\ w.kind = "delete" => schema[w.id] = "none"

\* What the place of a runner in its call implies.
LateRunnerInv(r) ==
  /\ pc[r] \in Busy => lock = r
  /\ pc[r] \in Past =>
       StatementIds \subseteq
         orphaned \cup (IF pc[r] \in {"recordErr", "markFailed"} THEN {cur[r]} ELSE {})
  /\ pc[r] \in {"reversible"} \cup Checked =>
       /\ toRollback[r] \cap ArrivingIds = {} /\ toRollback[r] \cap InsertIds \subseteq orphaned
       /\ toApply[r] \cap UndoingIds = {}
  /\ pc[r] \in Checked => toRollback[r] \cap IrreversibleIn(ledger) \subseteq orphaned
  /\ pc[r] \in {"downTx", "downStmts", "markFailed", "deleteRow"} => cur[r] \in toRollback[r]
  /\ pc[r] = "downTx" => cur[r] \in orphaned \/ TxRow(cur[r])
  /\ pc[r] \in {"downStmts", "markFailed", "deleteRow"} =>
       cur[r] \in (Recorded \ UndoingIds) \cup orphaned
  /\ pc[r] \in {"upStmts", "recordOk", "recordErr"} =>
       toRollback[r] = {} /\ cur[r] \notin UndoingIds
  /\ pc[r] = "recordOk" => schema[cur[r]] = "applied" \/ cur[r] \in orphaned
  /\ pc[r] = "deleteRow" => schema[cur[r]] = "none" \/ cur[r] \in orphaned

\* The two properties, for one migration.
TruthAt(m) == m \in excused \cup orphaned \/ InFlux(m) \/ Truthful(m, ledger, schema)
Recording(m) == \E r \in Runners : pc[r] \in {"recordErr", "markFailed"} /\ cur[r] = m
FenceAt(m) ==
  m \in StatementIds \ orphaned =>
    m \notin UndoingIds /\ ((m \in FailedIn(ledger) /\ ~InFlux(m)) \/ Recording(m))

LateInv ==
  /\ TypeInv /\ UniqueIds(ledger)
  /\ late \subseteq Work /\ orphaned \subseteq Ids
  /\ \A w \in late : WorkInv(w)
  /\ \A r \in Runners : LateRunnerInv(r)
  /\ \A m \in Ids : TruthAt(m) /\ FenceAt(m)
-----------------------------------------------------------------------------
\* Facts about the state.

\* An ID has a row when one of the rows carries it.
LEMMA HasRow ==
  ASSUME NEW rows, NEW m
  PROVE  /\ m \in RecordedIn(rows) <=> \E row \in ToSet(rows) : row.id = m
         /\ m \in FailedIn(rows) <=> \E row \in ToSet(rows) : row.id = m /\ row.err
         /\ m \in IrreversibleIn(rows) <=>
              \E row \in ToSet(rows) : row.id = m /\ row.down = "irreversible"
  BY DEF RecordedIn, FailedIn, IrreversibleIn

\* What the server's work is made of.
LEMMA WorkFields ==
  ASSUME NEW w \in Work
  PROVE  /\ w.kind \in {"statement", "insert", "mark", "delete", "forget",
                        "applying", "undoing", "adopting", "rowless"}
         /\ w.kind # "adopting" => w.id \in Ids
         /\ w.kind = "statement" => w.to \in {"applied", "none"}
         /\ w.kind \in {"insert", "applying"} => w.row \in Row /\ w.row.id = w.id
         /\ w.kind = "applying" => w.row.err = FALSE
         /\ w.kind = "adopting" =>
              w.rows \in Seq(Row) /\ UniqueIds(w.rows) /\ FailedIn(w.rows) = {}
  <1>1. CASE w \in [kind : {"statement"}, id : Ids, to : {"applied", "none"}]
    BY <1>1
  <1>2. CASE w \in [kind : {"undoing", "rowless", "mark", "delete", "forget"}, id : Ids]
    BY <1>2
  <1>3. CASE w \in {x \in [kind : {"insert", "applying"}, id : Ids, row : Row] :
                     x.row.id = x.id /\ (x.kind = "applying" => ~x.row.err)}
    <2>1. /\ w.id \in Ids /\ w.kind \in {"insert", "applying"} /\ w.row \in Row
          /\ w.row.id = w.id /\ (w.kind = "applying" => ~w.row.err)
      BY <1>3
    <2>2. w.row.err \in BOOLEAN
      BY <2>1 DEF Row
    <2> QED BY <2>1, <2>2
  <1>4. CASE w \in {x \in [kind : {"adopting"}, rows : Seq(Row)] :
                     UniqueIds(x.rows) /\ FailedIn(x.rows) = {}}
    BY <1>4
  <1> QED BY <1>1, <1>2, <1>3, <1>4 DEF Work

\* Every ID late work is about is one of the migrations'.
LEMMA AboutIds ==
  ASSUME NEW w \in Work
  PROVE  About(w) \subseteq Ids
  <1>1. CASE w.kind = "adopting"
    BY <1>1, WorkFields, RowsType DEF About
  <1>2. CASE w.kind # "adopting"
    BY <1>2, WorkFields DEF About
  <1> QED BY <1>1, <1>2

\* Whoever is inside withLock holds the lock, so nobody else is.
LEMMA AloneInside ==
  ASSUME LateInv, NEW r \in Runners, pc[r] \in Busy, NEW q \in Runners, q # r
  PROVE  pc[q] \in {"idle", "return"}
  <1>1. lock = r /\ pc[q] \notin Busy
    BY DEF LateInv, LateRunnerInv
  <1>2. pc[q] \in PCs
    BY DEF LateInv, TypeInv, TypeOK
  <1> QED BY <1>1, <1>2 DEF Busy

\* A runner outside withLock knows nothing that could become false.
LEMMA OutsideKnowsNothing ==
  ASSUME NEW q \in Runners, pc'[q] \in {"idle", "return"}
  PROVE  LateRunnerInv(q)'
  BY DEF LateRunnerInv, Busy, Past, Checked, ScriptWindow

\* Past refuseIfFailed a call meets no late statement but its own and orphans.
LEMMA ClearAhead ==
  ASSUME LateInv, NEW r \in Runners, pc[r] \in Past, NEW m \in Ids,
         ~(pc[r] \in {"recordErr", "markFailed"} /\ cur[r] = m)
  PROVE  m \in StatementIds => m \in orphaned
  BY DEF LateInv, LateRunnerInv

\* Who is orphaned by a step.
LEMMA OrphansFacts ==
  ASSUME LateInv, orphaned \cup Orphans \subseteq orphaned', late \subseteq late'
  PROVE  /\ orphaned \subseteq orphaned'
         /\ \A m \in StatementIds : m \in excused' => m \in orphaned'
         /\ \A m \in StatementIds :
              m \in Recorded \ Recorded' /\ (\E r \in Runners : pc[r] = "forget" /\ pc'[r] # "forget")
                => m \in orphaned'
         /\ \A r \in Runners : pc[r] \in ScriptWindow /\ pc'[r] = "idle" =>
              (cur[r] \in StatementIds => cur[r] \in orphaned')
  <1>1. \A w \in Statements : w \in late'
    BY DEF Statements
  <1>2. \A w \in Statements : w.id \in excused' \/ RowTakenAway(w.id) \/ CallGone(w.id) =>
          w.id \in orphaned'
    BY <1>1 DEF Orphans
  <1> QED BY <1>2 DEF StatementIds, RowTakenAway, CallGone

\* Only migrations are orphaned.
LEMMA OrphansType ==
  ASSUME LateInv
  PROVE  Orphans \subseteq Ids
  <1>1. \A w \in Statements \cup Writes : w.id \in Ids
    BY WorkFields DEF LateInv, Statements, Writes
  <1> QED BY <1>1 DEF Orphans

(***************************************************************************)
(* What is true of the server's work stays true in every step: locks keep  *)
(* what a COMMIT is for, and whoever overtakes a write orphans it.         *)
(***************************************************************************)
LEMMA WorkStays ==
  ASSUME LateInv, LocksRespected, orphaned \cup Orphans \subseteq orphaned', NEW w \in late \cap late'
  PROVE  WorkInv(w)'
  <1>1. WorkInv(w) /\ orphaned \subseteq orphaned'
    BY DEF LateInv
  <1>2. ASSUME w \in Commits, NEW m \in RowsOf(w), NEW row, row.id = m
        PROVE  row \in ToSet(ledger') <=> row \in ToSet(ledger)
    <2>1. {x \in ToSet(ledger') : x.id = m} = {x \in ToSet(ledger) : x.id = m}
      BY <1>2 DEF LocksRespected
    <2> QED BY <1>2, <2>1
  <1>3. ASSUME w \in Commits, NEW m \in RowsOf(w)
        PROVE  m \in Recorded' <=> m \in Recorded
    BY <1>2, <1>3, HasRow DEF Recorded
  <1>4. ASSUME w.kind \in {"applying", "adopting"} PROVE About(w) \cap Recorded' = {}
    <2>1. w \in Commits /\ RowsOf(w) = About(w)
      BY <1>4 DEF Commits, RowsOf
    <2> QED BY <1>1, <1>3, <1>4, <2>1 DEF WorkInv
  <1>5. ASSUME w.kind = "undoing"
        PROVE  w.id \in Recorded' /\ (w.id \in orphaned' \/ TxRow(w.id)')
    <2>1. w \in Commits /\ RowsOf(w) = {w.id}
      BY <1>5 DEF Commits, RowsOf, About
    <2>2. TxRow(w.id) => TxRow(w.id)'
      BY <1>2, <2>1 DEF TxRow
    <2> QED BY <1>1, <1>3, <1>5, <2>1, <2>2 DEF WorkInv
  <1>6. ASSUME w.kind \in {"insert", "mark", "delete", "forget"}, w.id \notin orphaned'
        PROVE  /\ ~InFlux(w.id)' /\ schema'[w.id] = schema[w.id]
               /\ w.id \notin Recorded => w.id \notin Recorded'
    <2>1. w \in Writes \cap late'
      BY <1>6 DEF Writes
    <2>2. ~Overtaken(w.id)
      BY <1>6, <2>1 DEF Orphans
    <2> QED BY <2>2 DEF Overtaken
  <1>7. w.kind = "rowless" => w.id \in orphaned'
    BY <1>1 DEF WorkInv
  <1>8. ASSUME w.kind \in {"insert", "mark", "delete", "forget"}, w.id \notin orphaned'
        PROVE  /\ ~InFlux(w.id)'
               /\ w.kind = "insert" => w.id \notin Recorded' /\ (w.row.err \/ schema'[w.id] = "applied")
               /\ w.kind = "delete" => schema'[w.id] = "none"
    BY <1>1, <1>6, <1>8 DEF WorkInv
  <1> QED BY <1>4, <1>5, <1>7, <1>8 DEF WorkInv, About

\* The IDs of the server's work, while nothing is added to it.
LEMMA SameWork ==
  ASSUME UNCHANGED late
  PROVE  /\ StatementIds' = StatementIds /\ ArrivingIds' = ArrivingIds
         /\ UndoingIds' = UndoingIds /\ InsertIds' = InsertIds
  BY DEF StatementIds, Statements, ArrivingIds, UndoingIds, InsertIds, About

(***************************************************************************)
(* A step of the lock's holder beside the server's work that touches the   *)
(* migrations in M alone.                                                  *)
(***************************************************************************)
LEMMA HolderBeside ==
  ASSUME LateInv, TypeInv', NEW r \in Runners, pc[r] \in Busy, LocksRespected, UNCHANGED late,
         orphaned' = orphaned \cup Orphans,
         NEW x, pc' = [pc EXCEPT ![r] = x], \A q \in Runners : q # r => cur'[q] = cur[q],
         UniqueIds(ledger'), LateRunnerInv(r)', NEW M,
         pc[r] \in ScriptWindow => cur[r] \in M,
         pc'[r] \in ScriptWindow => cur'[r] \in M,
         \A k \in Ids \ M : /\ k \in excused => k \in excused'
                            /\ k \in RecordedIn(ledger') <=> k \in RecordedIn(ledger)
                            /\ k \in FailedIn(ledger') <=> k \in FailedIn(ledger)
                            /\ schema'[k] = schema[k],
         \A m \in M : TruthAt(m)' /\ FenceAt(m)'
  PROVE  LateInv'
  <1>1. orphaned \subseteq orphaned' /\ orphaned' \subseteq Ids
    BY OrphansType DEF LateInv
  <1>2. \A q \in Runners : q # r => pc[q] \in {"idle", "return"} /\ pc'[q] = pc[q]
    BY AloneInside DEF LateInv, TypeInv, TypeOK
  <1>3. \A q \in Runners : LateRunnerInv(q)'
    BY <1>2, OutsideKnowsNothing
  <1>4. \A k \in Ids \ M : ~InFlux(k) /\ ~InFlux(k)' /\ ~Recording(k)
    BY <1>2 DEF InFlux, Recording, ScriptWindow
  <1>5. \A k \in Ids \ M : TruthAt(k)'
    BY <1>1, <1>4 DEF LateInv, TruthAt, Truthful
  <1>6. \A k \in Ids \ M : FenceAt(k)'
    BY <1>1, <1>4, SameWork DEF LateInv, FenceAt
  <1>7. \A k \in Ids : TruthAt(k)' /\ FenceAt(k)'
    BY <1>5, <1>6
  <1>8. \A w \in late' : WorkInv(w)'
    BY WorkStays
  <1> QED BY <1>1, <1>3, <1>7, <1>8 DEF LateInv

\* A step of the lock's holder that reads the database, or starts a script.
LEMMA QuietBeside ==
  ASSUME LateInv, TypeInv', NEW r \in Runners, pc[r] \in Busy, pc[r] \notin ScriptWindow,
         LocksRespected, UNCHANGED <<late, ledger, schema, excused>>,
         orphaned' = orphaned \cup Orphans,
         NEW x, pc' = [pc EXCEPT ![r] = x], x \in ScriptWindow => pc[r] \in Past,
         \A q \in Runners : q # r => cur'[q] = cur[q], LateRunnerInv(r)'
  PROVE  LateInv'
  <1> DEFINE M == IF x \in ScriptWindow THEN {cur'[r]} ELSE {}
  <1>1. pc'[r] = x /\ cur'[r] \in Ids /\ UniqueIds(ledger')
    BY DEF LateInv, TypeInv, TypeOK
  <1>2. \A m \in M : m \in Ids /\ x \in ScriptWindow /\ cur'[r] = m
    BY <1>1
  <1>3. pc'[r] \in ScriptWindow => cur'[r] \in M
    BY <1>1
  <1> HIDE DEF M
  <1>4. ASSUME NEW m \in M PROVE TruthAt(m)' /\ FenceAt(m)'
    <2>1. TruthAt(m)'
      BY <1>1, <1>2 DEF TruthAt, InFlux
    <2>2. m \in StatementIds => m \in orphaned
      BY <1>2, ClearAhead DEF ScriptWindow
    <2> QED BY <2>1, <2>2, SameWork DEF FenceAt
  <1> QED BY <1>1, <1>3, <1>4, HolderBeside

\* The rows Rollback takes from the end of the ledger are rows of the ledger.
LEMMA TailIsRecorded ==
  ASSUME NEW rows \in Seq(Row), NEW n \in Nat, n <= Len(rows)
  PROVE  Tail_n(rows, n) \subseteq RecordedIn(rows)
  <1>1. Len(rows) \in Nat /\ DOMAIN rows = 1 .. Len(rows)
    BY LenProperties
  <1>2. \A k \in Len(rows) - n + 1 .. Len(rows) : k \in DOMAIN rows
    BY <1>1
  <1> QED BY <1>2 DEF Tail_n, RecordedIn, ToSet

\* What a plan made now meets: nothing the server is about to insert or delete,
\* unless somebody has overtaken it.
LEMMA PlansMiss ==
  ASSUME LateInv, NEW rollback \in SUBSET Recorded, NEW apply, apply \cap Recorded = {}
  PROVE  /\ rollback \cap ArrivingIds = {} /\ rollback \cap InsertIds \subseteq orphaned
         /\ apply \cap UndoingIds = {}
  <1>1. ArrivingIds \cap Recorded = {}
    BY DEF LateInv, WorkInv, ArrivingIds
  <1>2. InsertIds \cap Recorded \subseteq orphaned
    BY DEF LateInv, WorkInv, InsertIds
  <1>3. UndoingIds \subseteq Recorded
    BY DEF LateInv, WorkInv, UndoingIds
  <1> QED BY <1>1, <1>2, <1>3

\* refuseIfFailed has found no failed row, so every late statement is orphaned.
LEMMA NoFailedRow ==
  ASSUME LateInv, NEW r \in Runners, pc[r] = "refuse", FailedIn(ledger) = {}
  PROVE  StatementIds \subseteq orphaned
  <1>1. \A m \in StatementIds : m \in Ids
    BY WorkFields DEF LateInv, StatementIds, Statements
  <1>2. \A m : ~Recording(m)
    BY AloneInside DEF Recording, Busy, PCs
  <1> QED BY <1>1, <1>2 DEF LateInv, FenceAt

\* Planning, and the ends of a call.
LEMMA PlanningBeside ==
  ASSUME LateInv, TypeInv', NEW r \in Runners,
         LocksRespected, UNCHANGED late, orphaned' = orphaned \cup Orphans,
         \/ EnsureMigrationsTable(r) \/ RefuseIfFailed(r)
         \/ PlanUp(r) \/ PlanReconcile(r) \/ PlanDown(r) \/ EnsureReversible(r)
         \/ Baseline(r) \/ PlanDone(r) \/ CallFails(r)
  PROVE  LateInv'
  <1>1. /\ LateRunnerInv(r) /\ pc \in [Runners -> PCs] /\ ledger \in Seq(Row)
        /\ toRollback \in [Runners -> SUBSET Ids] /\ toApply \in [Runners -> SUBSET Ids]
    BY DEF LateInv, TypeInv, TypeOK
  <1> DEFINE Quiet(x) == /\ pc[r] \in Busy /\ pc[r] \notin ScriptWindow
                         /\ pc' = [pc EXCEPT ![r] = x]
                         /\ UNCHANGED <<ledger, schema, excused, cur>> /\ LateRunnerInv(r)'
  <1>q. ASSUME NEW x \in {"baseline", "refuse", "plan", "reversible", "execute", "recordAll",
                         "return"},
               Quiet(x)
        PROVE  LateInv'
    <2>1. x \notin ScriptWindow
      BY <1>q DEF ScriptWindow
    <2> QED BY <1>q, <2>1, QuietBeside
  <1>l. /\ StatementIds' = StatementIds /\ ArrivingIds' = ArrivingIds
        /\ UndoingIds' = UndoingIds /\ InsertIds' = InsertIds /\ orphaned \subseteq orphaned'
    BY SameWork
  <1>p. ASSUME NEW rollback \in SUBSET Recorded, NEW apply, apply \cap Recorded = {},
               pc[r] = "plan", StartPlan(r, rollback, apply),
               UNCHANGED <<lock, ledger, schema, excused, cur>>
        PROVE  LateInv'
    <2>1. /\ rollback \cap ArrivingIds' = {} /\ rollback \cap InsertIds' \subseteq orphaned'
          /\ apply \cap UndoingIds' = {}
      BY <1>l, <1>p, PlansMiss
    <2>2. toRollback'[r] = rollback /\ toApply'[r] = apply
      BY <1>1, <1>p DEF StartPlan
    <2>3. PICK x \in {"reversible", "return"} : pc' = [pc EXCEPT ![r] = x]
      BY <1>p DEF StartPlan, Goto, Return
    <2>4. StatementIds' \subseteq orphaned' /\ lock' = r
      BY <1>1, <1>l, <1>p DEF LateRunnerInv, Past, Busy, PCs
    <2>5. LateRunnerInv(r)'
      BY <1>1, <2>1, <2>2, <2>3, <2>4 DEF LateRunnerInv, Busy, PCs, Past, Checked, ScriptWindow
    <2>6. Quiet(x)
      BY <1>p, <2>3, <2>5 DEF Busy, PCs, ScriptWindow
    <2> HIDE DEF Quiet
    <2> QED BY <2>3, <2>6, <1>q
  <1>4. CASE PlanUp(r)
    <2>1. BuildPlan(DOMAIN call[r].src, Recorded, FALSE).toApply \cap Recorded = {}
      BY DEF BuildPlan
    <2> QED BY <1>4, <2>1, <1>p DEF PlanUp, database
  <1>5. CASE PlanReconcile(r)
    <2> DEFINE p == BuildPlan(DOMAIN call[r].src, Recorded, TRUE)
    <2>1. p.toApply \cap Recorded = {} /\ p.toRollback \in SUBSET Recorded
      BY DEF BuildPlan
    <2>2. /\ pc[r] = "plan" /\ UNCHANGED <<lock, ledger, schema, excused, cur>>
          /\ \/ StartPlan(r, p.toRollback, p.toApply)
             \/ Return(r, "refused")
      BY <1>5 DEF PlanReconcile, database
    <2> HIDE DEF p
    <2>3. CASE StartPlan(r, p.toRollback, p.toApply)
      BY <2>1, <2>2, <2>3, <1>p
    <2>4. CASE Return(r, "refused")
      <3>1. Quiet("return")
        BY <1>1, <2>2, <2>4 DEF Return, LateRunnerInv, Busy, PCs, Past, Checked, ScriptWindow
      <3> HIDE DEF Quiet
      <3> QED BY <3>1, <1>q
    <2> QED BY <2>2, <2>3, <2>4
  <1>6. CASE PlanDown(r)
    <2> DEFINE n == IF call[r].count = 0 \/ call[r].count > Len(ledger)
                      THEN Len(ledger) ELSE call[r].count
    <2>1. call[r].count \in Nat /\ Len(ledger) \in Nat
      BY <1>1, CallFields, TypeFacts, LenProperties DEF LateInv
    <2>2. n \in Nat /\ n <= Len(ledger)
      BY <2>1
    <2>3. /\ pc[r] = "plan" /\ UNCHANGED <<lock, ledger, schema, excused, cur>>
          /\ StartPlan(r, Tail_n(ledger, n), {})
      BY <1>6 DEF PlanDown, database
    <2> HIDE DEF n
    <2>4. Tail_n(ledger, n) \in SUBSET Recorded
      BY <1>1, <2>2, TailIsRecorded DEF Recorded
    <2> QED BY <2>3, <2>4, <1>p
  <1>9. CASE PlanDone(r) \/ CallFails(r)
    <2>1. Quiet("return")
      BY <1>1, <1>9 DEF PlanDone, CallFails, Return, database, LateRunnerInv,
                            Busy, PCs, Past, Checked, ScriptWindow
    <2> HIDE DEF Quiet
    <2> QED BY <2>1, <1>q
  <1>3. CASE RefuseIfFailed(r)
    <2>1. PICK x \in {"plan", "return"} :
            pc' = [pc EXCEPT ![r] = x] /\ (x = "plan" => FailedIn(ledger) = {})
      BY <1>3 DEF RefuseIfFailed, Goto, Return
    <2>2. /\ pc[r] = "refuse" /\ UNCHANGED <<lock, ledger, schema, excused, cur>>
      BY <1>3 DEF RefuseIfFailed, database
    <2>3. x = "plan" => StatementIds' \subseteq orphaned'
      BY <1>l, <2>1, <2>2, NoFailedRow
    <2>4. pc'[r] = x /\ (pc[r] \in Busy => lock' = r)
      BY <1>1, <2>1, <2>2 DEF LateRunnerInv
    <2>5. LateRunnerInv(r)'
      BY <2>1, <2>2, <2>3, <2>4 DEF LateRunnerInv, Busy, PCs, Past, Checked, ScriptWindow
    <2>6. Quiet(x)
      BY <2>1, <2>2, <2>5 DEF Busy, PCs, ScriptWindow
    <2> HIDE DEF Quiet
    <2> QED BY <2>1, <2>6, <1>q
  <1> USE <1>1, <1>l DEF Busy, PCs, Past, Checked, ScriptWindow, Goto, Return, database, plan,
                         LateRunnerInv
  <1>2. CASE EnsureMigrationsTable(r)
    <2>1. \E x \in {"baseline", "refuse", "return"} : Quiet(x)
      BY <1>2 DEF EnsureMigrationsTable
    <2> HIDE DEF Quiet
    <2> QED BY <2>1, <1>q
  <1>7. CASE EnsureReversible(r)
    <2>1. \E x \in {"execute", "return"} : Quiet(x)
      BY <1>7 DEF EnsureReversible
    <2> HIDE DEF Quiet
    <2> QED BY <2>1, <1>q
  <1>8. CASE Baseline(r)
    <2>1. \E x \in {"recordAll", "return"} : Quiet(x)
      BY <1>8 DEF Baseline
    <2> HIDE DEF Quiet
    <2> QED BY <2>1, <1>q
  <1> QED BY <1>2, <1>3, <1>4, <1>5, <1>6, <1>7, <1>8, <1>9

\* RollbackMigration reads the stored script; applyWithoutTransaction starts.
LEMMA SelectBeside ==
  ASSUME LateInv, TypeInv', NEW r \in Runners, NEW m \in Ids,
         LocksRespected, UNCHANGED late, orphaned' = orphaned \cup Orphans,
         SelectDown(r, m) \/ StartUpScript(r, m)
  PROVE  LateInv'
  <1>1. /\ LateRunnerInv(r) /\ pc \in [Runners -> PCs] /\ ledger \in Seq(Row)
        /\ cur \in [Runners -> Ids] /\ UniqueIds(ledger)
    BY DEF LateInv, TypeInv, TypeOK
  <1>2. /\ pc[r] = "execute" /\ cur' = [cur EXCEPT ![r] = m]
        /\ UNCHANGED <<lock, ledger, schema, excused, toRollback, toApply>>
        /\ \E x \in {"return", "downStmts", "downTx", "upStmts"} : pc' = [pc EXCEPT ![r] = x]
    BY DEF SelectDown, StartUpScript, Goto, Return, database, plan
  <1>3. PICK x \in {"return", "downStmts", "downTx", "upStmts"} : pc' = [pc EXCEPT ![r] = x]
    BY <1>2
  <1>4. pc'[r] = x /\ cur'[r] = m /\ \A q \in Runners : q # r => cur'[q] = cur[q]
    BY <1>1, <1>2, <1>3
  <1>5. /\ StatementIds' = StatementIds /\ ArrivingIds' = ArrivingIds
        /\ UndoingIds' = UndoingIds /\ InsertIds' = InsertIds /\ orphaned \subseteq orphaned'
    BY SameWork
  <1>6. x \in {"downStmts", "downTx"} => m \in toRollback[r] /\ m \in Recorded
    BY <1>1, <1>3, <1>4 DEF SelectDown, StartUpScript, NextToRollback, Goto, Return
  <1>7. x \in {"downStmts", "downTx"} =>
          (x = "downStmts" <=> StoredDown(m) = "notx")
    BY <1>1, <1>3, <1>4, <1>6 DEF SelectDown, StartUpScript, Goto, Return
  <1>8. m \in Recorded => /\ \E row \in ToSet(ledger) : row.id = m /\ row.down = StoredDown(m)
                          /\ \A row \in ToSet(ledger) : row.id = m => row.down = StoredDown(m)
    <2> SUFFICES ASSUME m \in Recorded
                 PROVE  /\ \E row \in ToSet(ledger) : row.id = m /\ row.down = StoredDown(m)
                        /\ \A row \in ToSet(ledger) : row.id = m => row.down = StoredDown(m)
      OBVIOUS
    <2> DEFINE k == CHOOSE i \in DOMAIN ledger : ledger[i].id = m
    <2>1. \E i \in DOMAIN ledger : ledger[i].id = m
      BY DEF Recorded, RecordedIn, ToSet
    <2>2. k \in DOMAIN ledger /\ ledger[k].id = m /\ StoredDown(m) = ledger[k].down
      BY <2>1 DEF StoredDown
    <2> HIDE DEF k
    <2> QED BY <1>1, <2>2 DEF ToSet, UniqueIds
  <1>9. x = "downStmts" => m \notin UndoingIds \/ m \in orphaned
    <2> SUFFICES ASSUME x = "downStmts", m \in UndoingIds PROVE m \in orphaned
      OBVIOUS
    <2>1. m \in orphaned \/ TxRow(m)
      BY DEF LateInv, WorkInv, UndoingIds
    <2> QED BY <1>6, <1>7, <1>8, <2>1 DEF TxRow
  <1>10. x = "downTx" => m \in orphaned \/ TxRow(m)
    <2> SUFFICES ASSUME x = "downTx", m \notin orphaned PROVE TxRow(m)
      OBVIOUS
    <2>1. StoredDown(m) \in DownScripts
      <3>1. ToSet(ledger) \subseteq Row
        BY <1>1, RowsType
      <3> QED BY <1>6, <1>8, <3>1 DEF Row
    <2>2. m \notin IrreversibleIn(ledger)
      BY <1>1, <1>2, <1>6 DEF LateRunnerInv, Checked
    <2>3. StoredDown(m) # "irreversible"
      BY <1>6, <1>8, <2>2, HasRow
    <2> QED BY <1>6, <1>7, <1>8, <2>1, <2>3 DEF TxRow, DownScripts
  <1>11. x = "upStmts" => toRollback[r] = {} /\ m \in toApply[r]
    BY <1>1, <1>3, <1>4 DEF SelectDown, StartUpScript, NextToApply, Goto, Return
  <1>12. /\ lock = r /\ StatementIds \subseteq orphaned
         /\ toRollback[r] \cap IrreversibleIn(ledger) \subseteq orphaned
         /\ toRollback[r] \cap ArrivingIds = {} /\ toRollback[r] \cap InsertIds \subseteq orphaned
         /\ toApply[r] \cap UndoingIds = {}
    BY <1>1, <1>2 DEF LateRunnerInv, Busy, PCs, Past, Checked
  <1>13. TxRow(m) => TxRow(m)'
    BY <1>2 DEF TxRow
  <1>14. LateRunnerInv(r)'
    BY <1>2, <1>3, <1>4, <1>5, <1>6, <1>9, <1>10, <1>11, <1>12, <1>13 DEF LateRunnerInv, Recorded
  <1>15. pc[r] \in Busy /\ pc[r] \notin ScriptWindow /\ pc[r] \in Past
    BY <1>2 DEF Busy, PCs, ScriptWindow, Past, Checked
  <1> QED BY <1>2, <1>3, <1>4, <1>14, <1>15, QuietBeside

\* One statement of a notransaction script.
LEMMA StatementBeside ==
  ASSUME LateInv, TypeInv', NEW r \in Runners, DownStatement(r) \/ UpStatement(r),
         LocksRespected, UNCHANGED late, orphaned' = orphaned \cup Orphans
  PROVE  LateInv'
  <1> DEFINE M == {cur[r]}
  <1>1. /\ LateRunnerInv(r) /\ pc \in [Runners -> PCs] /\ cur[r] \in Ids /\ UniqueIds(ledger)
        /\ schema \in [Ids -> {"none", "partial", "applied"}]
    BY DEF LateInv, TypeInv, TypeOK
  <1>2. /\ pc[r] \in {"downStmts", "upStmts"}
        /\ UNCHANGED <<lock, ledger, excused, toRollback, toApply, cur>>
    BY DEF DownStatement, UpStatement, plan
  <1>3. PICK x \in {"downStmts", "deleteRow", "markFailed", "upStmts", "recordOk", "recordErr"} :
          pc' = [pc EXCEPT ![r] = x]
    BY <1>1 DEF DownStatement, UpStatement, Goto
  <1>4. \A k \in Ids \ M : schema'[k] = schema[k]
    BY <1>1 DEF DownStatement, UpStatement
  <1>5. LateRunnerInv(r)'
    <2>1. /\ StatementIds' = StatementIds /\ ArrivingIds' = ArrivingIds
          /\ UndoingIds' = UndoingIds /\ InsertIds' = InsertIds /\ orphaned \subseteq orphaned'
      BY SameWork
    <2>2. /\ pc[r] = "downStmts" => x \in {"downStmts", "deleteRow", "markFailed"}
          /\ pc[r] = "upStmts" => x \in {"upStmts", "recordOk", "recordErr"}
          /\ x = "deleteRow" => schema'[cur[r]] = "none"
          /\ x = "recordOk" => schema'[cur[r]] = "applied"
      BY <1>1, <1>2, <1>3 DEF DownStatement, UpStatement, Goto
    <2>3. pc'[r] = x
      BY <1>1, <1>3
    <2> QED BY <1>1, <1>2, <2>1, <2>2, <2>3
        DEF LateRunnerInv, Recorded, Busy, PCs, Past, Checked, ScriptWindow
  <1>6. pc[r] \in Busy /\ pc[r] \in Past
    BY <1>2 DEF Busy, PCs, Past, Checked, ScriptWindow
  <1>7. \A m \in M : TruthAt(m)' /\ FenceAt(m)'
    <2> SUFFICES ASSUME NEW m, m = cur[r] PROVE TruthAt(m)' /\ FenceAt(m)'
      OBVIOUS
    <2>1. InFlux(m)'
      BY <1>1, <1>2, <1>3 DEF InFlux, ScriptWindow
    <2>2. m \in StatementIds => m \in orphaned
      BY <1>1, <1>2, <1>6, ClearAhead
    <2> QED BY <2>1, <2>2, SameWork DEF TruthAt, FenceAt
  <1>8. cur[r] \in M /\ cur'[r] \in M
    BY <1>2
  <1> HIDE DEF M
  <1> QED BY <1>1, <1>2, <1>3, <1>4, <1>5, <1>6, <1>7, <1>8, HolderBeside

(***************************************************************************)
(* The holder has written the row of m and is out of m's script.  When the *)
(* row does not tell the truth m is excused or orphaned; when a statement  *)
(* of m is still on its way, the row says so.                              *)
(***************************************************************************)
LEMMA RowWrittenBeside ==
  ASSUME LateInv, TypeInv', NEW r \in Runners, pc[r] \in Busy, NEW m \in Ids,
         LocksRespected, UNCHANGED late, orphaned' = orphaned \cup Orphans,
         NEW x, x \notin ScriptWindow, pc' = [pc EXCEPT ![r] = x],
         \A q \in Runners : q # r => cur'[q] = cur[q],
         UniqueIds(ledger'), LateRunnerInv(r)', pc[r] \in ScriptWindow => cur[r] = m,
         \A k \in Ids \ {m} : /\ k \in excused => k \in excused'
                              /\ k \in RecordedIn(ledger') <=> k \in RecordedIn(ledger)
                              /\ k \in FailedIn(ledger') <=> k \in FailedIn(ledger)
                              /\ schema'[k] = schema[k],
         m \in excused' \cup orphaned' \/ Truthful(m, ledger', schema'),
         m \in StatementIds => m \in orphaned' \cup FailedIn(ledger')
  PROVE  LateInv'
  <1> DEFINE M == {m}
  <1>1. pc'[r] = x /\ \A q \in Runners : q # r => pc'[q] \in {"idle", "return"}
    BY AloneInside DEF LateInv, TypeInv, TypeOK
  <1>2. ~InFlux(m)'
    BY <1>1 DEF InFlux, ScriptWindow
  <1>3. m \in StatementIds => m \in orphaned \/ m \notin UndoingIds
    BY DEF LateInv, FenceAt
  <1>4. \A k \in M : TruthAt(k)' /\ FenceAt(k)'
    BY <1>2, <1>3, SameWork DEF TruthAt, FenceAt
  <1>5. (pc[r] \in ScriptWindow => cur[r] \in M) /\ (pc'[r] \in ScriptWindow => cur'[r] \in M)
    BY <1>1
  <1>6. \A k \in Ids \ M : /\ k \in excused => k \in excused'
                           /\ k \in RecordedIn(ledger') <=> k \in RecordedIn(ledger)
                           /\ k \in FailedIn(ledger') <=> k \in FailedIn(ledger)
                           /\ schema'[k] = schema[k]
    OBVIOUS
  <1> HIDE DEF M
  <1> QED BY <1>4, <1>5, <1>6, HolderBeside

\* What the holder knows of a migration whose script is not running.
LEMMA TruthWhenIdle ==
  ASSUME LateInv, NEW r \in Runners, pc[r] \in Busy, pc[r] \notin ScriptWindow, NEW m \in Ids
  PROVE  m \in excused \cup orphaned \/ Truthful(m, ledger, schema)
  <1>1. ~InFlux(m)
    BY AloneInside DEF InFlux, ScriptWindow
  <1> QED BY <1>1 DEF LateInv, TruthAt

\* A rollback, in one transaction or by the DELETE that follows the script.
LEMMA RollbackBeside ==
  ASSUME LateInv, TypeInv', NEW r \in Runners, DownTx(r) \/ DeleteRow(r),
         LocksRespected, UNCHANGED late, orphaned' = orphaned \cup Orphans
  PROVE  LateInv'
  <1> DEFINE m == cur[r]
  <1>1. /\ LateRunnerInv(r) /\ pc \in [Runners -> PCs] /\ m \in Ids /\ UniqueIds(ledger)
        /\ ledger \in Seq(Row) /\ schema \in [Ids -> {"none", "partial", "applied"}]
        /\ toRollback \in [Runners -> SUBSET Ids]
    BY DEF LateInv, TypeInv, TypeOK
  <1>2. /\ pc[r] \in {"downTx", "deleteRow"} /\ UNCHANGED <<lock, cur, toApply>>
        /\ toRollback'[r] \subseteq toRollback[r]
    BY <1>1 DEF DownTx, DeleteRow, Bookkeeping, RolledBackOne, plan
  <1>3. pc[r] \in Busy /\ pc[r] \in Past /\ pc[r] \in Checked
    BY <1>2 DEF Busy, PCs, Past, Checked, ScriptWindow
  <1>4. /\ StatementIds \subseteq orphaned
        /\ toRollback[r] \cap IrreversibleIn(ledger) \subseteq orphaned
        /\ m \in toRollback[r] /\ lock = r
        /\ toRollback[r] \cap ArrivingIds = {} /\ toRollback[r] \cap InsertIds \subseteq orphaned
        /\ toApply[r] \cap UndoingIds = {}
        /\ pc[r] = "deleteRow" => schema[m] = "none" \/ m \in orphaned
    BY <1>1, <1>2, <1>3 DEF LateRunnerInv
  <1>5. ledger' = ledger \/ ledger' = Delete(ledger, m)
    BY DEF DownTx, DeleteRow, Bookkeeping
  <1>6. /\ UniqueIds(ledger') /\ IrreversibleIn(ledger') \subseteq IrreversibleIn(ledger)
        /\ \A k \in Ids \ {m} : /\ k \in RecordedIn(ledger') <=> k \in RecordedIn(ledger)
                                /\ k \in FailedIn(ledger') <=> k \in FailedIn(ledger)
    BY <1>1, <1>5, DeleteFacts
  <1>7. \A k \in Ids \ {m} : /\ k \in excused => k \in excused'
                             /\ k \in RecordedIn(ledger') <=> k \in RecordedIn(ledger)
                             /\ k \in FailedIn(ledger') <=> k \in FailedIn(ledger)
                             /\ schema'[k] = schema[k]
    <2>1. \A k \in Ids \ {m} : schema'[k] = schema[k] /\ (k \in excused => k \in excused')
      BY <1>1 DEF DownTx, DeleteRow, Bookkeeping
    <2> QED BY <1>6, <2>1
  <1>8. PICK x \in {"execute", "return"} : pc' = [pc EXCEPT ![r] = x]
    BY DEF DownTx, DeleteRow, RolledBackOne, Goto, Return
  <1>9. LateRunnerInv(r)'
    <2>1. /\ StatementIds' = StatementIds /\ ArrivingIds' = ArrivingIds
          /\ UndoingIds' = UndoingIds /\ InsertIds' = InsertIds /\ orphaned \subseteq orphaned'
      BY SameWork
    <2>2. pc'[r] = x
      BY <1>1, <1>8
    <2> QED BY <1>2, <1>4, <1>6, <2>1, <2>2 DEF LateRunnerInv, Busy, Past, Checked, ScriptWindow
  <1>10. m \in StatementIds => m \in orphaned' \cup FailedIn(ledger')
    BY <1>4
  <1>11. m \in excused' \cup orphaned' \/ Truthful(m, ledger', schema')
    <2>1. CASE DownTx(r) /\ UNCHANGED <<ledger, schema, excused>>
      <3>1. pc[r] \notin ScriptWindow
        BY <2>1 DEF DownTx, ScriptWindow
      <3> QED BY <1>1, <1>3, <2>1, <3>1, TruthWhenIdle
    <2>2. CASE /\ ledger' = Delete(ledger, m)
               /\ \/ pc[r] = "downTx" /\ schema' = IF m \in IrreversibleIn(ledger) THEN schema
                                                    ELSE [schema EXCEPT ![m] = "none"]
                  \/ pc[r] = "deleteRow" /\ schema' = schema
      <3>1. m \notin RecordedIn(ledger')
        BY <1>1, <2>2, DeleteFacts
      <3>2. schema'[m] = "none" \/ m \in orphaned
        BY <1>1, <1>4, <2>2
      <3> QED BY <3>1, <3>2 DEF Truthful
    <2>3. CASE m \in excused'
      BY <2>3
    <2>4. \/ DownTx(r) /\ UNCHANGED <<ledger, schema, excused>>
          \/ /\ ledger' = Delete(ledger, m)
             /\ \/ pc[r] = "downTx" /\ schema' = IF m \in IrreversibleIn(ledger) THEN schema
                                                  ELSE [schema EXCEPT ![m] = "none"]
                \/ pc[r] = "deleteRow" /\ schema' = schema
          \/ m \in excused'
      BY DEF DownTx, DeleteRow, Bookkeeping
    <2> QED BY <2>1, <2>2, <2>3, <2>4
  <1>12. x \notin ScriptWindow /\ (pc[r] \in ScriptWindow => cur[r] = m)
         /\ \A q \in Runners : q # r => cur'[q] = cur[q]
    BY <1>2 DEF ScriptWindow
  <1> HIDE DEF m
  <1> QED BY <1>1, <1>3, <1>6, <1>7, <1>8, <1>9, <1>10, <1>11, <1>12, RowWrittenBeside

\* The failed rollback is marked in its row, or reported as unrecorded.
LEMMA MarkFailedBeside ==
  ASSUME LateInv, TypeInv', NEW r \in Runners, MarkFailed(r),
         LocksRespected, UNCHANGED late, orphaned' = orphaned \cup Orphans
  PROVE  LateInv'
  <1> DEFINE m == cur[r]
  <1>1. /\ LateRunnerInv(r) /\ pc \in [Runners -> PCs] /\ m \in Ids /\ UniqueIds(ledger)
        /\ ledger \in Seq(Row)
    BY DEF LateInv, TypeInv, TypeOK
  <1>2. /\ pc[r] = "markFailed" /\ pc[r] \in Busy /\ UNCHANGED <<schema, cur>>
        /\ pc' = [pc EXCEPT ![r] = "return"]
    BY DEF MarkFailed, Bookkeeping, Return, Busy, PCs
  <1>3. m \in RecordedIn(ledger) \/ m \in orphaned
    BY <1>1, <1>2 DEF LateRunnerInv, Recorded
  <1>4. \/ ledger' = ledger /\ excused' = excused \cup {m}
        \/ ledger' = MarkError(ledger, m) /\ excused' = excused \ {m}
    BY DEF MarkFailed, Bookkeeping
  <1>5. m \notin RecordedIn(ledger) => MarkError(ledger, m) = ledger
    <2> SUFFICES ASSUME m \notin RecordedIn(ledger) PROVE MarkError(ledger, m) = ledger
      OBVIOUS
    <2>1. \A k \in DOMAIN ledger : ledger[k].id # m
      BY DEF RecordedIn, ToSet
    <2>2. MarkError(ledger, m) = [k \in DOMAIN ledger |-> ledger[k]]
      BY <2>1 DEF MarkError
    <2> QED BY <1>1, <2>2
  <1> HIDE DEF m
  <1>6. /\ UniqueIds(ledger') /\ RecordedIn(ledger') = RecordedIn(ledger)
        /\ \A k \in Ids \ {m} : k \in FailedIn(ledger') <=> k \in FailedIn(ledger)
        /\ m \in excused' \/ m \in FailedIn(ledger') \/ m \in orphaned
    <2>1. CASE m \in RecordedIn(ledger)
      BY <1>1, <1>4, <2>1, MarkErrorFacts
    <2>2. CASE m \notin RecordedIn(ledger)
      BY <1>1, <1>3, <1>4, <1>5, <2>2
    <2> QED BY <2>1, <2>2
  <1>7. m \in excused' \cup orphaned' \/ Truthful(m, ledger', schema')
    BY <1>6, FailedIsRecorded DEF Truthful
  <1>8. m \in StatementIds => m \in orphaned' \cup FailedIn(ledger')
    BY <1>6, OrphansFacts
  <1>9. LateRunnerInv(r)'
    BY <1>1, <1>2, OutsideKnowsNothing
  <1>10. \A k \in Ids \ {m} : k \in excused => k \in excused'
    BY <1>4
  <1>11. "return" \notin ScriptWindow /\ (pc[r] \in ScriptWindow => cur[r] = m)
    BY DEF ScriptWindow, m
  <1> QED BY <1>1, <1>2, <1>6, <1>7, <1>8, <1>9, <1>10, <1>11, RowWrittenBeside

\* The row of a call's source, as the call writes it.
LEMMA OwnRow ==
  ASSUME TypeInv, NEW r \in Runners, NEW m \in toApply[r], NEW err \in BOOLEAN
  PROVE  /\ RowOf(call[r].src, m, err) \in Row /\ m \in Ids
         /\ RowOf(call[r].src, m, err).id = m /\ RowOf(call[r].src, m, err).err = err
  <1>1. call[r].src \in Sources /\ m \in DOMAIN call[r].src /\ m \in Ids
    BY TypeFacts
  <1> QED BY <1>1, RowOfType DEF RowOf

\* An application in one transaction.
LEMMA ApplyTxBeside ==
  ASSUME LateInv, TypeInv', NEW r \in Runners, NEW m \in Ids, ApplyTx(r, m),
         LocksRespected, UNCHANGED late, orphaned' = orphaned \cup Orphans
  PROVE  LateInv'
  <1> DEFINE row == RowOf(call[r].src, m, FALSE)
  <1>1. /\ LateRunnerInv(r) /\ pc \in [Runners -> PCs] /\ UniqueIds(ledger)
        /\ ledger \in Seq(Row) /\ schema \in [Ids -> {"none", "partial", "applied"}]
        /\ cur \in [Runners -> Ids] /\ toApply \in [Runners -> SUBSET Ids]
    BY DEF LateInv, TypeInv, TypeOK
  <1>2. /\ pc[r] = "execute" /\ UNCHANGED lock /\ toRollback[r] = {} /\ toRollback'[r] = {}
        /\ m \in toApply[r] /\ cur' = [cur EXCEPT ![r] = m] /\ toApply'[r] \subseteq toApply[r]
    BY <1>1 DEF ApplyTx, NextToApply, AppliedOne, plan
  <1>3. pc[r] \in Busy /\ pc[r] \in Past /\ pc[r] \in Checked /\ pc[r] \notin ScriptWindow
    BY <1>2 DEF Busy, PCs, Past, Checked, ScriptWindow
  <1>4. StatementIds \subseteq orphaned /\ lock = r /\ toApply[r] \cap UndoingIds = {}
    BY <1>1, <1>2, <1>3 DEF LateRunnerInv
  <1>5. row \in Row /\ row.id = m /\ row.err = FALSE
    BY <1>2, OwnRow DEF LateInv
  <1>6. PICK x \in {"execute", "return"} : pc' = [pc EXCEPT ![r] = x]
    BY DEF ApplyTx, AppliedOne, Goto, Return
  <1>7. \/ UNCHANGED <<ledger, schema, excused>>
        \/ /\ m \notin RecordedIn(ledger) /\ ledger' = Insert(ledger, row)
           /\ schema' = [schema EXCEPT ![m] = "applied"] /\ excused' = excused \ {m}
    BY DEF ApplyTx, Recorded
  <1> HIDE DEF row
  <1>8. /\ UniqueIds(ledger')
        /\ \A k \in Ids \ {m} : /\ k \in excused => k \in excused'
                                /\ k \in RecordedIn(ledger') <=> k \in RecordedIn(ledger)
                                /\ k \in FailedIn(ledger') <=> k \in FailedIn(ledger)
                                /\ schema'[k] = schema[k]
    BY <1>1, <1>5, <1>7, InsertFacts
  <1>9. LateRunnerInv(r)'
    <2>1. /\ StatementIds' = StatementIds /\ ArrivingIds' = ArrivingIds
          /\ UndoingIds' = UndoingIds /\ InsertIds' = InsertIds /\ orphaned \subseteq orphaned'
      BY SameWork
    <2>2. pc'[r] = x
      BY <1>1, <1>6
    <2> QED BY <1>2, <1>4, <2>1, <2>2 DEF LateRunnerInv, Busy, Past, Checked, ScriptWindow
  <1>10. m \in StatementIds => m \in orphaned' \cup FailedIn(ledger')
    BY <1>4
  <1>11. m \in excused' \cup orphaned' \/ Truthful(m, ledger', schema')
    <2>1. CASE UNCHANGED <<ledger, schema, excused>>
      BY <1>3, <2>1, TruthWhenIdle
    <2>2. CASE /\ m \notin RecordedIn(ledger) /\ ledger' = Insert(ledger, row)
               /\ schema' = [schema EXCEPT ![m] = "applied"]
      <3>1. RecordedIn(ledger') = RecordedIn(ledger) \cup {m}
        BY <1>1, <1>5, <2>2, InsertFacts
      <3> QED BY <1>1, <2>2, <3>1 DEF Truthful
    <2> QED BY <1>7, <2>1, <2>2
  <1>12. x \notin ScriptWindow /\ \A q \in Runners : q # r => cur'[q] = cur[q]
    BY <1>1, <1>2 DEF ScriptWindow
  <1> QED BY <1>3, <1>6, <1>8, <1>9, <1>10, <1>11, <1>12, RowWrittenBeside

\* The row that follows a notransaction up script, failed or not.
LEMMA RecordUpBeside ==
  ASSUME LateInv, TypeInv', NEW r \in Runners, RecordUp(r),
         LocksRespected, UNCHANGED late, orphaned' = orphaned \cup Orphans
  PROVE  LateInv'
  <1> DEFINE m == cur[r]
             row == RowOf(call[r].src, m, pc[r] = "recordErr")
  <1>1. /\ LateRunnerInv(r) /\ pc \in [Runners -> PCs] /\ UniqueIds(ledger)
        /\ ledger \in Seq(Row) /\ m \in Ids /\ toApply \in [Runners -> SUBSET Ids]
    BY DEF LateInv, TypeInv, TypeOK
  <1>2. /\ pc[r] \in {"recordOk", "recordErr"} /\ UNCHANGED <<lock, schema, cur>>
        /\ toApply'[r] \subseteq toApply[r] /\ toRollback' = toRollback
    BY <1>1 DEF RecordUp, Bookkeeping, AppliedOne, plan
  <1>3. pc[r] \in Busy /\ pc[r] \in Past /\ pc[r] \in Checked
    BY <1>2 DEF Busy, PCs, Past, Checked, ScriptWindow
  <1>4. /\ pc[r] = "recordOk" => StatementIds \subseteq orphaned
        /\ toRollback[r] = {} /\ lock = r /\ toApply[r] \cap UndoingIds = {}
        /\ pc[r] = "recordOk" => schema[m] = "applied" \/ m \in orphaned
    BY <1>1, <1>2, <1>3 DEF LateRunnerInv
  <1>5. row \in Row /\ row.id = m /\ row.err = (pc[r] = "recordErr")
    <2>1. m \in toApply[r]
      BY <1>2 DEF LateInv, TypeInv, SourceInv
    <2> QED BY <2>1, OwnRow DEF LateInv
  <1>6. PICK x \in {"execute", "return"} :
          pc' = [pc EXCEPT ![r] = x] /\ (x = "execute" => pc[r] # "recordErr")
    BY DEF RecordUp, AppliedOne, Goto, Return
  <1>7. \/ ledger' = ledger /\ excused' = excused \cup {m}
        \/ /\ m \notin RecordedIn(ledger) /\ ledger' = Insert(ledger, row)
           /\ excused' = excused \ {m}
    BY DEF RecordUp, Bookkeeping, Recorded
  <1>8. pc[r] \in ScriptWindow => cur[r] = m
    OBVIOUS
  <1> HIDE DEF row, m
  <1>9. /\ UniqueIds(ledger')
        /\ \A k \in Ids \ {m} : /\ k \in excused => k \in excused'
                                /\ k \in RecordedIn(ledger') <=> k \in RecordedIn(ledger)
                                /\ k \in FailedIn(ledger') <=> k \in FailedIn(ledger)
                                /\ schema'[k] = schema[k]
    BY <1>1, <1>2, <1>5, <1>7, InsertFacts
  <1>10. LateRunnerInv(r)'
    <2>1. /\ StatementIds' = StatementIds /\ ArrivingIds' = ArrivingIds
          /\ UndoingIds' = UndoingIds /\ InsertIds' = InsertIds /\ orphaned \subseteq orphaned'
      BY SameWork
    <2>2. pc'[r] = x /\ (x = "execute" => pc[r] = "recordOk")
      BY <1>1, <1>2, <1>6
    <2> QED BY <1>2, <1>4, <2>1, <2>2 DEF LateRunnerInv, Busy, Past, Checked, ScriptWindow
  <1>11. x \notin ScriptWindow
    BY DEF ScriptWindow
  <1>12. CASE ledger' = ledger /\ excused' = excused \cup {m}
    <2>1. m \in StatementIds => m \in orphaned'
      BY <1>12, OrphansFacts
    <2>2. m \in excused'
      BY <1>12
    <2> QED BY <1>1, <1>2, <1>3, <1>6, <1>8, <1>9, <1>10, <1>11, <2>1, <2>2, RowWrittenBeside
  <1>13. CASE /\ m \notin RecordedIn(ledger) /\ ledger' = Insert(ledger, row)
              /\ excused' = excused \ {m}
    <2>1. /\ RecordedIn(ledger') = RecordedIn(ledger) \cup {m}
          /\ pc[r] = "recordErr" => m \in FailedIn(ledger')
      BY <1>1, <1>5, <1>13, InsertFacts
    <2>2. m \in excused' \cup orphaned' \/ Truthful(m, ledger', schema')
      BY <1>2, <1>4, <2>1 DEF Truthful
    <2>3. m \in StatementIds => m \in orphaned' \cup FailedIn(ledger')
      BY <1>2, <1>4, <2>1
    <2> QED BY <1>1, <1>2, <1>3, <1>6, <1>8, <1>9, <1>10, <1>11, <2>2, <2>3, RowWrittenBeside
  <1> QED BY <1>7, <1>12, <1>13

\* Forget takes the row away, and the late statement's fence with it.
LEMMA ForgetBeside ==
  ASSUME LateInv, TypeInv', NEW r \in Runners, Forget(r),
         LocksRespected, UNCHANGED late, orphaned' = orphaned \cup Orphans
  PROVE  LateInv'
  <1> DEFINE m == call[r].id
  <1>1. /\ pc \in [Runners -> PCs] /\ UniqueIds(ledger) /\ ledger \in Seq(Row)
        /\ schema \in [Ids -> {"none", "partial", "applied"}] /\ m \in Ids
    BY TypeFacts DEF LateInv, TypeInv, TypeOK
  <1>2. /\ pc[r] = "forget" /\ pc[r] \in Busy /\ pc[r] \notin ScriptWindow
        /\ UNCHANGED <<schema, cur>> /\ pc' = [pc EXCEPT ![r] = "return"]
        /\ "return" \notin ScriptWindow
    BY DEF Forget, Busy, PCs, ScriptWindow, Return
  <1>3. LateRunnerInv(r)' /\ pc'[r] # "forget"
    BY <1>1, <1>2, OutsideKnowsNothing
  <1>4. \/ UNCHANGED <<ledger, excused>>
        \/ /\ ledger' = Delete(ledger, m) /\ m \in Recorded
           /\ excused' = IF schema[m] = "none" THEN excused \ {m} ELSE excused \cup {m}
    BY DEF Forget
  <1> HIDE DEF m
  <1>5. CASE UNCHANGED <<ledger, excused>>
    BY <1>2, <1>3, <1>5, QuietBeside
  <1>6. CASE /\ ledger' = Delete(ledger, m) /\ m \in Recorded
             /\ excused' = IF schema[m] = "none" THEN excused \ {m} ELSE excused \cup {m}
    <2>1. /\ UniqueIds(ledger') /\ RecordedIn(ledger') = RecordedIn(ledger) \ {m}
          /\ FailedIn(ledger') = FailedIn(ledger) \ {m}
      BY <1>1, <1>6, DeleteFacts
    <2>2. m \in excused' \cup orphaned' \/ Truthful(m, ledger', schema')
      BY <1>2, <1>6, <2>1 DEF Truthful
    <2>3. \A k \in Ids \ {m} : k \in excused => k \in excused'
      BY <1>6
    <2>4. m \in StatementIds => m \in orphaned' \cup FailedIn(ledger')
      BY <1>2, <1>3, <1>6, <2>1, OrphansFacts DEF Recorded
    <2> QED BY <1>1, <1>2, <1>3, <2>1, <2>2, <2>3, <2>4, RowWrittenBeside
  <1> QED BY <1>4, <1>5, <1>6

\* The rows of a Baseline.
LEMMA BaselineRows ==
  ASSUME TypeInv, NEW r \in Runners, NEW s \in Slices(toApply[r])
  PROVE  LET more == [k \in DOMAIN s |-> RowOf(call[r].src, s[k], FALSE)] IN
         /\ more \in Seq(Row) /\ UniqueIds(more)
         /\ RecordedIn(more) = toApply[r] /\ FailedIn(more) = {}
  <1> DEFINE more == [k \in DOMAIN s |-> RowOf(call[r].src, s[k], FALSE)]
             M == toApply[r]
  <1>1. call[r].src \in Sources /\ M \in SUBSET DOMAIN call[r].src
    BY TypeFacts
  <1>2. more \in Seq(Row)
    BY <1>1, SliceType
  <1>3. /\ << >> \o more = more /\ UniqueIds(<< >> \o more)
        /\ RecordedIn(<< >> \o more) = M /\ FailedIn(<< >> \o more) = {}
    BY <1>1, AdoptFacts
  <1> HIDE DEF more, M
  <1>4. more \in Seq(Row) /\ UniqueIds(more) /\ RecordedIn(more) = M /\ FailedIn(more) = {}
    BY <1>2, <1>3
  <1> QED BY <1>4 DEF more, M

\* Baseline's rows enter together.  An earlier COMMIT may have landed since the
\* ledger was found empty; the primary key stops a second row.
LEMMA RecordAppliedBeside ==
  ASSUME LateInv, TypeInv', NEW r \in Runners, RecordApplied(r),
         LocksRespected, UNCHANGED late, orphaned' = orphaned \cup Orphans
  PROVE  LateInv'
  <1> DEFINE M == toApply[r]
  <1>1. /\ pc \in [Runners -> PCs] /\ UniqueIds(ledger) /\ ledger \in Seq(Row)
    BY DEF LateInv, TypeInv, TypeOK
  <1>2. /\ pc[r] = "recordAll" /\ pc[r] \in Busy /\ pc[r] \notin ScriptWindow
        /\ UNCHANGED <<schema, cur>> /\ pc' = [pc EXCEPT ![r] = "return"]
        /\ "return" \notin ScriptWindow
    BY DEF RecordApplied, Busy, PCs, ScriptWindow, Return
  <1>3. LateRunnerInv(r)'
    BY <1>1, <1>2, OutsideKnowsNothing
  <1>4. CASE UNCHANGED <<ledger, excused>>
    BY <1>2, <1>3, <1>4, QuietBeside
  <1>5. ASSUME NEW s \in Slices(M), M \cap Recorded = {},
               ledger' = ledger \o [k \in DOMAIN s |-> RowOf(call[r].src, s[k], FALSE)],
               excused' = (excused \ M) \cup {m \in M : schema[m] # "applied"}
        PROVE  LateInv'
    <2> DEFINE more == [k \in DOMAIN s |-> RowOf(call[r].src, s[k], FALSE)]
    <2>1. M \subseteq Ids
      BY TypeFacts DEF LateInv
    <2>2. more \in Seq(Row) /\ UniqueIds(more) /\ RecordedIn(more) = M /\ FailedIn(more) = {}
      BY <1>5, BaselineRows DEF LateInv
    <2>3. ledger' = ledger \o more
      BY <1>5
    <2> HIDE DEF more
    <2>4. /\ UniqueIds(ledger') /\ RecordedIn(ledger') = RecordedIn(ledger) \cup M
          /\ FailedIn(ledger') = FailedIn(ledger)
      <3>1. RecordedIn(ledger) \cap RecordedIn(more) = {}
        BY <1>5, <2>2 DEF Recorded
      <3> HIDE DEF M
      <3>2. /\ UniqueIds(ledger \o more)
            /\ RecordedIn(ledger \o more) = RecordedIn(ledger) \cup RecordedIn(more)
            /\ FailedIn(ledger \o more) = FailedIn(ledger) \cup FailedIn(more)
        BY <1>1, <2>2, <3>1, ConcatFacts
      <3> QED BY <2>2, <2>3, <3>2
    <2>5. \A m \in M : TruthAt(m)'
      BY <1>2, <1>5, <2>4 DEF TruthAt, Truthful
    <2>6. ASSUME NEW m \in M PROVE FenceAt(m)'
      <3>1. m \notin FailedIn(ledger)
        BY <1>5, FailedIsRecorded DEF Recorded
      <3>2. ~Recording(m)
        BY <1>2, AloneInside DEF Recording
      <3>3. m \in StatementIds => m \in orphaned
        BY <2>1, <3>1, <3>2 DEF LateInv, FenceAt
      <3> QED BY <3>3, SameWork DEF FenceAt
    <2>7. \A k \in Ids \ M : k \in excused => k \in excused'
      BY <1>5
    <2>8. pc'[r] \notin ScriptWindow
      BY <1>1, <1>2
    <2> HIDE DEF M
    <2> QED BY <1>2, <1>3, <2>4, <2>5, <2>6, <2>7, <2>8, HolderBeside
  <1>6. \/ UNCHANGED <<ledger, excused>>
        \/ /\ excused' = (excused \ M) \cup {m \in M : schema[m] # "applied"}
           /\ M \cap Recorded = {}
           /\ \E s \in Slices(M) :
                ledger' = ledger \o [k \in DOMAIN s |-> RowOf(call[r].src, s[k], FALSE)]
    BY DEF RecordApplied
  <1> QED BY <1>4, <1>5, <1>6
-----------------------------------------------------------------------------
\* Steps of those who do not hold the lock.

\* What q knows stays true while q's own state, the database and the server's
\* work stay as they are.
LEMMA BystanderBeside ==
  ASSUME NEW q \in Runners, LateRunnerInv(q), UNCHANGED <<ledger, schema, late>>,
         pc'[q] = pc[q], cur'[q] = cur[q], toRollback'[q] = toRollback[q], toApply'[q] = toApply[q],
         lock = q => lock' = q, orphaned \subseteq orphaned'
  PROVE  LateRunnerInv(q)'
  <1>1. TxRow(cur[q]) => TxRow(cur[q])'
    BY DEF TxRow
  <1> QED BY <1>1, SameWork DEF LateRunnerInv, Recorded

\* Nobody is inside withLock while nobody holds the lock.
LEMMA NobodyInside ==
  ASSUME LateInv, lock = None
  PROVE  \A q \in Runners : pc[q] \in {"idle", "return"}
  <1>1. \A q \in Runners : pc[q] \in PCs /\ pc[q] \notin Busy
    BY NoneAssumption DEF LateInv, TypeInv, TypeOK, LateRunnerInv
  <1> QED BY <1>1 DEF Busy

\* The lock is taken.
LEMMA BeginBeside ==
  ASSUME LateInv, TypeInv', NEW r \in Runners, NEW c \in Calls, Begin(r, c),
         LocksRespected, UNCHANGED late, orphaned' = orphaned \cup Orphans
  PROVE  LateInv'
  <1>1. /\ UNCHANGED <<ledger, schema, excused, cur>> /\ lock' = r /\ lock = None
        /\ \E x \in {"forget", "ensure"} : pc' = [pc EXCEPT ![r] = x]
    BY DEF Begin, Goto, database
  <1>2. \A q \in Runners : pc[q] \in {"idle", "return"}
    BY <1>1, NobodyInside
  <1>3. \A q \in Runners : \/ pc'[q] \in {"idle", "return"}
                           \/ q = r /\ pc'[q] \in {"forget", "ensure"}
    <2>1. pc \in [Runners -> PCs]
      BY DEF LateInv, TypeInv, TypeOK
    <2>2. PICK x \in {"forget", "ensure"} : pc' = [pc EXCEPT ![r] = x]
      BY <1>1
    <2>3. \A q \in Runners : pc'[q] = IF q = r THEN x ELSE pc[q]
      BY <2>1, <2>2
    <2> QED BY <1>2, <2>3
  <1>4. \A q \in Runners : LateRunnerInv(q)'
    BY <1>1, <1>3 DEF LateRunnerInv, Busy, Past, Checked, ScriptWindow
  <1>5. \A k : ~InFlux(k) /\ ~InFlux(k)' /\ ~Recording(k)
    BY <1>2, <1>3 DEF InFlux, Recording, ScriptWindow
  <1>6. \A k \in Ids : TruthAt(k)' /\ FenceAt(k)'
    BY <1>1, <1>5, SameWork DEF LateInv, TruthAt, FenceAt, Truthful
  <1>7. \A w \in late' : WorkInv(w)'
    BY WorkStays
  <1> QED BY <1>1, <1>4, <1>6, <1>7, OrphansType DEF LateInv

\* A Plan beside a running call, and a call that returns.
LEMMA ReturnBeside ==
  ASSUME LateInv, TypeInv', NEW r \in Runners,
         ReleaseLock(r) \/ \E c \in Calls : PlanOnly(r, c),
         LocksRespected, UNCHANGED late, orphaned' = orphaned \cup Orphans
  PROVE  LateInv'
  <1>1. /\ UNCHANGED <<ledger, schema, excused>> /\ pc[r] \in {"idle", "return"}
        /\ \E x \in {"idle", "return"} : pc' = [pc EXCEPT ![r] = x]
        /\ lock # r => lock' = lock
    BY DEF ReleaseLock, Reset, Unlock, PlanOnly, Return, database
  <1>2. /\ cur \in [Runners -> Ids] /\ toRollback \in [Runners -> SUBSET Ids]
        /\ toApply \in [Runners -> SUBSET Ids] /\ pc \in [Runners -> PCs]
    BY DEF LateInv, TypeInv, TypeOK
  <1>3. /\ \E S : toRollback' = [toRollback EXCEPT ![r] = S]
        /\ \E S : toApply' = [toApply EXCEPT ![r] = S]
        /\ \E m : cur' = [cur EXCEPT ![r] = m]
    <2>1. CASE ReleaseLock(r)
      BY <2>1 DEF ReleaseLock, Reset
    <2>2. ASSUME NEW c \in Calls, PlanOnly(r, c)
          PROVE  /\ \E S : toRollback' = [toRollback EXCEPT ![r] = S]
                 /\ \E S : toApply' = [toApply EXCEPT ![r] = S]
                 /\ \E m : cur' = [cur EXCEPT ![r] = m]
      <3>1. UNCHANGED <<cur, toRollback, toApply>>
        BY <2>2 DEF PlanOnly, plan
      <3>2. /\ cur' = [cur EXCEPT ![r] = cur[r]]
            /\ toRollback' = [toRollback EXCEPT ![r] = toRollback[r]]
            /\ toApply' = [toApply EXCEPT ![r] = toApply[r]]
        BY <1>2, <3>1
      <3> QED BY <3>2
    <2> QED BY <2>1, <2>2
  <1>4. \A q \in Runners : q # r => /\ cur'[q] = cur[q] /\ toRollback'[q] = toRollback[q]
                                    /\ toApply'[q] = toApply[q] /\ pc'[q] = pc[q]
    BY <1>1, <1>2, <1>3
  <1>5. ASSUME NEW q \in Runners, q # r PROVE LateRunnerInv(q)'
    BY <1>1, <1>4, <1>5, BystanderBeside DEF LateInv
  <1>6. pc'[r] \in {"idle", "return"} /\ LateRunnerInv(r)'
    BY <1>1, <1>2, OutsideKnowsNothing
  <1>7. \A k : (InFlux(k)' <=> InFlux(k)) /\ (Recording(k)' <=> Recording(k))
    BY <1>1, <1>4, <1>6 DEF InFlux, Recording, ScriptWindow
  <1>8. \A k \in Ids : TruthAt(k)' /\ FenceAt(k)'
    BY <1>1, <1>7, SameWork DEF LateInv, TruthAt, FenceAt, Truthful
  <1>9. \A w \in late' : WorkInv(w)'
    BY WorkStays
  <1> QED BY <1>1, <1>5, <1>6, <1>8, <1>9, OrphansType DEF LateInv

\* An operator brings a schema into order that no call is working on.
LEMMA RepairBeside ==
  ASSUME LateInv, TypeInv', NEW m \in Ids, Repair(m),
         LocksRespected, UNCHANGED late, orphaned' = orphaned \cup Orphans
  PROVE  LateInv'
  <1>1. /\ UNCHANGED <<ledger, excused, pc, cur>> /\ m \in FailedIn(ledger) \cup excused
        /\ \A k \in Ids : k # m => schema'[k] = schema[k]
    BY DEF Repair, LateInv, TypeInv, TypeOK
  <1>2. \A q \in Runners : pc'[q] \in {"idle", "return"}
    BY <1>1, NobodyInside DEF Repair
  <1>3. \A q \in Runners : LateRunnerInv(q)'
    BY <1>2, OutsideKnowsNothing
  <1>4. \A k : (InFlux(k)' <=> InFlux(k)) /\ (Recording(k)' <=> Recording(k))
    BY <1>1 DEF InFlux, Recording
  <1>5. m \in RecordedIn(ledger) \/ m \in excused
    BY <1>1, FailedIsRecorded
  <1>6. \A k \in Ids : TruthAt(k)'
    BY <1>1, <1>4, <1>5 DEF LateInv, TruthAt, Truthful
  <1>7. \A k \in Ids : FenceAt(k)'
    BY <1>1, <1>4, SameWork DEF LateInv, FenceAt
  <1>8. \A w \in late' : WorkInv(w)'
    BY WorkStays
  <1> QED BY <1>1, <1>3, <1>6, <1>7, <1>8, OrphansType DEF LateInv
-----------------------------------------------------------------------------
\* Calls that leave work to the server, and calls that die.

\* What the server may be working on for r, by where r's call is.
LEMMA SentFacts ==
  ASSUME LateInv, NEW r \in Runners, NEW w \in Sent(r)
  PROVE  /\ w \in Work /\ pc[r] \in Busy
         /\ w.kind = "statement" => pc[r] \in {"upStmts", "downStmts"} /\ w.id = cur[r]
         /\ w.kind = "insert" => /\ pc[r] \in {"recordOk", "recordErr"} /\ w.id = cur[r]
                                 /\ cur[r] \notin Recorded /\ w.row.err = (pc[r] = "recordErr")
         /\ w.kind = "mark" => pc[r] = "markFailed" /\ w.id = cur[r]
         /\ w.kind = "delete" => pc[r] = "deleteRow" /\ w.id = cur[r]
         /\ w.kind = "forget" => pc[r] = "forget"
         /\ w.kind = "applying" => pc[r] = "execute" /\ w.id \notin Recorded
         /\ w.kind = "undoing" => pc[r] = "downTx" /\ w.id = cur[r] /\ w.id \in Recorded
         /\ w.kind = "rowless" => pc[r] = "downTx"
         /\ w.kind = "adopting" => pc[r] = "recordAll" /\ RecordedIn(w.rows) \cap Recorded = {}
  <1>1. pc[r] \in PCs /\ cur[r] \in Ids /\ TypeInv /\ call[r].id \in Ids
    BY TypeFacts DEF LateInv, TypeInv, TypeOK
  <1>2. CASE pc[r] \in {"upStmts", "downStmts"}
    <2>1. \/ w = [kind |-> "statement", id |-> cur[r], to |-> "applied"]
          \/ w = [kind |-> "statement", id |-> cur[r], to |-> "none"]
      BY <1>2 DEF Sent
    <2> QED BY <1>1, <1>2, <2>1 DEF Work, Busy, PCs
  <1>3. CASE pc[r] \in {"recordOk", "recordErr"}
    <2> DEFINE row == RowOf(call[r].src, cur[r], pc[r] = "recordErr")
    <2>1. w = [kind |-> "insert", id |-> cur[r], row |-> row] /\ cur[r] \notin Recorded
      BY <1>3 DEF Sent
    <2>2. cur[r] \in toApply[r]
      BY <1>1, <1>3 DEF TypeInv, SourceInv
    <2>3. row \in Row /\ row.id = cur[r] /\ row.err = (pc[r] = "recordErr")
      BY <1>1, <2>2, OwnRow
    <2> HIDE DEF row
    <2>4. w \in Work
      BY <1>1, <2>1, <2>3 DEF Work
    <2> QED BY <1>3, <2>1, <2>3, <2>4 DEF Busy, PCs
  <1>4. CASE pc[r] = "markFailed"
    <2>1. w = [kind |-> "mark", id |-> cur[r]]
      BY <1>4 DEF Sent
    <2> QED BY <1>1, <1>4, <2>1 DEF Work, Busy, PCs
  <1>5. CASE pc[r] = "deleteRow"
    <2>1. w = [kind |-> "delete", id |-> cur[r]]
      BY <1>5 DEF Sent
    <2> QED BY <1>1, <1>5, <2>1 DEF Work, Busy, PCs
  <1>6. CASE pc[r] = "forget"
    <2>1. w = [kind |-> "forget", id |-> call[r].id]
      BY <1>6 DEF Sent
    <2> QED BY <1>1, <1>6, <2>1 DEF Work, Busy, PCs
  <1>7. CASE pc[r] = "execute"
    <2>1. PICK k \in toApply[r] \ Recorded :
            w = [kind |-> "applying", id |-> k, row |-> RowOf(call[r].src, k, FALSE)]
      BY <1>7 DEF Sent
    <2> DEFINE row == RowOf(call[r].src, k, FALSE)
    <2>2. row \in Row /\ k \in Ids /\ row.id = k /\ row.err = FALSE
      BY <1>1, OwnRow
    <2>3. w = [kind |-> "applying", id |-> k, row |-> row]
      BY <2>1
    <2> HIDE DEF row
    <2> QED BY <1>7, <2>2, <2>3 DEF Work, Busy, PCs
  <1>8. CASE pc[r] = "downTx"
    <2>1. \/ w = [kind |-> "undoing", id |-> cur[r]] /\ cur[r] \in Recorded
          \/ w = [kind |-> "rowless", id |-> cur[r]]
      BY <1>8 DEF Sent
    <2> QED BY <1>1, <1>8, <2>1 DEF Work, Busy, PCs
  <1>9. CASE pc[r] = "recordAll"
    <2>1. toApply[r] \cap Recorded = {}
      BY <1>9 DEF Sent
    <2>2. PICK s \in Slices(toApply[r]) :
            w = [kind |-> "adopting", rows |-> [k \in DOMAIN s |-> RowOf(call[r].src, s[k], FALSE)]]
      BY <1>9 DEF Sent
    <2> DEFINE more == [k \in DOMAIN s |-> RowOf(call[r].src, s[k], FALSE)]
    <2>3. /\ more \in Seq(Row) /\ UniqueIds(more)
          /\ RecordedIn(more) = toApply[r] /\ FailedIn(more) = {}
      BY <1>1, BaselineRows
    <2>4. w = [kind |-> "adopting", rows |-> more]
      BY <2>2
    <2> HIDE DEF more
    <2> QED BY <1>9, <2>1, <2>3, <2>4 DEF Work, Busy, PCs
  <1>10. pc[r] \in {"upStmts", "downStmts", "recordOk", "recordErr", "markFailed", "deleteRow",
                    "forget", "execute", "downTx", "recordAll"}
    BY <1>1 DEF Sent, PCs
  <1> QED BY <1>2, <1>3, <1>4, <1>5, <1>6, <1>7, <1>8, <1>9, <1>10

\* What is true of work that is left while nobody runs a script of its migration.
LEMMA LeftIsTrue ==
  ASSUME LateInv, NEW r \in Runners, NEW w \in Sent(r), UNCHANGED <<ledger, schema>>,
         orphaned \subseteq orphaned', \A m : ~InFlux(m)',
         w.kind = "rowless" => w.id \in orphaned'
  PROVE  WorkInv(w)'
  <1>1. LateRunnerInv(r)
    BY DEF LateInv
  <1>2. TxRow(w.id) => TxRow(w.id)'
    BY DEF TxRow
  <1>3. ASSUME w.kind = "undoing" PROVE w.id \in orphaned \/ TxRow(w.id)'
    <2>1. pc[r] = "downTx" /\ w.id = cur[r]
      BY <1>3, SentFacts
    <2>2. cur[r] \in orphaned \/ TxRow(cur[r])
      BY <1>1, <2>1 DEF LateRunnerInv
    <2> QED BY <1>2, <2>1, <2>2
  <1>4. w.kind = "insert" => w.id \in orphaned \/ w.row.err \/ schema[w.id] = "applied"
    BY <1>1, SentFacts DEF LateRunnerInv
  <1>5. w.kind = "delete" => w.id \in orphaned \/ schema[w.id] = "none"
    BY <1>1, SentFacts DEF LateRunnerInv
  <1>6. CASE w.kind = "adopting"
    BY <1>6, SentFacts DEF WorkInv, About, Recorded
  <1>7. CASE w.kind = "applying"
    BY <1>7, SentFacts DEF WorkInv, About, Recorded
  <1>8. CASE w.kind = "undoing"
    BY <1>3, <1>8, SentFacts DEF WorkInv, Recorded
  <1>9. CASE w.kind = "insert"
    BY <1>4, <1>9, SentFacts DEF WorkInv, Recorded
  <1>10. CASE w.kind = "delete"
    BY <1>5, <1>10, SentFacts DEF WorkInv
  <1>11. CASE w.kind \in {"statement", "mark", "forget", "rowless"}
    BY <1>11 DEF WorkInv
  <1> QED BY <1>6, <1>7, <1>8, <1>9, <1>10, <1>11, SentFacts, WorkFields

\* The server's work and its IDs when w is added to it.
LEMMA GoesOnFacts ==
  ASSUME LateInv, NEW w \in Work, GoesOn(w)
  PROVE  /\ late' = late \cup {w} /\ late' \subseteq Work
         /\ StatementIds' = StatementIds \cup (IF w.kind = "statement" THEN {w.id} ELSE {})
         /\ UndoingIds' = UndoingIds \cup (IF w.kind = "undoing" THEN {w.id} ELSE {})
         /\ w.kind = "statement" => ArrivingIds' = ArrivingIds /\ InsertIds' = InsertIds
  <1>1. late' = late \cup {w} /\ late' \subseteq Work
    BY DEF GoesOn, LateInv
  <1>2. Statements' = Statements \cup (IF w.kind = "statement" THEN {w} ELSE {})
    BY <1>1 DEF Statements
  <1>3. StatementIds' = StatementIds \cup (IF w.kind = "statement" THEN {w.id} ELSE {})
    BY <1>2 DEF StatementIds
  <1>4. UndoingIds' = UndoingIds \cup (IF w.kind = "undoing" THEN {w.id} ELSE {})
    BY <1>1 DEF UndoingIds
  <1>5. ASSUME w.kind = "statement" PROVE ArrivingIds' = ArrivingIds /\ InsertIds' = InsertIds
    <2>1. {x \in late' : x.kind \in {"applying", "adopting"}} =
            {x \in late : x.kind \in {"applying", "adopting"}}
      BY <1>1, <1>5
    <2>2. {x \in late' : x.kind = "insert"} = {x \in late : x.kind = "insert"}
      BY <1>1, <1>5
    <2> QED BY <2>1, <2>2 DEF ArrivingIds, InsertIds, About
  <1> QED BY <1>1, <1>3, <1>4, <1>5

\* A call that ends, or returns, and leaves the rows and the schema as they are.
LEMMA OutWithWork ==
  ASSUME LateInv, TypeInv', NEW r \in Runners, pc[r] \in Busy,
         NEW x \in {"idle", "return"}, pc' = [pc EXCEPT ![r] = x],
         UNCHANGED <<ledger, schema>>, late \subseteq late', late' \subseteq Work,
         excused \subseteq excused', orphaned \cup Orphans \subseteq orphaned', orphaned' \subseteq Ids,
         \A w \in late' \ late : WorkInv(w)',
         pc[r] \in ScriptWindow =>
           /\ cur[r] \in excused' \cup orphaned' \/ Truthful(cur[r], ledger, schema)
           /\ cur[r] \in StatementIds' => cur[r] \in orphaned',
         StatementIds' \subseteq StatementIds \cup orphaned',
         UndoingIds' \cap StatementIds \subseteq UndoingIds \cup orphaned'
  PROVE  LateInv'
  <1>1. \A q \in Runners : q # r => pc[q] \in {"idle", "return"}
    BY AloneInside
  <1>2. \A q \in Runners : pc'[q] \in {"idle", "return"}
    BY <1>1 DEF LateInv, TypeInv, TypeOK
  <1>3. \A q \in Runners : LateRunnerInv(q)'
    BY <1>2, OutsideKnowsNothing
  <1>4. \A k : /\ ~InFlux(k)'
               /\ InFlux(k) => pc[r] \in ScriptWindow /\ cur[r] = k
               /\ Recording(k) => pc[r] \in ScriptWindow /\ cur[r] = k
    BY <1>1, <1>2 DEF InFlux, Recording, ScriptWindow
  <1>5. \A k \in Ids : TruthAt(k)'
    BY <1>4 DEF LateInv, TruthAt, Truthful
  <1>6. ASSUME NEW k \in Ids PROVE FenceAt(k)'
    <2> SUFFICES ASSUME k \in StatementIds' \ orphaned'
                 PROVE  k \notin UndoingIds' /\ k \in FailedIn(ledger')
      BY <1>4 DEF FenceAt
    <2>1. k \in StatementIds \ orphaned
      OBVIOUS
    <2>2. k \notin UndoingIds /\ (k \in FailedIn(ledger) \/ Recording(k))
      BY <2>1 DEF LateInv, FenceAt
    <2> QED BY <1>4, <2>1, <2>2
  <1>7. LocksRespected
    BY DEF LocksRespected
  <1>8. \A w \in late' : WorkInv(w)'
    BY <1>7, WorkStays
  <1> QED BY <1>3, <1>5, <1>6, <1>8 DEF LateInv

\* The process dies.  Outside withLock that is no more than a call returning.
LEMMA CrashBeside ==
  ASSUME LateInv, TypeInv', NEW r \in Runners, Crash(r),
         LocksRespected, UNCHANGED late, orphaned' = orphaned \cup Orphans
  PROVE  LateInv'
  <1>1. pc[r] \in PCs \ {"idle"} /\ pc \in [Runners -> PCs]
    BY DEF Crash, LateInv, TypeInv, TypeOK
  <1>2. CASE pc[r] = "return"
    <2>1. ReleaseLock(r)
      BY <1>2 DEF Crash, ReleaseLock, database, ScriptWindow
    <2> QED BY <2>1, ReturnBeside
  <1>3. CASE pc[r] \in Busy
    <2>1. /\ pc' = [pc EXCEPT ![r] = "idle"] /\ UNCHANGED <<ledger, schema>>
          /\ excused \subseteq excused'
      BY DEF Crash, Reset
    <2>2. pc'[r] = "idle"
      BY <1>1, <2>1
    <2>3. late' \subseteq Work /\ orphaned' \subseteq Ids
      BY OrphansType DEF LateInv
    <2>4. StatementIds' = StatementIds /\ UndoingIds' = UndoingIds
      BY SameWork
    <2>5. ASSUME pc[r] \in ScriptWindow
          PROVE  /\ cur[r] \in excused' \cup orphaned' \/ Truthful(cur[r], ledger, schema)
                 /\ cur[r] \in StatementIds' => cur[r] \in orphaned'
      <3>1. cur[r] \in excused' \/ Truthful(cur[r], ledger, schema)
        BY <2>5 DEF Crash
      <3>2. cur[r] \in StatementIds => cur[r] \in orphaned'
        BY <2>2, <2>5, OrphansFacts
      <3> QED BY <2>4, <3>1, <3>2
    <2> QED BY <1>3, <2>1, <2>3, <2>4, <2>5, OutWithWork
  <1> QED BY <1>1, <1>2, <1>3 DEF Busy

\* Behind refuseIfFailed a COMMIT that takes a row meets no fenced-in statement.
LEMMA UndoMissesStatements ==
  ASSUME LateInv, NEW r \in Runners, NEW w \in Sent(r), w.kind = "undoing"
  PROVE  StatementIds \subseteq orphaned
  <1>1. pc[r] = "downTx" /\ LateRunnerInv(r)
    BY SentFacts DEF LateInv
  <1> QED BY <1>1 DEF LateRunnerInv, Past, Checked

\* The process dies in the middle of a statement, a write or a COMMIT.
LEMMA CrashInStatementKeeps ==
  ASSUME LateInv, TypeInv', NEW r \in Runners, CrashInStatement(r)
  PROVE  LateInv'
  <1>1. PICK w \in Sent(r) :
          /\ GoesOn(w) /\ Crash(r)
          /\ orphaned' = orphaned \cup Orphans \cup Rowless(w)
                           \cup (IF w.kind = "statement" THEN {w.id} ELSE {})
    BY DEF CrashInStatement
  <1>2. /\ pc' = [pc EXCEPT ![r] = "idle"] /\ UNCHANGED <<ledger, schema>>
        /\ excused \subseteq excused'
        /\ pc[r] \in ScriptWindow => cur[r] \in excused' \/ Truthful(cur[r], ledger, schema)
    BY <1>1 DEF Crash, Reset
  <1>3. /\ w \in Work /\ pc[r] \in Busy
        /\ w.kind \in {"statement", "rowless"} => w.id \in Ids
    BY SentFacts, WorkFields
  <1>4. /\ late' = late \cup {w} /\ late' \subseteq Work
        /\ StatementIds' = StatementIds \cup (IF w.kind = "statement" THEN {w.id} ELSE {})
        /\ UndoingIds' = UndoingIds \cup (IF w.kind = "undoing" THEN {w.id} ELSE {})
    BY <1>1, <1>3, GoesOnFacts
  <1>5. orphaned \cup Orphans \subseteq orphaned' /\ orphaned' \subseteq Ids
    BY <1>1, <1>3, OrphansType DEF LateInv, Rowless
  <1>6. pc'[r] = "idle" /\ \A m : ~InFlux(m)'
    <2>1. \A q \in Runners : pc'[q] \in {"idle", "return"}
      BY <1>2, <1>3, AloneInside DEF LateInv, TypeInv, TypeOK
    <2>2. pc'[r] = "idle"
      BY <1>2 DEF LateInv, TypeInv, TypeOK
    <2> QED BY <2>1, <2>2 DEF InFlux, ScriptWindow
  <1>7. WorkInv(w)'
    BY <1>1, <1>2, <1>5, <1>6, LeftIsTrue DEF Rowless
  <1>8. pc[r] \in ScriptWindow /\ cur[r] \in StatementIds' => cur[r] \in orphaned'
    <2>1. pc[r] \in ScriptWindow /\ cur[r] \in StatementIds => cur[r] \in orphaned'
      BY <1>4, <1>5, <1>6, OrphansFacts
    <2> QED BY <1>1, <1>4, <2>1
  <1>9. StatementIds' \subseteq StatementIds \cup orphaned'
    BY <1>1, <1>4
  <1>10. UndoingIds' \cap StatementIds \subseteq UndoingIds \cup orphaned'
    BY <1>4, <1>5, UndoMissesStatements
  <1> QED BY <1>2, <1>3, <1>4, <1>5, <1>7, <1>8, <1>9, <1>10, OutWithWork

\* The context ends while the call waits for Forget's DELETE or for a COMMIT.
LEMMA AbandonCommitKeeps ==
  ASSUME LateInv, TypeInv', NEW r \in Runners, AbandonCommit(r)
  PROVE  LateInv'
  <1>1. PICK w \in Sent(r) :
          /\ w.kind \notin {"statement", "insert", "mark", "delete"} /\ GoesOn(w)
          /\ orphaned' = orphaned \cup Orphans \cup Rowless(w)
          /\ Return(r, "failed") /\ UNCHANGED database
    BY DEF AbandonCommit
  <1>2. pc' = [pc EXCEPT ![r] = "return"] /\ UNCHANGED <<ledger, schema, excused>>
    BY <1>1 DEF Return, database
  <1>3. w \in Work /\ pc[r] \in Busy /\ pc[r] \notin ScriptWindow /\ (w.kind = "rowless" => w.id \in Ids)
    BY <1>1, SentFacts, WorkFields DEF ScriptWindow
  <1>4. /\ late' = late \cup {w} /\ late' \subseteq Work /\ StatementIds' = StatementIds
        /\ UndoingIds' = UndoingIds \cup (IF w.kind = "undoing" THEN {w.id} ELSE {})
    BY <1>1, <1>3, GoesOnFacts
  <1>5. orphaned \cup Orphans \subseteq orphaned' /\ orphaned' \subseteq Ids
    BY <1>1, <1>3, OrphansType DEF LateInv, Rowless
  <1>6. \A m : ~InFlux(m)'
    <2>1. \A q \in Runners : pc'[q] \in {"idle", "return"}
      BY <1>2, <1>3, AloneInside DEF LateInv, TypeInv, TypeOK
    <2> QED BY <2>1 DEF InFlux, ScriptWindow
  <1>7. WorkInv(w)'
    BY <1>1, <1>2, <1>5, <1>6, LeftIsTrue DEF Rowless
  <1>8. UndoingIds' \cap StatementIds \subseteq UndoingIds \cup orphaned'
    BY <1>4, <1>5, UndoMissesStatements
  <1> QED BY <1>2, <1>3, <1>4, <1>5, <1>7, <1>8, OutWithWork

\* The timeout of a bookkeeping write passes: the call reports ErrUnrecorded.
LEMMA AbandonWriteKeeps ==
  ASSUME LateInv, TypeInv', NEW r \in Runners, AbandonWrite(r)
  PROVE  LateInv'
  <1>1. PICK w \in Sent(r) :
          /\ w.kind \in {"insert", "mark", "delete"} /\ GoesOn(w)
          /\ excused' = excused \cup {w.id}
    BY DEF AbandonWrite
  <1>2. /\ pc' = [pc EXCEPT ![r] = "return"] /\ UNCHANGED <<ledger, schema>>
        /\ orphaned' = orphaned \cup Orphans
    BY DEF AbandonWrite, Return
  <1>3. w \in Work /\ pc[r] \in Busy /\ w.id = cur[r]
    BY <1>1, SentFacts
  <1>4. /\ late' = late \cup {w} /\ late' \subseteq Work /\ StatementIds' = StatementIds
        /\ UndoingIds' = UndoingIds
    BY <1>1, <1>3, GoesOnFacts
  <1>5. orphaned' \subseteq Ids
    BY <1>2, OrphansType DEF LateInv
  <1>6. \A m : ~InFlux(m)'
    <2>1. \A q \in Runners : pc'[q] \in {"idle", "return"}
      BY <1>2, <1>3, AloneInside DEF LateInv, TypeInv, TypeOK
    <2> QED BY <2>1 DEF InFlux, ScriptWindow
  <1>7. WorkInv(w)'
    BY <1>1, <1>2, <1>6, LeftIsTrue
  <1>8. cur[r] \in excused' /\ (cur[r] \in StatementIds' => cur[r] \in orphaned')
    BY <1>1, <1>2, <1>3, <1>4, OrphansFacts
  <1>9. excused \subseteq excused'
    BY <1>1
  <1> QED BY <1>2, <1>3, <1>4, <1>5, <1>7, <1>8, <1>9, OutWithWork

\* The context ends while runStatements waits: the call goes on to record it.
LEMMA AbandonStatementKeeps ==
  ASSUME LateInv, TypeInv', NEW r \in Runners, AbandonStatement(r)
  PROVE  LateInv'
  <1> DEFINE x == IF pc[r] = "upStmts" THEN "recordErr" ELSE "markFailed"
  <1>1. PICK w \in Sent(r) : w.kind = "statement" /\ GoesOn(w)
    BY DEF AbandonStatement
  <1>2. /\ pc' = [pc EXCEPT ![r] = x]
        /\ UNCHANGED <<lock, ledger, schema, excused, cur, toRollback, toApply>>
        /\ orphaned' = orphaned \cup Orphans
    BY DEF AbandonStatement, Goto, database, plan
  <1>3. /\ LateRunnerInv(r) /\ UniqueIds(ledger) /\ pc \in [Runners -> PCs]
        /\ pc[r] \in {"upStmts", "downStmts"} /\ w.id = cur[r] /\ w \in Work /\ pc[r] \in Busy
    BY <1>1, SentFacts DEF LateInv, TypeInv, TypeOK
  <1>4. /\ late' = late \cup {w} /\ late' \subseteq Work
        /\ StatementIds' = StatementIds \cup {cur[r]} /\ UndoingIds' = UndoingIds
        /\ ArrivingIds' = ArrivingIds /\ InsertIds' = InsertIds
    BY <1>1, <1>3, GoesOnFacts
  <1>5. /\ pc'[r] = x
        /\ \A q \in Runners : q # r => pc'[q] = pc[q] /\ pc[q] \in {"idle", "return"}
    BY <1>2, <1>3, AloneInside
  <1>6. orphaned \subseteq orphaned' /\ orphaned' \subseteq Ids
    BY <1>2, OrphansType DEF LateInv
  <1>7. LateRunnerInv(r)'
    BY <1>2, <1>3, <1>4, <1>5, <1>6 DEF LateRunnerInv, Recorded, Busy, PCs, Past, Checked, ScriptWindow
  <1>8. \A q \in Runners : LateRunnerInv(q)'
    BY <1>5, <1>7, OutsideKnowsNothing
  <1>9. ASSUME NEW k \in Ids PROVE TruthAt(k)' /\ FenceAt(k)'
    <2>1. CASE k = cur[r]
      <3>1. InFlux(k)' /\ Recording(k)'
        BY <1>2, <1>5, <2>1 DEF InFlux, Recording, ScriptWindow
      <3>2. k \in orphaned \/ k \notin UndoingIds
        BY <1>3, <2>1 DEF LateRunnerInv
      <3> QED BY <1>4, <1>6, <3>1, <3>2 DEF TruthAt, FenceAt
    <2>2. CASE k # cur[r]
      <3>1. ~InFlux(k) /\ ~InFlux(k)' /\ ~Recording(k)
        BY <1>2, <1>5, <2>2 DEF InFlux, Recording, ScriptWindow
      <3> QED BY <1>2, <1>4, <1>6, <2>2, <3>1 DEF LateInv, TruthAt, FenceAt, Truthful
    <2> QED BY <2>1, <2>2
  <1>10. \A v \in late' : WorkInv(v)'
    <2>1. LocksRespected
      BY <1>2 DEF LocksRespected
    <2>2. WorkInv(w)'
      BY <1>1 DEF WorkInv
    <2> QED BY <1>2, <1>4, <2>1, <2>2, WorkStays
  <1> QED BY <1>2, <1>3, <1>4, <1>6, <1>8, <1>9, <1>10 DEF LateInv
-----------------------------------------------------------------------------
\* The server finishes, or stops.

\* What is left of the server's work.
LEMMA OneLess ==
  ASSUME LateInv, NEW w \in late, late' = late \ {w}
  PROVE  /\ late' \subseteq Work /\ w \in Work /\ WorkInv(w)
         /\ StatementIds' \subseteq StatementIds /\ ArrivingIds' \subseteq ArrivingIds
         /\ UndoingIds' \subseteq UndoingIds /\ InsertIds' \subseteq InsertIds
         /\ w.kind = "statement" => w.id \in StatementIds
         /\ w.kind \in {"applying", "adopting"} => About(w) \subseteq ArrivingIds
         /\ w.kind = "undoing" => w.id \in UndoingIds
         /\ w.kind = "insert" => w.id \in InsertIds
  <1>1. late' \subseteq Work /\ w \in Work /\ WorkInv(w) /\ late' \subseteq late
    BY DEF LateInv
  <1>2. StatementIds' \subseteq StatementIds /\ (w.kind = "statement" => w.id \in StatementIds)
    BY <1>1 DEF StatementIds, Statements
  <1>3. UndoingIds' \subseteq UndoingIds /\ (w.kind = "undoing" => w.id \in UndoingIds)
    BY <1>1 DEF UndoingIds
  <1>4. InsertIds' \subseteq InsertIds /\ (w.kind = "insert" => w.id \in InsertIds)
    BY <1>1 DEF InsertIds
  <1>5. /\ ArrivingIds' \subseteq ArrivingIds
        /\ w.kind \in {"applying", "adopting"} => About(w) \subseteq ArrivingIds
    BY <1>1 DEF ArrivingIds, About
  <1> QED BY <1>1, <1>2, <1>3, <1>4, <1>5

(***************************************************************************)
(* What a runner knows survives work that lands: rows that arrive are in   *)
(* nobody's rollback, rows that vanish are no script's that is running,    *)
(* and the schema changes where a statement or a COMMIT was expected.      *)
(***************************************************************************)
LEMMA LandingSpares ==
  ASSUME LateInv, NEW q \in Runners, UNCHANGED <<lock, pc, cur, toRollback, toApply>>,
         orphaned \subseteq orphaned', StatementIds' \subseteq StatementIds,
         ArrivingIds' \subseteq ArrivingIds, UndoingIds' \subseteq UndoingIds,
         InsertIds' \subseteq InsertIds,
         \A row \in ToSet(ledger') :
           \/ \E old \in ToSet(ledger) : old.id = row.id /\ old.down = row.down
           \/ row.id \in ArrivingIds \cup InsertIds,
         \A m \in Recorded \ Recorded' : m \in UndoingIds \cup orphaned \/ ~InFlux(m),
         \A m \in Ids : \/ schema'[m] = schema[m]
                        \/ m \in orphaned \cup StatementIds
                        \/ m \in ArrivingIds /\ schema'[m] = "applied"
                        \/ m \in UndoingIds /\ schema'[m] = "none"
  PROVE  LateRunnerInv(q)'
  <1>1. LateRunnerInv(q) /\ cur[q] \in Ids
    BY DEF LateInv, TypeInv, TypeOK
  <1>2. pc[q] \in Checked => toRollback[q] \cap IrreversibleIn(ledger') \subseteq orphaned'
    <2> SUFFICES ASSUME pc[q] \in Checked, NEW m \in toRollback[q], m \in IrreversibleIn(ledger')
                 PROVE  m \in orphaned
      OBVIOUS
    <2>1. PICK row \in ToSet(ledger') : row.id = m /\ row.down = "irreversible"
      BY HasRow
    <2>2. CASE \E old \in ToSet(ledger) : old.id = row.id /\ old.down = row.down
      <3>1. m \in IrreversibleIn(ledger)
        BY <2>1, <2>2, HasRow
      <3> QED BY <1>1, <3>1 DEF LateRunnerInv
    <2>3. CASE m \in ArrivingIds \cup InsertIds
      BY <1>1, <2>3 DEF LateRunnerInv
    <2> QED BY <2>1, <2>2, <2>3
  <1>3. ASSUME pc[q] = "downTx" PROVE cur[q] \in orphaned' \/ TxRow(cur[q])'
    <2> SUFFICES ASSUME cur[q] \notin orphaned PROVE TxRow(cur[q])'
      OBVIOUS
    <2>1. TxRow(cur[q]) /\ cur[q] \in toRollback[q] /\ cur[q] \notin ArrivingIds \cup InsertIds
      BY <1>1, <1>3 DEF LateRunnerInv, Checked
    <2> QED BY <2>1 DEF TxRow
  <1>4. pc[q] \in {"downStmts", "markFailed", "deleteRow"} =>
          cur[q] \in (Recorded' \ UndoingIds') \cup orphaned'
    BY <1>1 DEF LateRunnerInv, InFlux, ScriptWindow
  <1>5. pc[q] \in {"recordOk", "deleteRow"} => cur[q] \in orphaned \/ cur[q] \notin StatementIds
    BY <1>1 DEF LateRunnerInv, Past, Checked, ScriptWindow
  <1>6. pc[q] = "recordOk" => schema'[cur[q]] = "applied" \/ cur[q] \in orphaned'
    BY <1>1, <1>5 DEF LateRunnerInv
  <1>7. pc[q] = "deleteRow" => schema'[cur[q]] = "none" \/ cur[q] \in orphaned'
    <2>1. pc[q] = "deleteRow" => cur[q] \notin ArrivingIds
      BY <1>1 DEF LateRunnerInv, Checked, ScriptWindow
    <2> QED BY <1>1, <1>5, <2>1 DEF LateRunnerInv
  <1> QED BY <1>1, <1>2, <1>3, <1>4, <1>6, <1>7 DEF LateRunnerInv

\* What has to be shown of work that lands.
LEMMA LandsFrame ==
  ASSUME LateInv, NEW w \in late, Lands(w),
         ledger' \in Seq(Row), schema' \in [Ids -> {"none", "partial", "applied"}],
         excused' \subseteq Ids, UniqueIds(ledger'),
         \A row \in ToSet(ledger') :
           \/ \E old \in ToSet(ledger) : old.id = row.id /\ old.down = row.down
           \/ row.id \in ArrivingIds \cup InsertIds,
         \A m \in Recorded \ Recorded' : m \in UndoingIds \cup orphaned \/ ~InFlux(m),
         \A m \in FailedIn(ledger) \ FailedIn(ledger') : m \in orphaned' \/ m \notin StatementIds',
         NEW M,
         \A m \in Ids \cap M :
           /\ m \in excused' \cup orphaned \/ InFlux(m) \/ Truthful(m, ledger', schema')
           /\ \/ schema'[m] = schema[m]
              \/ m \in orphaned \cup StatementIds
              \/ m \in ArrivingIds /\ schema'[m] = "applied"
              \/ m \in UndoingIds /\ schema'[m] = "none",
         \A m \in Ids \ M : /\ m \in excused => m \in excused'
                            /\ m \in RecordedIn(ledger') <=> m \in RecordedIn(ledger)
                            /\ m \in FailedIn(ledger') <=> m \in FailedIn(ledger)
                            /\ schema'[m] = schema[m]
  PROVE  LateInv'
  <1>1. /\ late' = late \ {w} /\ LocksRespected /\ orphaned' = orphaned \cup Orphans
        /\ UNCHANGED <<lock, table, pc, call, fromDB, toRollback, toApply, cur,
                       applied, rolledBack, outcome>>
    BY DEF Lands, plan, result
  <1>2. orphaned \subseteq orphaned' /\ orphaned' \subseteq Ids
    BY <1>1, OrphansType DEF LateInv
  <1>3. TypeInv'
    BY <1>1 DEF LateInv, TypeInv, TypeOK, SourceInv
  <1>4. \A v \in late' : WorkInv(v)'
    BY <1>1, WorkStays
  <1>5. \A q \in Runners : LateRunnerInv(q)'
    BY <1>1, <1>2, OneLess, LandingSpares
  <1>6. \A k : (InFlux(k)' <=> InFlux(k)) /\ (Recording(k)' <=> Recording(k))
    BY <1>1 DEF InFlux, Recording
  <1>7. ASSUME NEW k \in Ids PROVE TruthAt(k)'
    <2>1. CASE k \in M
      BY <1>2, <1>6, <2>1 DEF TruthAt
    <2>2. CASE k \notin M
      BY <1>2, <1>6, <2>2 DEF LateInv, TruthAt, Truthful
    <2> QED BY <2>1, <2>2
  <1>8. \A k \in Ids : FenceAt(k)'
    BY <1>1, <1>2, <1>6, OneLess DEF LateInv, FenceAt
  <1> QED BY <1>1, <1>2, <1>3, <1>4, <1>5, <1>7, <1>8, OneLess DEF LateInv

\* The state as the server's work finds it.
LEMMA BeforeLanding ==
  ASSUME LateInv, NEW w \in late, Lands(w)
  PROVE  /\ ledger \in Seq(Row) /\ schema \in [Ids -> {"none", "partial", "applied"}]
         /\ excused \subseteq Ids /\ UniqueIds(ledger) /\ w \in Work /\ WorkInv(w)
         /\ late' = late \ {w} /\ orphaned' = orphaned \cup Orphans
  BY DEF LateInv, TypeInv, TypeOK, Lands

\* A statement lands, in part or in full, on a migration that is fenced in.
LEMMA StatementLandsKeeps ==
  ASSUME LateInv, NEW w \in late, Lands(w), StatementLands(w)
  PROVE  LateInv'
  <1> DEFINE M == {w.id}
  <1>1. /\ w.id \in Ids /\ w.id \in StatementIds /\ UNCHANGED <<ledger, excused>>
        /\ \E s \in {"none", "partial", "applied"} : schema' = [schema EXCEPT ![w.id] = s]
    BY BeforeLanding, WorkFields, OneLess DEF StatementLands
  <1>2. /\ schema' \in [Ids -> {"none", "partial", "applied"}]
        /\ \A k \in Ids \ M : schema'[k] = schema[k]
    BY <1>1, BeforeLanding
  <1>3. w.id \in orphaned \/ w.id \in FailedIn(ledger) \/ InFlux(w.id)
    <2>1. w.id \in orphaned \/ w.id \in FailedIn(ledger) \/ Recording(w.id)
      BY <1>1 DEF LateInv, FenceAt
    <2> QED BY <2>1 DEF Recording, InFlux, ScriptWindow
  <1>4. w.id \in excused' \cup orphaned \/ InFlux(w.id) \/ Truthful(w.id, ledger', schema')
    BY <1>1, <1>3, FailedIsRecorded DEF Truthful
  <1>5. \A m \in Ids \cap M :
          /\ m \in excused' \cup orphaned \/ InFlux(m) \/ Truthful(m, ledger', schema')
          /\ m \in StatementIds
    BY <1>1, <1>4
  <1>6. Recorded' = Recorded
    BY <1>1 DEF Recorded
  <1> HIDE DEF M
  <1> QED BY <1>1, <1>2, <1>5, <1>6, BeforeLanding, LandsFrame

\* A COMMIT of ApplyMigration lands: the effect and its row.
LEMMA ApplyCommitLandsKeeps ==
  ASSUME LateInv, NEW w \in late, Lands(w), ApplyCommitLands(w)
  PROVE  LateInv'
  <1> DEFINE M == {w.id}
  <1>1. /\ w.kind = "applying" /\ ledger' = Insert(ledger, w.row) /\ excused' = excused \ {w.id}
        /\ schema' = [schema EXCEPT ![w.id] = "applied"]
    BY DEF ApplyCommitLands
  <1>2. /\ w.id \in Ids /\ w.row \in Row /\ w.row.id = w.id /\ w.row.err = FALSE
        /\ w.id \in ArrivingIds
    BY <1>1, BeforeLanding, WorkFields, OneLess DEF About
  <1>3. w.id \notin RecordedIn(ledger)
    BY <1>1, BeforeLanding DEF WorkInv, About, Recorded
  <1>4. ledger' \in Seq(Row) /\ ToSet(ledger') = ToSet(ledger) \cup {w.row}
    BY <1>1, <1>2, BeforeLanding, InsertRow
  <1>5. /\ UniqueIds(ledger') /\ RecordedIn(ledger') = RecordedIn(ledger) \cup {w.id}
        /\ FailedIn(ledger') = FailedIn(ledger)
    <2>1. /\ UniqueIds(ledger') /\ RecordedIn(ledger') = RecordedIn(ledger) \cup {w.row.id}
          /\ FailedIn(ledger') = FailedIn(ledger) \cup (IF w.row.err THEN {w.row.id} ELSE {})
      BY <1>1, <1>2, <1>3, BeforeLanding, InsertFacts
    <2> QED BY <1>2, <2>1
  <1>6. /\ schema' \in [Ids -> {"none", "partial", "applied"}] /\ excused' \subseteq Ids
        /\ schema'[w.id] = "applied" /\ \A k \in Ids \ M : schema'[k] = schema[k]
    BY <1>1, <1>2, BeforeLanding
  <1>7. \A m \in Ids \cap M :
          Truthful(m, ledger', schema') /\ m \in ArrivingIds /\ schema'[m] = "applied"
    BY <1>2, <1>5, <1>6 DEF Truthful
  <1>8. \A row \in ToSet(ledger') : row \in ToSet(ledger) \/ row.id \in ArrivingIds
    BY <1>2, <1>4
  <1>9. Recorded \ Recorded' = {} /\ \A k \in Ids \ M : k \in excused => k \in excused'
    BY <1>1, <1>5 DEF Recorded
  <1>10. \A k \in Ids \ M : k \in RecordedIn(ledger') <=> k \in RecordedIn(ledger)
    BY <1>5
  <1> HIDE DEF M
  <1> QED BY <1>4, <1>5, <1>6, <1>7, <1>8, <1>9, <1>10, LandsFrame

\* A COMMIT of RollbackMigration lands: neither the effect nor its row is left.
LEMMA UndoCommitLandsKeeps ==
  ASSUME LateInv, NEW w \in late, Lands(w), UndoCommitLands(w)
  PROVE  LateInv'
  <1> DEFINE M == {w.id}
  <1>1. /\ w.kind = "undoing" /\ ledger' = Delete(ledger, w.id) /\ excused' = excused \ {w.id}
        /\ schema' = IF w.id \in IrreversibleIn(ledger) THEN schema
                     ELSE [schema EXCEPT ![w.id] = "none"]
    BY DEF UndoCommitLands
  <1>2. /\ w.id \in Ids /\ w.id \in UndoingIds /\ w.id \in Recorded
        /\ w.id \in orphaned \/ TxRow(w.id)
    BY <1>1, BeforeLanding, WorkFields, OneLess DEF WorkInv
  <1>3. w.id \in orphaned \/ w.id \notin IrreversibleIn(ledger)
    BY <1>2, HasRow DEF TxRow
  <1>4. ledger' \in Seq(Row) /\ ToSet(ledger') \subseteq ToSet(ledger)
    BY <1>1, BeforeLanding, DeleteSets, DeleteType
  <1>5. /\ UniqueIds(ledger') /\ RecordedIn(ledger') = RecordedIn(ledger) \ {w.id}
        /\ FailedIn(ledger') = FailedIn(ledger) \ {w.id}
    BY <1>1, BeforeLanding, DeleteFacts
  <1>6. /\ schema' \in [Ids -> {"none", "partial", "applied"}] /\ excused' \subseteq Ids
        /\ w.id \in orphaned \/ schema'[w.id] = "none"
        /\ \A k \in Ids \ M : schema'[k] = schema[k]
    BY <1>1, <1>2, <1>3, BeforeLanding
  <1>7. \A m \in Ids \cap M :
          /\ m \in orphaned \/ Truthful(m, ledger', schema')
          /\ m \in orphaned \/ (m \in UndoingIds /\ schema'[m] = "none")
    BY <1>2, <1>5, <1>6 DEF Truthful
  <1>8. \A m \in FailedIn(ledger) \ FailedIn(ledger') : m \in orphaned' \/ m \notin StatementIds'
    <2>1. w.id \in StatementIds => w.id \in orphaned
      BY <1>2 DEF LateInv, FenceAt
    <2> QED BY <1>5, <2>1, BeforeLanding, OneLess
  <1>9. /\ \A m \in Recorded \ Recorded' : m \in UndoingIds
        /\ \A k \in Ids \ M : k \in excused => k \in excused'
    BY <1>1, <1>2, <1>5 DEF Recorded
  <1>10. \A k \in Ids \ M : /\ k \in RecordedIn(ledger') <=> k \in RecordedIn(ledger)
                            /\ k \in FailedIn(ledger') <=> k \in FailedIn(ledger)
    BY <1>5
  <1> HIDE DEF M
  <1> QED BY <1>4, <1>5, <1>6, <1>7, <1>8, <1>9, <1>10, LandsFrame

\* The COMMIT of a rollback that has found no row lands on an orphan.
LEMMA RowlessCommitLandsKeeps ==
  ASSUME LateInv, NEW w \in late, Lands(w), RowlessCommitLands(w)
  PROVE  LateInv'
  <1> DEFINE M == {w.id}
  <1>1. /\ w.kind = "rowless" /\ UNCHANGED <<ledger, excused>>
        /\ schema' = [schema EXCEPT ![w.id] = "none"]
    BY DEF RowlessCommitLands
  <1>2. w.id \in Ids /\ w.id \in orphaned
    BY <1>1, BeforeLanding, WorkFields DEF WorkInv
  <1>3. /\ schema' \in [Ids -> {"none", "partial", "applied"}] /\ Recorded' = Recorded
        /\ \A k \in Ids \ M : schema'[k] = schema[k]
    BY <1>1, <1>2, BeforeLanding DEF Recorded
  <1>4. \A m \in Ids \cap M : m \in orphaned
    BY <1>2
  <1> HIDE DEF M
  <1> QED BY <1>1, <1>3, <1>4, BeforeLanding, LandsFrame

\* The COMMIT of a Baseline lands: rows for what the operator said is there.
LEMMA AdoptCommitLandsKeeps ==
  ASSUME LateInv, NEW w \in late, Lands(w), AdoptCommitLands(w)
  PROVE  LateInv'
  <1> DEFINE M == RecordedIn(w.rows)
  <1>1. /\ w.kind = "adopting" /\ ledger' = ledger \o w.rows /\ schema' = schema
        /\ excused' = (excused \ M) \cup {m \in M : schema[m] # "applied"}
    BY DEF AdoptCommitLands
  <1>2. /\ w.rows \in Seq(Row) /\ UniqueIds(w.rows) /\ FailedIn(w.rows) = {}
        /\ M \subseteq ArrivingIds /\ M \subseteq Ids
    BY <1>1, BeforeLanding, WorkFields, OneLess, RowsType DEF About
  <1>3. RecordedIn(ledger) \cap RecordedIn(w.rows) = {}
    BY <1>1, BeforeLanding DEF WorkInv, About, Recorded
  <1>4. /\ UniqueIds(ledger') /\ ledger' \in Seq(Row)
        /\ ToSet(ledger') = ToSet(ledger) \cup ToSet(w.rows)
        /\ RecordedIn(ledger') = RecordedIn(ledger) \cup M /\ FailedIn(ledger') = FailedIn(ledger)
    <2>1. ledger \o w.rows \in Seq(Row)
      BY <1>2, BeforeLanding, ConcatProperties
    <2>2. /\ UniqueIds(ledger \o w.rows)
          /\ ToSet(ledger \o w.rows) = ToSet(ledger) \cup ToSet(w.rows)
          /\ RecordedIn(ledger \o w.rows) = RecordedIn(ledger) \cup RecordedIn(w.rows)
          /\ FailedIn(ledger \o w.rows) = FailedIn(ledger) \cup FailedIn(w.rows)
      BY <1>2, <1>3, BeforeLanding, ConcatFacts
    <2> QED BY <1>1, <1>2, <2>1, <2>2
  <1>5. \A row \in ToSet(ledger') : row \in ToSet(ledger) \/ row.id \in ArrivingIds
    <2>1. \A row \in ToSet(w.rows) : row.id \in M
      BY HasRow
    <2> QED BY <1>2, <1>4, <2>1
  <1> HIDE DEF M
  <1>6. \A m \in Ids \cap M : m \in excused' \/ Truthful(m, ledger', schema')
    BY <1>1, <1>4 DEF Truthful
  <1>7. Recorded \ Recorded' = {} /\ excused' \subseteq Ids
    BY <1>1, <1>2, <1>4, BeforeLanding DEF Recorded
  <1>8. \A k \in Ids \ M : /\ k \in excused => k \in excused'
                           /\ k \in RecordedIn(ledger') <=> k \in RecordedIn(ledger)
    BY <1>1, <1>4
  <1> QED BY <1>1, <1>4, <1>5, <1>6, <1>7, <1>8, BeforeLanding, LandsFrame

\* The row of a notransaction script lands.
LEMMA InsertLandsKeeps ==
  ASSUME LateInv, NEW w \in late, Lands(w), InsertLands(w)
  PROVE  LateInv'
  <1> DEFINE M == {w.id}
  <1>1. /\ w.kind = "insert" /\ w.id \notin RecordedIn(ledger) /\ ledger' = Insert(ledger, w.row)
        /\ excused' = excused \ {w.id} /\ schema' = schema
    BY DEF InsertLands, Recorded
  <1>2. w.id \in Ids /\ w.row \in Row /\ w.row.id = w.id /\ w.id \in InsertIds
    BY <1>1, BeforeLanding, WorkFields, OneLess
  <1>3. w.id \in orphaned \/ w.row.err \/ schema[w.id] = "applied"
    BY <1>1, BeforeLanding DEF WorkInv
  <1>4. ledger' \in Seq(Row) /\ ToSet(ledger') = ToSet(ledger) \cup {w.row}
    BY <1>1, <1>2, BeforeLanding, InsertRow
  <1>5. /\ UniqueIds(ledger') /\ RecordedIn(ledger') = RecordedIn(ledger) \cup {w.id}
        /\ FailedIn(ledger') = FailedIn(ledger) \cup (IF w.row.err THEN {w.id} ELSE {})
    BY <1>1, <1>2, BeforeLanding, InsertFacts
  <1>6. \A m \in Ids \cap M : m \in orphaned \/ Truthful(m, ledger', schema')
    BY <1>1, <1>3, <1>5 DEF Truthful
  <1>7. \A row \in ToSet(ledger') : row \in ToSet(ledger) \/ row.id \in InsertIds
    BY <1>2, <1>4
  <1>8. /\ Recorded \ Recorded' = {} /\ FailedIn(ledger) \ FailedIn(ledger') = {}
        /\ excused' \subseteq Ids
    BY <1>1, <1>5, BeforeLanding DEF Recorded
  <1>9. \A k \in Ids \ M : /\ k \in excused => k \in excused'
                           /\ k \in RecordedIn(ledger') <=> k \in RecordedIn(ledger)
                           /\ k \in FailedIn(ledger') <=> k \in FailedIn(ledger)
    BY <1>1, <1>5
  <1> HIDE DEF M
  <1> QED BY <1>1, <1>4, <1>5, <1>6, <1>7, <1>8, <1>9, BeforeLanding, LandsFrame

\* The mark of a failed rollback lands.
LEMMA MarkLandsKeeps ==
  ASSUME LateInv, NEW w \in late, Lands(w), MarkLands(w)
  PROVE  LateInv'
  <1> DEFINE M == {w.id}
  <1>1. /\ w.kind = "mark" /\ w.id \in RecordedIn(ledger) /\ ledger' = MarkError(ledger, w.id)
        /\ excused' = excused \ {w.id} /\ schema' = schema
    BY DEF MarkLands, Recorded
  <1>2. /\ UniqueIds(ledger') /\ RecordedIn(ledger') = RecordedIn(ledger)
        /\ FailedIn(ledger') = FailedIn(ledger) \cup {w.id}
    BY <1>1, BeforeLanding, MarkErrorFacts
  <1>3. ledger' \in Seq(Row)
    BY <1>1, BeforeLanding, MarkErrorType
  <1>4. ASSUME NEW row \in ToSet(ledger')
        PROVE  \E old \in ToSet(ledger) : old.id = row.id /\ old.down = row.down
    <2>1. PICK k \in DOMAIN ledger : row = ledger'[k]
      BY <1>1 DEF MarkError, ToSet
    <2>2. ledger[k] \in Row /\ ledger[k] \in ToSet(ledger)
      BY BeforeLanding, RowsType DEF ToSet
    <2>3. row.id = ledger[k].id /\ row.down = ledger[k].down
      BY <1>1, <2>1, <2>2 DEF MarkError, Row
    <2> QED BY <2>2, <2>3
  <1>5. \A m \in Ids \cap M : Truthful(m, ledger', schema')
    BY <1>1, <1>2 DEF Truthful
  <1>6. /\ Recorded \ Recorded' = {} /\ FailedIn(ledger) \ FailedIn(ledger') = {}
        /\ excused' \subseteq Ids
    BY <1>1, <1>2, BeforeLanding DEF Recorded
  <1>7. \A k \in Ids \ M : /\ k \in excused => k \in excused'
                           /\ k \in RecordedIn(ledger') <=> k \in RecordedIn(ledger)
                           /\ k \in FailedIn(ledger') <=> k \in FailedIn(ledger)
    BY <1>1, <1>2
  <1> HIDE DEF M
  <1> QED BY <1>1, <1>2, <1>3, <1>4, <1>5, <1>6, <1>7, BeforeLanding, LandsFrame

\* A DELETE lands, of a rollback or of a Forget: it takes a fence away only from
\* statements that the same step orphans.
LEMMA DeleteLandsKeeps ==
  ASSUME LateInv, NEW w \in late, Lands(w), DeleteLands(w)
  PROVE  LateInv'
  <1> DEFINE M == {w.id}
  <1>1. /\ w.kind \in {"delete", "forget"} /\ w.id \in Recorded
        /\ ledger' = Delete(ledger, w.id) /\ schema' = schema
        /\ excused' = IF w.kind = "delete" \/ schema[w.id] = "none"
                        THEN excused \ {w.id} ELSE excused \cup {w.id}
    BY DEF DeleteLands
  <1>2. w.id \in Ids /\ w.id \in Recorded \ Recorded'
    <2>1. w.id \in Ids
      BY <1>1, BeforeLanding, WorkFields
    <2>2. RecordedIn(ledger') = RecordedIn(ledger) \ {w.id}
      BY <1>1, BeforeLanding, DeleteFacts
    <2> QED BY <1>1, <2>1, <2>2 DEF Recorded
  <1>3. w.id \in orphaned \/ (~InFlux(w.id) /\ (w.kind = "delete" => schema[w.id] = "none"))
    BY <1>1, BeforeLanding DEF WorkInv
  <1>4. ledger' \in Seq(Row) /\ ToSet(ledger') \subseteq ToSet(ledger)
    BY <1>1, BeforeLanding, DeleteSets, DeleteType
  <1>5. /\ UniqueIds(ledger') /\ RecordedIn(ledger') = RecordedIn(ledger) \ {w.id}
        /\ FailedIn(ledger') = FailedIn(ledger) \ {w.id}
    BY <1>1, BeforeLanding, DeleteFacts
  <1>6. w.id \in StatementIds' => w.id \in orphaned'
    <2>1. RowTakenAway(w.id)
      <3>1. w \in Writes \ late'
        BY <1>1, BeforeLanding DEF Writes
      <3> QED BY <1>2, <3>1 DEF RowTakenAway
    <2>2. \A x \in Statements \cap late' : x.id = w.id => w.id \in Orphans
      BY <2>1 DEF Orphans
    <2>3. Statements' = Statements \cap late'
      BY BeforeLanding DEF Statements
    <2> QED BY <2>2, <2>3, BeforeLanding DEF StatementIds
  <1>7. \A m \in Ids \cap M : m \in excused' \cup orphaned \/ Truthful(m, ledger', schema')
    BY <1>1, <1>3, <1>5 DEF Truthful
  <1>8. /\ \A m \in Recorded \ Recorded' : m \in orphaned \/ ~InFlux(m)
        /\ \A m \in FailedIn(ledger) \ FailedIn(ledger') : m \in orphaned' \/ m \notin StatementIds'
        /\ excused' \subseteq Ids
    BY <1>1, <1>2, <1>3, <1>5, <1>6, BeforeLanding DEF Recorded
  <1>9. \A k \in Ids \ M : /\ k \in excused => k \in excused'
                           /\ k \in RecordedIn(ledger') <=> k \in RecordedIn(ledger)
                           /\ k \in FailedIn(ledger') <=> k \in FailedIn(ledger)
    BY <1>1, <1>5
  <1> HIDE DEF M
  <1> QED BY <1>1, <1>4, <1>5, <1>7, <1>8, <1>9, BeforeLanding, LandsFrame

\* The work comes to nothing.
LEMMA StopsKeeps ==
  ASSUME LateInv, NEW w \in late, Stops(w)
  PROVE  LateInv'
  <1>1. /\ late' = late \ {w} /\ orphaned' = orphaned
        /\ UNCHANGED <<lock, table, ledger, schema, excused, pc, call, fromDB, toRollback, toApply,
                       cur, applied, rolledBack, outcome>>
    BY DEF Stops, vars, database, plan, result
  <1>2. TypeInv'
    BY <1>1 DEF LateInv, TypeInv, TypeOK, SourceInv
  <1>3. ASSUME NEW v \in late' PROVE WorkInv(v)'
    BY <1>1, <1>3 DEF LateInv, WorkInv, About, TxRow, InFlux, Recorded
  <1>4. \A q \in Runners : LateRunnerInv(q)'
    <2>1. Recorded \ Recorded' = {} /\ orphaned \subseteq orphaned'
      BY <1>1 DEF Recorded
    <2>2. /\ StatementIds' \subseteq StatementIds /\ ArrivingIds' \subseteq ArrivingIds
          /\ UndoingIds' \subseteq UndoingIds /\ InsertIds' \subseteq InsertIds
      BY <1>1, OneLess
    <2> QED BY <1>1, <2>1, <2>2, LandingSpares
  <1>5. \A k : (InFlux(k)' <=> InFlux(k)) /\ (Recording(k)' <=> Recording(k))
    BY <1>1 DEF InFlux, Recording
  <1>6. \A k \in Ids : TruthAt(k)'
    BY <1>1, <1>5 DEF LateInv, TruthAt, Truthful
  <1>7. \A k \in Ids : FenceAt(k)'
    BY <1>1, <1>5, OneLess DEF LateInv, FenceAt
  <1> QED BY <1>1, <1>2, <1>3, <1>4, <1>6, <1>7, OneLess DEF LateInv
-----------------------------------------------------------------------------
\* The invariant and the theorems.

\* Nothing is late in a database that pg-migrate has never seen.
LEMMA LateInitInv == LateInit => LateInv
  <1> SUFFICES ASSUME LateInit PROVE LateInv
    OBVIOUS
  <1>1. /\ late = {} /\ orphaned = {} /\ TypeInv /\ UniqueIds(ledger) /\ LedgerTruth
    BY LedgerInit DEF LateInit, LedgerInv
  <1>2. StatementIds = {}
    BY <1>1 DEF StatementIds, Statements
  <1>3. \A r \in Runners : LateRunnerInv(r)
    BY DEF LateInit, Init, LateRunnerInv, Busy, Past, Checked, ScriptWindow
  <1>4. \A m \in Ids : TruthAt(m) /\ FenceAt(m)
    BY <1>1, <1>2 DEF LedgerTruth, TruthAt, FenceAt
  <1> QED BY <1>1, <1>3, <1>4 DEF LateInv

\* A step of Migrator beside the server's work.
LEMMA BesideStep ==
  ASSUME LateInv, Beside(Next)
  PROVE  LateInv'
  <1>1. Next /\ LocksRespected /\ UNCHANGED late /\ orphaned' = orphaned \cup Orphans
    BY DEF Beside
  <1>2. TypeInv'
    BY <1>1, TypeStep DEF LateInv
  <1>3. ASSUME NEW r \in Runners, Step(r) PROVE LateInv'
    <2>1. CASE \/ EnsureMigrationsTable(r) \/ RefuseIfFailed(r)
               \/ PlanUp(r) \/ PlanReconcile(r) \/ PlanDown(r) \/ EnsureReversible(r)
               \/ Baseline(r) \/ PlanDone(r) \/ CallFails(r)
      BY <1>1, <1>2, <2>1, PlanningBeside
    <2>2. CASE \E m \in Ids : SelectDown(r, m) \/ StartUpScript(r, m)
      BY <1>1, <1>2, <2>2, SelectBeside
    <2>3. CASE DownTx(r) \/ DeleteRow(r)
      BY <1>1, <1>2, <2>3, RollbackBeside
    <2>4. CASE DownStatement(r) \/ UpStatement(r)
      BY <1>1, <1>2, <2>4, StatementBeside
    <2>5. CASE MarkFailed(r) \/ RecordUp(r) \/ \E m \in Ids : ApplyTx(r, m)
      BY <1>1, <1>2, <2>5, MarkFailedBeside, RecordUpBeside, ApplyTxBeside
    <2>6. CASE Forget(r) \/ RecordApplied(r) \/ ReleaseLock(r)
      BY <1>1, <1>2, <2>6, ForgetBeside, RecordAppliedBeside, ReturnBeside
    <2> QED BY <1>3, <2>1, <2>2, <2>3, <2>4, <2>5, <2>6 DEF Step, TransactionStep, OtherStep
  <1>4. ASSUME NEW r \in Runners, NEW c \in Calls, Begin(r, c) \/ PlanOnly(r, c) PROVE LateInv'
    BY <1>1, <1>2, <1>4, BeginBeside, ReturnBeside
  <1>5. ASSUME NEW r \in Runners, Crash(r) PROVE LateInv'
    BY <1>1, <1>2, <1>5, CrashBeside
  <1>6. ASSUME NEW m \in Ids, Repair(m) PROVE LateInv'
    BY <1>1, <1>2, <1>6, RepairBeside
  <1> QED BY <1>1, <1>3, <1>4, <1>5, <1>6 DEF Next

\* Calls that leave work to the server, with their types.
LEMMA AbandonStep ==
  ASSUME LateInv, NEW r \in Runners,
         AbandonStatement(r) \/ AbandonWrite(r) \/ AbandonCommit(r) \/ CrashInStatement(r)
  PROVE  LateInv'
  <1>1. CASE CrashInStatement(r)
    <2>1. Next
      BY <1>1 DEF CrashInStatement, Next
    <2>2. TypeInv'
      BY <2>1, TypeStep DEF LateInv
    <2> QED BY <1>1, <2>2, CrashInStatementKeeps
  <1>2. CASE AbandonStatement(r)
    <2>1. TypeInv'
      <3>1. pc[r] \in {"upStmts", "downStmts"}
        BY <1>2, SentFacts DEF AbandonStatement
      <3> QED BY <1>2, <3>1 DEF LateInv, TypeInv, TypeOK, SourceInv, AbandonStatement, Goto,
                                database, plan, result, PCs
    <2> QED BY <1>2, <2>1, AbandonStatementKeeps
  <1>3. CASE AbandonWrite(r)
    <2>1. PICK w \in Sent(r) : w.kind \in {"insert", "mark", "delete"} /\ excused' = excused \cup {w.id}
      BY <1>3 DEF AbandonWrite
    <2>2. w.id \in Ids
      BY <2>1, SentFacts, WorkFields
    <2>3. TypeInv'
      BY <1>3, <2>1, <2>2 DEF LateInv, TypeInv, TypeOK, SourceInv, AbandonWrite, Return,
                              plan, result, PCs
    <2> QED BY <1>3, <2>3, AbandonWriteKeeps
  <1>4. CASE AbandonCommit(r)
    <2>1. PICK w \in Sent(r) :
            cur' = IF w.kind = "applying" THEN [cur EXCEPT ![r] = w.id] ELSE cur
      BY <1>4 DEF AbandonCommit
    <2>2. w.kind = "applying" => w.id \in Ids
      BY SentFacts, WorkFields
    <2>3. pc' = [pc EXCEPT ![r] = "return"] /\ outcome' = [outcome EXCEPT ![r] = "failed"]
          /\ UNCHANGED <<lock, table, ledger, schema, excused, call, fromDB, toRollback, toApply,
                         applied, rolledBack>>
      BY <1>4 DEF AbandonCommit, Return, database, plan, result
    <2>4. cur' \in [Runners -> Ids] /\ pc'[r] = "return" /\ \A q \in Runners : q # r => cur'[q] = cur[q]
      BY <2>1, <2>2, <2>3 DEF LateInv, TypeInv, TypeOK
    <2>5. TypeInv'
      BY <2>3, <2>4 DEF LateInv, TypeInv, TypeOK, SourceInv, PCs
    <2> QED BY <1>4, <2>5, AbandonCommitKeeps
  <1> QED BY <1>1, <1>2, <1>3, <1>4

\* The invariant is inductive.
LEMMA LateStep == LateInv /\ [LateNext]_lateVars => LateInv'
  <1> SUFFICES ASSUME LateInv, [LateNext]_lateVars PROVE LateInv'
    OBVIOUS
  <1>1. CASE Beside(Next)
    BY <1>1, BesideStep
  <1>2. ASSUME NEW r \in Runners,
               AbandonStatement(r) \/ AbandonWrite(r) \/ AbandonCommit(r) \/ CrashInStatement(r)
        PROVE  LateInv'
    BY <1>2, AbandonStep
  <1>3. ASSUME NEW w \in late, Lands(w) PROVE LateInv'
    BY <1>3, StatementLandsKeeps, ApplyCommitLandsKeeps, UndoCommitLandsKeeps,
       RowlessCommitLandsKeeps, AdoptCommitLandsKeeps, InsertLandsKeeps, MarkLandsKeeps,
       DeleteLandsKeeps DEF Lands
  <1>4. ASSUME NEW w \in late, Stops(w) PROVE LateInv'
    BY <1>4, StopsKeeps
  <1>5. CASE UNCHANGED lateVars
    <2>1. UNCHANGED <<lock, table, ledger, schema, excused, pc, call, fromDB, toRollback, toApply,
                      cur, applied, rolledBack, outcome, late, orphaned>>
      BY <1>5 DEF lateVars, vars, database, plan, result
    <2>2. TypeInv' /\ UniqueIds(ledger') /\ late' \subseteq Work /\ orphaned' \subseteq Ids
      BY <2>1 DEF LateInv, TypeInv, TypeOK, SourceInv
    <2>3. \A q \in Runners : LateRunnerInv(q)'
      BY <2>1, BystanderBeside DEF LateInv
    <2>4. \A k : (InFlux(k)' <=> InFlux(k)) /\ (Recording(k)' <=> Recording(k))
      BY <2>1 DEF InFlux, Recording
    <2>5. \A k \in Ids : TruthAt(k)' /\ FenceAt(k)'
      BY <2>1, <2>4, SameWork DEF LateInv, TruthAt, FenceAt, Truthful
    <2>6. \A w \in late' : WorkInv(w)'
      BY <2>1 DEF LateInv, WorkInv, About, TxRow, InFlux, Recorded
    <2> QED BY <2>2, <2>3, <2>5, <2>6 DEF LateInv
  <1> QED BY <1>1, <1>2, <1>3, <1>4, <1>5 DEF LateNext

\* The invariant says what the two properties say.
LEMMA LateInvImplies == LateInv => TruthBesideLateWork /\ LateStatementIsFenced
  <1> SUFFICES ASSUME LateInv PROVE TruthBesideLateWork /\ LateStatementIsFenced
    OBVIOUS
  <1>1. TruthBesideLateWork
    BY DEF LateInv, TruthAt, TruthBesideLateWork
  <1>2. ASSUME NEW w \in Statements, w.id \notin orphaned
        PROVE  LET busy == {r \in Runners : pc[r] \in ScriptWindow /\ cur[r] = w.id} IN
               \/ w.id \in FailedIn(ledger) /\ busy = {}
               \/ \E r \in Runners :
                    busy = {r} /\ pc[r] \in {"recordErr", "markFailed"} /\ lock = r
    <2>1. w.id \in StatementIds /\ w.id \in Ids
      BY WorkFields DEF LateInv, StatementIds, Statements
    <2>2. FenceAt(w.id)
      BY <2>1 DEF LateInv
    <2>3. CASE w.id \in FailedIn(ledger) /\ ~InFlux(w.id)
      BY <2>3 DEF InFlux
    <2>4. ASSUME NEW r \in Runners, pc[r] \in {"recordErr", "markFailed"}, cur[r] = w.id
          PROVE  /\ {q \in Runners : pc[q] \in ScriptWindow /\ cur[q] = w.id} = {r}
                 /\ lock = r
      <3>1. pc[r] \in ScriptWindow /\ pc[r] \in Busy
        BY <2>4 DEF ScriptWindow, Busy, PCs
      <3>2. \A q \in Runners : q # r => pc[q] \notin ScriptWindow
        BY <3>1, AloneInside DEF ScriptWindow
      <3>3. lock = r
        BY <3>1 DEF LateInv, LateRunnerInv
      <3> QED BY <2>4, <3>1, <3>2, <3>3
    <2> QED BY <1>2, <2>1, <2>2, <2>3, <2>4 DEF FenceAt, Recording
  <1> QED BY <1>1, <1>2 DEF LateStatementIsFenced

(***************************************************************************)
(* The ledger tells the truth beside work that lands late.  Whatever write *)
(* of the executor the server goes on with after its call was cancelled,   *)
(* timed out or died, a migration without a row has left no effect and one *)
(* with a healthy row has its whole effect, unless the operator has been   *)
(* told, or the late work is orphaned: it has lost the row that told of    *)
(* it, or another call has been at its migration since.                    *)
(***************************************************************************)
THEOREM TruthSurvivesLateWork == LateSpec => []TruthBesideLateWork
  BY LateInitInv, LateStep, LateInvImplies, PTL DEF LateSpec

(***************************************************************************)
(* A late statement of a notransaction script is fenced in by the failed   *)
(* row its call left, or is about to leave under the lock: no other call   *)
(* runs a script of its migration beside it.                               *)
(***************************************************************************)
THEOREM LateStatementsAreFenced == LateSpec => []LateStatementIsFenced
  BY LateInitInv, LateStep, LateInvImplies, PTL DEF LateSpec
=============================================================================
