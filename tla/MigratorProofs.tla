--------------------------- MODULE MigratorProofs ---------------------------
(***************************************************************************)
(* The proofs about Migrator, for every value of its constants, in three   *)
(* parts: type correctness, the truth of the ledger, and what a call does  *)
(* to the ledger from its plan to its return.                              *)
(***************************************************************************)
EXTENDS Migrator, SequenceTheorems, FiniteSetTheorems, TLAPS

(***************************************************************************)
(* Type correctness, for every value of the constants.  TypeOK             *)
(* is not inductive by itself: a row is written for a migration of the     *)
(* call's own source, and that the migration is one is what SourceInv      *)
(* says.                                                                   *)
(***************************************************************************)

\* The migrations a call may apply are files of its own source.
SourceInv ==
  \A r \in Runners :
    /\ toApply[r] \subseteq DOMAIN call[r].src
    /\ pc[r] = "idle" => toApply[r] = {}
    /\ pc[r] \in {"upStmts", "recordOk", "recordErr"} => cur[r] \in toApply[r]

TypeInv == TypeOK /\ SourceInv

\* The elements of a sequence of rows.
LEMMA RowsType ==
  ASSUME NEW rows \in Seq(Row)
  PROVE  /\ ToSet(rows) \subseteq Row
         /\ RecordedIn(rows) \subseteq Ids
         /\ \A k \in DOMAIN rows : rows[k] \in Row /\ rows[k].id \in Ids
  <1>1. \A k \in DOMAIN rows : rows[k] \in Row
    BY ElementOfSeq
  <1>2. \A row \in Row : row.id \in Ids
    BY DEF Row
  <1>3. ToSet(rows) \subseteq Row
    BY <1>1 DEF ToSet
  <1>4. RecordedIn(rows) \subseteq Ids
    BY <1>2, <1>3 DEF RecordedIn
  <1> QED BY <1>1, <1>2, <1>3, <1>4

\* An INSERT keeps the ledger a sequence of rows and adds one element.
LEMMA InsertRow ==
  ASSUME NEW rows \in Seq(Row), NEW row \in Row
  PROVE  /\ Insert(rows, row) \in Seq(Row)
         /\ ToSet(Insert(rows, row)) = ToSet(rows) \cup {row}
  <1>1. Insert(rows, row) \in Seq(Row)
    BY DEF Insert
  <1>2. ToSet(Insert(rows, row)) = ToSet(rows) \cup {row}
    BY AppendProperties DEF Insert, ToSet
  <1> QED BY <1>1, <1>2

\* A DELETE keeps the ledger a sequence of rows.
LEMMA DeleteType ==
  ASSUME NEW rows \in Seq(Row), NEW m
  PROVE  Delete(rows, m) \in Seq(Row)
  <1>1. CASE m \notin RecordedIn(rows)
    BY <1>1 DEF Delete
  <1>2. CASE m \in RecordedIn(rows)
    <2> DEFINE k == CHOOSE i \in DOMAIN rows : rows[i].id = m
    <2>1. \E i \in DOMAIN rows : rows[i].id = m
      BY <1>2 DEF RecordedIn, ToSet
    <2>2. k \in DOMAIN rows
      BY <2>1
    <2>3. k \in 1 .. Len(rows)
      BY <2>2
    <2> HIDE DEF k
    <2>4. SubSeq(rows, 1, k-1) \in Seq(Row) /\ SubSeq(rows, k+1, Len(rows)) \in Seq(Row)
      BY <2>3
    <2>5. RemoveAt(rows, k) \in Seq(Row)
      BY <2>4 DEF RemoveAt
    <2> QED BY <1>2, <2>5 DEF Delete, k
  <1> QED BY <1>1, <1>2

\* An UPDATE of the error column keeps the ledger a sequence of rows.
LEMMA MarkErrorType ==
  ASSUME NEW rows \in Seq(Row), NEW m
  PROVE  MarkError(rows, m) \in Seq(Row)
  <1>1. \A k \in DOMAIN rows : rows[k] \in Row
    BY ElementOfSeq
  <1>2. \A k \in DOMAIN rows : MarkError(rows, m)[k] \in Row
    BY <1>1 DEF MarkError, Row
  <1>3. MarkError(rows, m) \in [1 .. Len(rows) -> Row]
    BY <1>2 DEF MarkError
  <1> QED BY <1>3

\* A row written for a file of a source is a row.
LEMMA RowOfType ==
  ASSUME NEW src \in Sources, NEW m \in DOMAIN src, NEW err \in BOOLEAN
  PROVE  RowOf(src, m, err) \in Row
  BY DEF RowOf, Row, Sources, DownScripts

\* The rows of a baseline are appended as a sequence of rows.
LEMMA SliceType ==
  ASSUME NEW src \in Sources, NEW S \in SUBSET DOMAIN src, NEW s \in Slices(S)
  PROVE  [k \in DOMAIN s |-> RowOf(src, s[k], FALSE)] \in Seq(Row)
  <1>1. DOMAIN src \subseteq Ids
    BY DEF Sources
  <1>2. IsFiniteSet(S)
    BY <1>1, IdsAssumption, FS_Subset
  <1>3. Cardinality(S) \in Nat
    BY <1>2, FS_CardinalityType
  <1>4. DOMAIN s = 1 .. Cardinality(S) /\ \A k \in DOMAIN s : s[k] \in DOMAIN src
    BY DEF Slices
  <1>5. \A k \in DOMAIN s : RowOf(src, s[k], FALSE) \in Row
    BY <1>4, RowOfType
  <1> DEFINE n == Cardinality(S)
             f == [k \in 1 .. n |-> RowOf(src, s[k], FALSE)]
  <1>6. f \in [1 .. n -> Row]
    BY <1>4, <1>5
  <1>7. n \in Nat
    BY <1>3
  <1> HIDE DEF f, n
  <1>8. f \in Seq(Row)
    BY <1>6, <1>7
  <1> QED BY <1>8, <1>4 DEF f, n

\* The arguments of a runner that is not in a call.
LEMMA NoCallType == NoCall \in CallType
  <1>1. [m \in {} |-> m] \in Sources
    BY DEF Sources
  <1>2. (CHOOSE m \in Ids : TRUE) \in Ids
    BY IdsAssumption
  <1> QED BY <1>1, <1>2 DEF NoCall, CallType, Ops

\* What a call carries.
LEMMA CallFields ==
  ASSUME NEW c \in CallType
  PROVE  /\ c.op \in Ops /\ c.src \in Sources /\ c.opts \subseteq Options
         /\ c.count \in Nat /\ c.id \in Ids
         /\ DOMAIN c.src \subseteq Ids
  BY DEF CallType, Sources

\* The initial states are well typed.
LEMMA TypeInit == Init => TypeInv
  <1> SUFFICES ASSUME Init PROVE TypeInv
    OBVIOUS
  <1>1. NoCall \in CallType /\ NoCall.id \in Ids
    BY NoCallType, CallFields
  <1>2. \A L \in Legacies : L \subseteq Ids
    BY LegaciesAssumption
  <1>3. << >> \in Seq(Row)
    OBVIOUS
  <1>4. TypeOK
    BY <1>1, <1>2, <1>3 DEF Init, TypeOK, PCs
  <1>5. SourceInv
    BY DEF Init, SourceInv
  <1> QED BY <1>4, <1>5 DEF TypeInv

\* The types of the calls' local state, and of the shared state.
RunType ==
  /\ pc \in [Runners -> PCs]
  /\ call \in [Runners -> CallType]
  /\ fromDB \in [Runners -> Seq(Row)]
  /\ toRollback \in [Runners -> SUBSET Ids]
  /\ toApply \in [Runners -> SUBSET Ids]
  /\ cur \in [Runners -> Ids]
  /\ applied \in [Runners -> SUBSET Ids]
  /\ rolledBack \in [Runners -> SUBSET Ids]
  /\ outcome \in [Runners -> {"ok", "refused", "failed"}]

DatabaseType ==
  /\ lock \in Runners \cup {None}
  /\ table \in BOOLEAN
  /\ ledger \in Seq(Row)
  /\ schema \in [Ids -> {"none", "partial", "applied"}]
  /\ excused \subseteq Ids

\* TypeOK by parts: the shared database and the calls.
LEMMA TypeParts == (TypeOK <=> DatabaseType /\ RunType) /\ (TypeOK' <=> DatabaseType' /\ RunType')
  BY DEF TypeOK, DatabaseType, RunType

\* A call that returns keeps its local state well typed.
LEMMA ReturnKeepsType ==
  ASSUME RunType, SourceInv, NEW r \in Runners, NEW how \in {"ok", "refused", "failed"},
         Return(r, how), UNCHANGED <<call, plan, cur, result>>
  PROVE  RunType' /\ SourceInv'
  <1>1. RunType'
    BY DEF RunType, Return, plan, result, PCs
  <1>2. SourceInv'
    BY DEF RunType, SourceInv, Return, plan
  <1> QED BY <1>1, <1>2

\* So does the end of the rollback loop's body.
LEMMA RolledBackOneKeepsType ==
  ASSUME RunType, SourceInv, NEW r \in Runners, RolledBackOne(r), UNCHANGED <<call, cur>>
  PROVE  RunType' /\ SourceInv'
  <1>1. RunType'
    BY DEF RunType, RolledBackOne, Goto, PCs
  <1>2. SourceInv'
    BY DEF RunType, SourceInv, RolledBackOne, Goto
  <1> QED BY <1>1, <1>2

\* So does the end of the apply loop's body.
LEMMA AppliedOneKeepsType ==
  ASSUME RunType, SourceInv, NEW r \in Runners, NEW m \in Ids, AppliedOne(r, m),
         UNCHANGED call, cur' = [cur EXCEPT ![r] = m]
  PROVE  RunType' /\ SourceInv'
  <1>1. RunType'
    BY DEF RunType, AppliedOne, Goto, PCs
  <1>2. SourceInv'
    BY DEF RunType, SourceInv, AppliedOne, Goto
  <1> QED BY <1>1, <1>2

\* So does a plan whose migrations are the source's.
LEMMA StartPlanKeepsType ==
  ASSUME RunType, SourceInv, ledger \in Seq(Row), NEW r \in Runners,
         NEW rollback \in SUBSET Ids, NEW apply \in SUBSET Ids,
         apply \subseteq DOMAIN call[r].src, pc[r] = "plan",
         StartPlan(r, rollback, apply), UNCHANGED <<call, cur, result>>
  PROVE  RunType' /\ SourceInv'
  <1>1. /\ fromDB' = [fromDB EXCEPT ![r] = ledger]
        /\ toRollback' = [toRollback EXCEPT ![r] = rollback]
        /\ toApply' = [toApply EXCEPT ![r] = apply]
    BY DEF StartPlan
  <1>2. /\ \E where \in {"return", "reversible"} : pc' = [pc EXCEPT ![r] = where]
        /\ outcome' \in {outcome, [outcome EXCEPT ![r] = "ok"]}
    BY DEF StartPlan, Return, Goto
  <1>3. RunType'
    BY <1>1, <1>2 DEF RunType, result, PCs
  <1>4. SourceInv'
    BY <1>1, <1>2 DEF RunType, SourceInv
  <1> QED BY <1>3, <1>4

\* The state a step starts from, spelled out for the provers.
LEMMA TypeFacts ==
  ASSUME TypeInv, NEW r \in Runners
  PROVE  /\ call[r] \in CallType /\ call[r].src \in Sources /\ call[r].id \in Ids
         /\ DOMAIN call[r].src \subseteq Ids
         /\ toApply[r] \subseteq DOMAIN call[r].src
         /\ Recorded \subseteq Ids
         /\ pc[r] \in {"upStmts", "recordOk", "recordErr"} => cur[r] \in DOMAIN call[r].src
  <1>1. call[r] \in CallType
    BY DEF TypeInv, TypeOK
  <1>2. Recorded \subseteq Ids
    BY RowsType DEF TypeInv, TypeOK, Recorded
  <1> QED BY <1>1, <1>2, CallFields DEF TypeInv, SourceInv

\* Every step keeps the types.
LEMMA TypeStep == TypeInv /\ [Next]_vars => TypeInv'
  <1> SUFFICES ASSUME TypeInv, [Next]_vars PROVE TypeInv'
    OBVIOUS
  <1> USE DEF TypeInv
  <1>1. ASSUME NEW r \in Runners, NEW c \in Calls, Begin(r, c) PROVE TypeInv'
    BY <1>1, TypeFacts, CallsAssumption, CallFields DEF TypeOK, SourceInv, Begin, database, plan, result, Goto, Return, PCs
  <1>2. ASSUME NEW r \in Runners, NEW c \in Calls, PlanOnly(r, c) PROVE TypeInv'
    BY <1>2, TypeFacts, CallsAssumption, CallFields DEF TypeOK, SourceInv, BuildPlan, PlanOnly, database, plan, result, Goto, Return, PCs
  <1>3. ASSUME NEW r \in Runners, EnsureMigrationsTable(r) PROVE TypeInv'
    BY <1>3, TypeFacts DEF TypeOK, SourceInv, EnsureMigrationsTable, database, plan, result, Goto, Return, PCs
  <1>4. ASSUME NEW r \in Runners, RefuseIfFailed(r) PROVE TypeInv'
    BY <1>4, TypeFacts DEF TypeOK, SourceInv, RefuseIfFailed, database, plan, result, Goto, Return, PCs
  <1>5. ASSUME NEW r \in Runners, PlanUp(r) PROVE TypeInv'
    <2>1. UNCHANGED <<lock, database, call, cur, result>> /\ pc[r] = "plan"
      BY <1>5 DEF PlanUp
    <2> DEFINE p == BuildPlan(DOMAIN call[r].src, Recorded, FALSE)
    <2>2. p.toApply \in SUBSET Ids /\ p.toApply \subseteq DOMAIN call[r].src
      BY TypeFacts DEF BuildPlan
    <2>3. StartPlan(r, {}, p.toApply)
      BY <1>5 DEF PlanUp
    <2> HIDE DEF p
    <2>4. RunType' /\ SourceInv'
      BY <2>1, <2>2, <2>3, StartPlanKeepsType, TypeParts DEF DatabaseType
    <2> QED BY <2>1, <2>4, TypeParts DEF DatabaseType, database
  <1>6. ASSUME NEW r \in Runners, PlanReconcile(r) PROVE TypeInv'
    <2>1. UNCHANGED <<lock, database, call, cur, result>> /\ pc[r] = "plan"
      BY <1>6 DEF PlanReconcile
    <2> DEFINE p == BuildPlan(DOMAIN call[r].src, Recorded, TRUE)
    <2>2. /\ p.toRollback \in SUBSET Ids /\ p.toApply \in SUBSET Ids
          /\ p.toApply \subseteq DOMAIN call[r].src
      BY TypeFacts DEF BuildPlan
    <2>3. \/ UNCHANGED plan /\ Return(r, "refused")
          \/ StartPlan(r, p.toRollback, p.toApply)
      BY <1>6 DEF PlanReconcile
    <2> HIDE DEF p
    <2>4. RunType' /\ SourceInv'
      BY <2>1, <2>2, <2>3, StartPlanKeepsType, ReturnKeepsType, TypeParts DEF DatabaseType
    <2> QED BY <2>1, <2>4, TypeParts DEF DatabaseType, database
  <1>7. ASSUME NEW r \in Runners, PlanDown(r) PROVE TypeInv'
    <2>1. UNCHANGED <<lock, database, call, cur, result>> /\ pc[r] = "plan"
      BY <1>7 DEF PlanDown
    <2> DEFINE n == IF call[r].count = 0 \/ call[r].count > Len(ledger)
                      THEN Len(ledger) ELSE call[r].count
    <2>2. n \in Nat /\ n <= Len(ledger)
      BY TypeFacts, CallFields, LenProperties DEF TypeOK
    <2>3. StartPlan(r, Tail_n(ledger, n), {})
      BY <1>7 DEF PlanDown
    <2> HIDE DEF n
    <2>4. Tail_n(ledger, n) \in SUBSET Ids
      BY <2>2, RowsType, LenProperties DEF Tail_n, TypeOK
    <2>5. RunType' /\ SourceInv'
      BY <2>1, <2>3, <2>4, StartPlanKeepsType, TypeParts DEF DatabaseType
    <2> QED BY <2>1, <2>5, TypeParts DEF DatabaseType, database
  <1>8. ASSUME NEW r \in Runners, EnsureReversible(r) PROVE TypeInv'
    BY <1>8, TypeFacts DEF TypeOK, SourceInv, EnsureReversible, database, plan, result, Goto, Return, PCs
  <1>9. ASSUME NEW r \in Runners, NEW m \in Ids, SelectDown(r, m) PROVE TypeInv'
    BY <1>9, TypeFacts DEF TypeOK, SourceInv, SelectDown, database, plan, result, Goto, Return, PCs
  <1>10. ASSUME NEW r \in Runners, DownTx(r) PROVE TypeInv'
    <2>1. ledger' \in Seq(Row)
      BY <1>10, DeleteType DEF DownTx, TypeOK
    <2>2. schema' \in [Ids -> {"none", "partial", "applied"}] /\ excused' \subseteq Ids
      BY <1>10 DEF DownTx, TypeOK
    <2>3. /\ UNCHANGED <<lock, table, call, cur>>
          /\ RolledBackOne(r) \/ (Return(r, "failed") /\ UNCHANGED <<plan, result>>)
      BY <1>10 DEF DownTx
    <2>4. RunType' /\ SourceInv'
      BY <2>3, RolledBackOneKeepsType, ReturnKeepsType, TypeParts
    <2> QED BY <2>1, <2>2, <2>3, <2>4, TypeParts DEF DatabaseType
  <1>11. ASSUME NEW r \in Runners, DownStatement(r) PROVE TypeInv'
    <2>1. schema' \in [Ids -> {"none", "partial", "applied"}]
      BY <1>11 DEF DownStatement, TypeOK
    <2>2. UNCHANGED <<lock, table, ledger, excused, call, plan, cur, result, outcome>>
      BY <1>11 DEF DownStatement, Goto
    <2>3. pc[r] = "downStmts" /\ \E where \in {"downStmts", "deleteRow", "markFailed"} : pc' = [pc EXCEPT ![r] = where]
      BY <1>11 DEF DownStatement, Goto, TypeOK
    <2> QED BY <2>1, <2>2, <2>3 DEF TypeOK, SourceInv, plan, result, PCs
  <1>12. ASSUME NEW r \in Runners, MarkFailed(r) PROVE TypeInv'
    BY <1>12, TypeFacts, MarkErrorType DEF TypeOK, SourceInv, Bookkeeping, MarkFailed, database, plan, result, Goto, Return, PCs
  <1>13. ASSUME NEW r \in Runners, DeleteRow(r) PROVE TypeInv'
    <2>1. ledger' \in Seq(Row)
      BY <1>13, DeleteType DEF DeleteRow, Bookkeeping, TypeOK
    <2>2. excused' \subseteq Ids
      BY <1>13 DEF DeleteRow, Bookkeeping, TypeOK
    <2>3. /\ UNCHANGED <<lock, table, schema, call, cur>>
          /\ RolledBackOne(r) \/ (Return(r, "failed") /\ UNCHANGED <<plan, result>>)
      BY <1>13 DEF DeleteRow, Bookkeeping
    <2>4. RunType' /\ SourceInv'
      BY <2>3, RolledBackOneKeepsType, ReturnKeepsType, TypeParts
    <2> QED BY <2>1, <2>2, <2>3, <2>4, TypeParts DEF DatabaseType
  <1>14. ASSUME NEW r \in Runners, NEW m \in Ids, ApplyTx(r, m) PROVE TypeInv'
    <2>1. m \in DOMAIN call[r].src
      BY <1>14, TypeFacts DEF ApplyTx, NextToApply
    <2>2. RowOf(call[r].src, m, FALSE) \in Row
      BY <2>1, TypeFacts, RowOfType
    <2>3. ledger' \in {ledger, Insert(ledger, RowOf(call[r].src, m, FALSE))}
      BY <1>14 DEF ApplyTx
    <2>4. ledger' \in Seq(Row)
      <3>1. Insert(ledger, RowOf(call[r].src, m, FALSE)) \in Seq(Row)
        BY <2>2, InsertRow DEF TypeOK
      <3> QED BY <2>3, <3>1 DEF TypeOK
    <2>5. schema' \in [Ids -> {"none", "partial", "applied"}] /\ excused' \subseteq Ids
      BY <1>14 DEF ApplyTx, TypeOK
    <2>6. /\ UNCHANGED <<lock, table, call>> /\ cur' = [cur EXCEPT ![r] = m]
          /\ AppliedOne(r, m) \/ (Return(r, "failed") /\ UNCHANGED <<plan, result>>)
      BY <1>14 DEF ApplyTx
    <2>7. CASE AppliedOne(r, m)
      <3>1. RunType' /\ SourceInv'
        BY <2>6, <2>7, AppliedOneKeepsType, TypeParts
      <3> QED BY <2>4, <2>5, <2>6, <3>1, TypeParts DEF DatabaseType
    <2>8. CASE Return(r, "failed") /\ UNCHANGED <<plan, result>>
      <3>1. RunType' /\ SourceInv'
        BY <2>6, <2>8, TypeParts DEF RunType, SourceInv, Return, plan, result, PCs
      <3> QED BY <2>4, <2>5, <2>6, <3>1, TypeParts DEF DatabaseType
    <2> QED BY <2>6, <2>7, <2>8
  <1>15. ASSUME NEW r \in Runners, NEW m \in Ids, StartUpScript(r, m) PROVE TypeInv'
    BY <1>15, TypeFacts DEF TypeOK, SourceInv, NextToApply, StartUpScript, database, plan, result, Goto, Return, PCs
  <1>16. ASSUME NEW r \in Runners, UpStatement(r) PROVE TypeInv'
    <2>1. schema' \in [Ids -> {"none", "partial", "applied"}]
      BY <1>16 DEF UpStatement, TypeOK
    <2>2. UNCHANGED <<lock, table, ledger, excused, call, plan, cur, result, outcome>>
      BY <1>16 DEF UpStatement, Goto
    <2>3. pc[r] = "upStmts" /\ \E where \in {"upStmts", "recordOk", "recordErr"} : pc' = [pc EXCEPT ![r] = where]
      BY <1>16 DEF UpStatement, Goto, TypeOK
    <2> QED BY <2>1, <2>2, <2>3 DEF TypeOK, SourceInv, plan, result, PCs
  <1>17. ASSUME NEW r \in Runners, RecordUp(r) PROVE TypeInv'
    <2>1. cur[r] \in DOMAIN call[r].src
      BY <1>17, TypeFacts DEF RecordUp
    <2>2. \A err \in BOOLEAN : RowOf(call[r].src, cur[r], err) \in Row
      BY <2>1, TypeFacts, RowOfType
    <2>3. PICK err \in BOOLEAN :
            ledger' \in {ledger, Insert(ledger, RowOf(call[r].src, cur[r], err))}
      BY <1>17 DEF RecordUp, Bookkeeping
    <2>4. ledger' \in Seq(Row)
      <3>1. Insert(ledger, RowOf(call[r].src, cur[r], err)) \in Seq(Row)
        BY <2>2, InsertRow DEF TypeOK
      <3> QED BY <2>3, <3>1 DEF TypeOK
    <2>5. excused' \subseteq Ids
      BY <1>17 DEF RecordUp, Bookkeeping, TypeOK
    <2>6. /\ UNCHANGED <<lock, table, schema, call, cur>>
          /\ AppliedOne(r, cur[r]) \/ (Return(r, "failed") /\ UNCHANGED <<plan, result>>)
      BY <1>17 DEF RecordUp, Bookkeeping
    <2>7. cur[r] \in Ids /\ cur' = [cur EXCEPT ![r] = cur[r]]
      BY <2>6 DEF TypeOK
    <2>8. RunType' /\ SourceInv'
      BY <2>6, <2>7, AppliedOneKeepsType, ReturnKeepsType, TypeParts
    <2> QED BY <2>4, <2>5, <2>6, <2>8, TypeParts DEF DatabaseType
  <1>18. ASSUME NEW r \in Runners, PlanDone(r) PROVE TypeInv'
    BY <1>18, TypeFacts DEF TypeOK, SourceInv, PlanDone, database, plan, result, Goto, Return, PCs
  <1>19. ASSUME NEW r \in Runners, Forget(r) PROVE TypeInv'
    <2>1. ledger' \in Seq(Row)
      BY <1>19, DeleteType DEF Forget, TypeOK
    <2>2. excused' \subseteq Ids
      BY <1>19, TypeFacts DEF Forget, TypeOK
    <2>3. UNCHANGED <<lock, table, schema, call, plan, cur, result>> /\ \E how \in {"ok", "refused", "failed"} : Return(r, how)
      BY <1>19 DEF Forget
    <2> QED BY <2>1, <2>2, <2>3 DEF TypeOK, SourceInv, database, plan, result, Goto, Return, PCs
  <1>20. ASSUME NEW r \in Runners, Baseline(r) PROVE TypeInv'
    <2>1. UNCHANGED <<lock, database, call, cur, result>>
      BY <1>20 DEF Baseline
    <2>2. CASE Return(r, "refused") /\ UNCHANGED plan
      BY <2>1, <2>2 DEF TypeOK, SourceInv, database, plan, result, Goto, Return, PCs
    <2>3. CASE /\ fromDB' = [fromDB EXCEPT ![r] = ledger]
               /\ toApply' = [toApply EXCEPT ![r] = MigrationsThrough(DOMAIN call[r].src, call[r].id)]
               /\ Goto(r, "recordAll")
               /\ UNCHANGED toRollback
      <3>1. MigrationsThrough(DOMAIN call[r].src, call[r].id) \subseteq DOMAIN call[r].src
        BY DEF MigrationsThrough
      <3> QED BY <2>1, <2>3, <3>1, TypeFacts DEF TypeOK, SourceInv, database, plan, result, Goto, Return, PCs
    <2> QED BY <1>20, <2>2, <2>3 DEF Baseline
  <1>21. ASSUME NEW r \in Runners, RecordApplied(r) PROVE TypeInv'
    <2>1. ledger' \in Seq(Row)
      <3>1. \A s \in Slices(toApply[r]) : [k \in DOMAIN s |-> RowOf(call[r].src, s[k], FALSE)] \in Seq(Row)
        BY TypeFacts, SliceType
      <3>2. \/ UNCHANGED ledger
            \/ \E s \in Slices(toApply[r]) :
                 ledger' = ledger \o [k \in DOMAIN s |-> RowOf(call[r].src, s[k], FALSE)]
        BY <1>21 DEF RecordApplied
      <3>3. \A t \in Seq(Row) : ledger \o t \in Seq(Row)
        BY DEF TypeOK
      <3> QED BY <3>1, <3>2, <3>3 DEF TypeOK
    <2>2. excused' \subseteq Ids
      BY <1>21 DEF RecordApplied, TypeOK
    <2>3. applied' \in [Runners -> SUBSET Ids] /\ UNCHANGED rolledBack
      BY <1>21 DEF RecordApplied, TypeOK, result
    <2>4. UNCHANGED <<lock, table, schema, call, plan, cur>> /\ \E how \in {"ok", "failed"} : Return(r, how)
      BY <1>21 DEF RecordApplied
    <2> QED BY <2>1, <2>2, <2>3, <2>4 DEF TypeOK, SourceInv, database, plan, result, Goto, Return, PCs
  <1>22. ASSUME NEW r \in Runners, CallFails(r) PROVE TypeInv'
    BY <1>22, TypeFacts DEF TypeOK, SourceInv, CallFails, database, plan, result, Goto, Return, PCs
  <1>23. ASSUME NEW r \in Runners, ReleaseLock(r) PROVE TypeInv'
    BY <1>23, TypeFacts, NoCallType, CallFields DEF TypeOK, SourceInv, Reset, Unlock, ReleaseLock, database, plan, result, Goto, Return, PCs
  <1>24. ASSUME NEW r \in Runners, Crash(r) PROVE TypeInv'
    BY <1>24, TypeFacts, NoCallType, CallFields DEF TypeOK, SourceInv, Reset, Unlock, Crash, database, plan, result, Goto, Return, PCs
  <1>26. ASSUME NEW m \in Ids, Repair(m) PROVE TypeInv'
    BY <1>26 DEF TypeOK, SourceInv, Repair, database, plan, result, Goto, Return, PCs
  <1>27. ASSUME UNCHANGED vars PROVE TypeInv'
    BY <1>27 DEF TypeOK, SourceInv, vars, database, plan, result
  <1> QED
    BY <1>1, <1>2, <1>3, <1>4, <1>5, <1>6, <1>7, <1>8, <1>9, <1>10, <1>11, <1>12, <1>13, <1>14, <1>15, <1>16, <1>17, <1>18, <1>19, <1>20, <1>21, <1>22, <1>23, <1>24, <1>26, <1>27 DEF Next, Step, TransactionStep, OtherStep

\* Type correctness: every variable of the service keeps its type, and a call
\* never applies or records a migration its own source does not have.
THEOREM TypeCorrect == Spec => []TypeOK
  <1>1. TypeInv => TypeOK
    BY DEF TypeInv
  <1> QED BY TypeInit, TypeStep, <1>1, PTL DEF Spec

-----------------------------------------------------------------------------
(***************************************************************************)
(* The ledger tells the truth: for every set of runners, IDs, sources and  *)
(* calls.                                                                  *)
(***************************************************************************)

\* The primary key: no two rows carry the same ID.
UniqueIds(rows) == \A j, k \in DOMAIN rows : rows[j].id = rows[k].id => j = k

\* A DELETE of the row at p closes the gap.
LEMMA DeletePositions ==
  ASSUME NEW rows \in Seq(Row), NEW p \in DOMAIN rows, UniqueIds(rows)
  PROVE  LET d == Delete(rows, rows[p].id)
             n == Len(rows)
         IN  /\ d = SubSeq(rows, 1, p-1) \o SubSeq(rows, p+1, n)
             /\ n \in Nat /\ p \in 1 .. n /\ DOMAIN rows = 1 .. n
             /\ d \in Seq(Row) /\ Len(d) = n - 1 /\ DOMAIN d = 1 .. n-1
             /\ \A i \in 1 .. n-1 : i < p => d[i] = rows[i]
             /\ \A i \in 1 .. n-1 : i >= p => d[i] = rows[i+1]
  <1> DEFINE d == Delete(rows, rows[p].id)
             n == Len(rows)
             s1 == SubSeq(rows, 1, p-1)
             s2 == SubSeq(rows, p+1, n)
  <1>1. p \in 1 .. n /\ n \in Nat /\ DOMAIN rows = 1 .. n
    BY LenProperties
  <1>2. d = s1 \o s2
    <2>1. rows[p].id \in RecordedIn(rows)
      BY DEF RecordedIn, ToSet
    <2>2. (CHOOSE i \in DOMAIN rows : rows[i].id = rows[p].id) = p
      BY DEF UniqueIds
    <2> QED BY <2>1, <2>2 DEF Delete, RemoveAt
  <1> HIDE DEF n
  <1>3. \A i \in 1 .. n : rows[i] \in Row
    BY <1>1, RowsType
  <1>4. /\ s1 \in Seq(Row) /\ Len(s1) = p - 1
        /\ \A i \in 1 .. p-1 : s1[i] = rows[i]
    <2>1. \A i \in 1 .. p-1 : rows[i] \in Row
      BY <1>1, <1>3
    <2> QED BY <1>1, <2>1, SubSeqProperties
  <1>5. /\ s2 \in Seq(Row) /\ Len(s2) = n - p
        /\ \A i \in 1 .. n-p : s2[i] = rows[p+i]
    <2>1. \A i \in p+1 .. n : rows[i] \in Row
      BY <1>1, <1>3
    <2>2. p + 1 \in Int /\ n \in Int
      BY <1>1
    <2>3. /\ s2 \in Seq(Row)
          /\ Len(s2) = IF p+1 <= n THEN n-(p+1)+1 ELSE 0
          /\ \A i \in 1 .. n-(p+1)+1 : s2[i] = rows[(p+1)+i-1]
      BY <2>1, <2>2, SubSeqProperties
    <2> HIDE DEF s2
    <2>4. Len(s2) = n - p
      <3>1. Len(s2) = IF p+1 <= n THEN n-(p+1)+1 ELSE 0
        BY <2>3
      <3>2. CASE p + 1 <= n
        <4>1. n-(p+1)+1 = n - p
          BY <1>1
        <4> QED BY <3>1, <3>2, <4>1
      <3>3. CASE ~(p + 1 <= n)
        <4>1. n - p = 0
          BY <1>1, <3>3
        <4> QED BY <3>1, <3>3, <4>1
      <3> QED BY <3>2, <3>3
    <2>5. ASSUME NEW i \in 1 .. n-p PROVE s2[i] = rows[p+i]
      <3>1. i \in 1 .. n-(p+1)+1 /\ (p+1)+i-1 = p+i
        BY <1>1
      <3> QED BY <2>3, <3>1
    <2> QED BY <2>3, <2>4, <2>5
  <1> HIDE DEF d, s1, s2
  <1>6. /\ d \in Seq(Row) /\ Len(d) = (p - 1) + (n - p)
        /\ \A i \in 1 .. n-1 : d[i] = IF i <= p - 1 THEN s1[i] ELSE s2[i - (p - 1)]
    <2>1. /\ d \in Seq(Row) /\ Len(d) = Len(s1) + Len(s2)
          /\ \A i \in 1 .. Len(s1) + Len(s2) :
               d[i] = IF i <= Len(s1) THEN s1[i] ELSE s2[i - Len(s1)]
      BY <1>2, <1>4, <1>5, ConcatProperties
    <2>2. Len(s1) = p - 1 /\ Len(s2) = n - p /\ (p - 1) + (n - p) = n - 1
      BY <1>1, <1>4, <1>5
    <2> QED BY <2>1, <2>2
  <1>7. Len(d) = n - 1 /\ d \in Seq(Row) /\ DOMAIN d = 1 .. n-1
    BY <1>1, <1>6, LenProperties
  <1>8. ASSUME NEW i \in 1 .. n-1, i < p PROVE d[i] = rows[i]
    BY <1>1, <1>4, <1>6, <1>8
  <1>9. ASSUME NEW i \in 1 .. n-1, i >= p PROVE d[i] = rows[i+1]
    <2>1. i - (p - 1) \in 1 .. n-p /\ p + (i - (p - 1)) = i + 1
      BY <1>1, <1>9
    <2>2. ~(i <= p - 1)
      BY <1>1, <1>9
    <2>3. d[i] = s2[i - (p - 1)]
      BY <1>6, <2>2
    <2> QED BY <1>5, <2>1, <2>3
  <1> QED BY <1>1, <1>2, <1>7, <1>8, <1>9 DEF d, n, s1, s2

\* A DELETE removes the rows with that ID and no other.
LEMMA DeleteSets ==
  ASSUME NEW rows \in Seq(Row), NEW m, UniqueIds(rows)
  PROVE  /\ UniqueIds(Delete(rows, m))
         /\ ToSet(Delete(rows, m)) = {row \in ToSet(rows) : row.id # m}
  <1>1. CASE m \notin RecordedIn(rows)
    BY <1>1 DEF Delete, RecordedIn
  <1>2. CASE m \in RecordedIn(rows)
    <2> DEFINE d == Delete(rows, m)
               n == Len(rows)
    <2>1. PICK p \in DOMAIN rows : rows[p].id = m
      BY <1>2 DEF RecordedIn, ToSet
    <2>2. p \in 1 .. n /\ n \in Nat /\ DOMAIN rows = 1 .. n
      BY DeletePositions
    <2>3. /\ DOMAIN d = 1 .. n-1
          /\ \A i \in 1 .. n-1 : i < p => d[i] = rows[i]
          /\ \A i \in 1 .. n-1 : i >= p => d[i] = rows[i+1]
      BY <2>1, DeletePositions
    <2> HIDE DEF d, n
    <2>4. UniqueIds(d)
      <3> SUFFICES ASSUME NEW i \in 1 .. n-1, NEW j \in 1 .. n-1, d[i].id = d[j].id
                   PROVE  i = j
        BY <2>3 DEF UniqueIds
      <3>1. \A k, l \in 1 .. n : rows[k].id = rows[l].id => k = l
        BY <2>2 DEF UniqueIds
      <3> QED BY <2>2, <2>3, <3>1
    <2>5. ToSet(d) \subseteq {row \in ToSet(rows) : row.id # m}
      <3> SUFFICES ASSUME NEW i \in 1 .. n-1
                   PROVE  d[i].id # m /\ \E k \in 1 .. n : d[i] = rows[k]
        <4>1. \A row \in ToSet(d) : \E i \in 1 .. n-1 : row = d[i]
          BY <2>3 DEF ToSet
        <4>2. \A k \in 1 .. n : rows[k] \in ToSet(rows)
          BY <2>2 DEF ToSet
        <4> QED BY <4>1, <4>2
      <3>1. \A k \in 1 .. n : rows[k].id = m => k = p
        BY <2>1, <2>2 DEF UniqueIds
      <3>2. CASE i < p
        <4>1. i \in 1 .. n /\ i # p /\ d[i] = rows[i]
          BY <2>2, <2>3, <3>2
        <4> QED BY <3>1, <4>1
      <3>3. CASE i >= p
        <4>1. i + 1 \in 1 .. n /\ i + 1 # p /\ d[i] = rows[i+1]
          BY <2>2, <2>3, <3>3
        <4> QED BY <3>1, <4>1
      <3> QED BY <2>2, <3>2, <3>3
    <2>6. {row \in ToSet(rows) : row.id # m} \subseteq ToSet(d)
      <3> SUFFICES ASSUME NEW j \in 1 .. n, rows[j].id # m
                   PROVE  \E i \in 1 .. n-1 : d[i] = rows[j]
        <4>1. \A row \in ToSet(rows) : \E j \in 1 .. n : row = rows[j]
          BY <2>2 DEF ToSet
        <4>2. \A i \in 1 .. n-1 : d[i] \in ToSet(d)
          BY <2>3 DEF ToSet
        <4> QED BY <4>1, <4>2
      <3>1. CASE j < p
        BY <2>2, <2>3, <3>1
      <3>2. CASE j > p
        <4>1. j - 1 \in 1 .. n-1 /\ j - 1 >= p /\ (j - 1) + 1 = j
          BY <2>2, <3>2
        <4> QED BY <2>3, <4>1
      <3>3. j # p
        BY <2>1
      <3> QED BY <2>2, <3>1, <3>2, <3>3
    <2> QED BY <2>4, <2>5, <2>6 DEF d
  <1> QED BY <1>1, <1>2

\* What a DELETE does to the three sets the invariants speak of.
LEMMA DeleteFacts ==
  ASSUME NEW rows \in Seq(Row), NEW m, UniqueIds(rows)
  PROVE  /\ UniqueIds(Delete(rows, m))
         /\ RecordedIn(Delete(rows, m)) = RecordedIn(rows) \ {m}
         /\ FailedIn(Delete(rows, m)) = FailedIn(rows) \ {m}
         /\ IrreversibleIn(Delete(rows, m)) = IrreversibleIn(rows) \ {m}
  BY DeleteSets DEF RecordedIn, FailedIn, IrreversibleIn

\* The same for an INSERT that the primary key lets through.
LEMMA InsertFacts ==
  ASSUME NEW rows \in Seq(Row), NEW row \in Row, UniqueIds(rows), row.id \notin RecordedIn(rows)
  PROVE  /\ UniqueIds(Insert(rows, row))
         /\ RecordedIn(Insert(rows, row)) = RecordedIn(rows) \cup {row.id}
         /\ FailedIn(Insert(rows, row)) = FailedIn(rows) \cup (IF row.err THEN {row.id} ELSE {})
  <1>1. RecordedIn(Insert(rows, row)) = RecordedIn(rows) \cup {row.id}
    BY InsertRow DEF RecordedIn
  <1>2. FailedIn(Insert(rows, row)) = FailedIn(rows) \cup (IF row.err THEN {row.id} ELSE {})
    BY InsertRow DEF FailedIn
  <1>3. UniqueIds(Insert(rows, row))
    <2> DEFINE t == Insert(rows, row)
               n == Len(rows)
    <2>1. /\ n \in Nat /\ DOMAIN rows = 1 .. n /\ DOMAIN t = 1 .. n+1
          /\ \A i \in 1 .. n : t[i] = rows[i]
          /\ t[n+1] = row
      BY AppendProperties, LenProperties DEF Insert
    <2>2. \A i \in 1 .. n : rows[i].id # row.id
      BY <2>1 DEF RecordedIn, ToSet
    <2> HIDE DEF t, n
    <2> SUFFICES ASSUME NEW i \in 1 .. n+1, NEW j \in 1 .. n+1, t[i].id = t[j].id
                 PROVE  i = j
      BY <2>1 DEF UniqueIds, t
    <2>3. \A k, l \in 1 .. n : rows[k].id = rows[l].id => k = l
      BY <2>1 DEF UniqueIds
    <2> QED BY <2>1, <2>2, <2>3
  <1> QED BY <1>1, <1>2, <1>3

\* The UPDATE of the error column touches the one row with that ID.
LEMMA MarkErrorPositions ==
  ASSUME NEW rows \in Seq(Row), NEW p \in DOMAIN rows, UniqueIds(rows)
  PROVE  LET t == MarkError(rows, rows[p].id) IN
         /\ t = [rows EXCEPT ![p].err = TRUE]
         /\ DOMAIN t = DOMAIN rows /\ Len(t) = Len(rows)
         /\ \A k \in DOMAIN rows : t[k].id = rows[k].id
  <1> DEFINE t == MarkError(rows, rows[p].id)
             e == [rows EXCEPT ![p].err = TRUE]
             n == Len(rows)
  <1>1. n \in Nat /\ DOMAIN rows = 1 .. n /\ \A k \in 1 .. n : rows[k] \in Row
    BY LenProperties, RowsType
  <1>2. t = [k \in 1 .. n |-> IF rows[k].id = rows[p].id
                                THEN [rows[k] EXCEPT !.err = TRUE] ELSE rows[k]]
    BY <1>1 DEF MarkError
  <1>3. e = [k \in 1 .. n |-> IF k = p THEN [rows[k] EXCEPT !.err = TRUE] ELSE rows[k]]
    BY <1>1
  <1>4. \A k \in 1 .. n : rows[k].id = rows[p].id <=> k = p
    BY <1>1 DEF UniqueIds
  <1> HIDE DEF t, e, n
  <1>5. t = e
    BY <1>2, <1>3, <1>4
  <1>6. \A k \in 1 .. n : t[k].id = rows[k].id
    BY <1>1, <1>2 DEF Row
  <1>7. DOMAIN t = 1 .. n
    BY <1>2
  <1>8. Len(t) = n
    BY <1>1, <1>7, MarkErrorType, LenProperties DEF t
  <1> QED BY <1>1, <1>5, <1>6, <1>7, <1>8 DEF t, e, n

\* The same for the UPDATE of the error column.
LEMMA MarkErrorFacts ==
  ASSUME NEW rows \in Seq(Row), NEW m, UniqueIds(rows), m \in RecordedIn(rows)
  PROVE  /\ UniqueIds(MarkError(rows, m))
         /\ RecordedIn(MarkError(rows, m)) = RecordedIn(rows)
         /\ FailedIn(MarkError(rows, m)) = FailedIn(rows) \cup {m}
  <1> DEFINE t == MarkError(rows, m)
  <1>1. \A k \in DOMAIN rows : rows[k] \in Row
    BY RowsType
  <1>2. DOMAIN t = DOMAIN rows
    BY DEF MarkError
  <1>3. \A k \in DOMAIN rows : /\ t[k].id = rows[k].id
                               /\ rows[k].id = m => t[k].err
                               /\ rows[k].id # m => t[k] = rows[k]
    <2> SUFFICES ASSUME NEW k \in DOMAIN rows
                 PROVE  /\ t[k].id = rows[k].id
                        /\ rows[k].id = m => t[k].err
                        /\ rows[k].id # m => t[k] = rows[k]
      OBVIOUS
    <2>1. rows[k] \in Row
      BY <1>1
    <2>2. t[k] = IF rows[k].id = m THEN [rows[k] EXCEPT !.err = TRUE] ELSE rows[k]
      BY DEF MarkError
    <2> QED BY <2>1, <2>2 DEF Row
  <1> HIDE DEF t
  <1>4. UniqueIds(t)
    BY <1>2, <1>3 DEF UniqueIds
  <1>5. RecordedIn(t) = RecordedIn(rows)
    BY <1>2, <1>3 DEF RecordedIn, ToSet
  <1>6. FailedIn(t) = FailedIn(rows) \cup {m}
    <2>1. \A i : i \in FailedIn(t) <=> \E k \in DOMAIN t : t[k].err /\ i = t[k].id
      BY DEF FailedIn, ToSet
    <2>2. \A i : i \in FailedIn(rows) <=> \E k \in DOMAIN rows : rows[k].err /\ i = rows[k].id
      BY DEF FailedIn, ToSet
    <2>3. \E k \in DOMAIN rows : rows[k].id = m
      BY DEF RecordedIn, ToSet
    <2>4. ASSUME NEW i \in FailedIn(t), i # m PROVE i \in FailedIn(rows)
      <3>1. PICK k \in DOMAIN t : t[k].err /\ i = t[k].id
        BY <2>1
      <3>2. k \in DOMAIN rows /\ rows[k].id = i
        BY <1>2, <1>3, <3>1
      <3>3. t[k] = rows[k]
        BY <1>3, <2>4, <3>2
      <3>4. rows[k].err
        BY <3>1, <3>3
      <3> QED BY <2>2, <3>2, <3>4
    <2>5. ASSUME NEW i \in FailedIn(rows) PROVE i \in FailedIn(t)
      <3>1. PICK k \in DOMAIN rows : rows[k].err /\ i = rows[k].id
        BY <2>2
      <3>2. t[k].err /\ i = t[k].id
        BY <1>3, <3>1
      <3> QED BY <1>2, <2>1, <3>2
    <2>6. m \in FailedIn(t)
      BY <1>2, <1>3, <2>1, <2>3
    <2> QED BY <2>4, <2>5, <2>6
  <1> QED BY <1>4, <1>5, <1>6 DEF t

\* Rows with new IDs, written after the others.
LEMMA ConcatFacts ==
  ASSUME NEW rows \in Seq(Row), NEW more \in Seq(Row), UniqueIds(rows), UniqueIds(more),
         RecordedIn(rows) \cap RecordedIn(more) = {}
  PROVE  /\ UniqueIds(rows \o more)
         /\ ToSet(rows \o more) = ToSet(rows) \cup ToSet(more)
         /\ RecordedIn(rows \o more) = RecordedIn(rows) \cup RecordedIn(more)
         /\ FailedIn(rows \o more) = FailedIn(rows) \cup FailedIn(more)
  <1> DEFINE t == rows \o more
             n == Len(rows)
             l == Len(more)
  <1>1. /\ n \in Nat /\ DOMAIN rows = 1 .. n /\ l \in Nat /\ DOMAIN more = 1 .. l
        /\ DOMAIN t = 1 .. n + l
        /\ \A i \in 1 .. n + l : t[i] = IF i <= n THEN rows[i] ELSE more[i - n]
    BY ConcatProperties, LenProperties
  <1> HIDE DEF t, n, l
  <1>2. \A i \in 1 .. n : t[i] = rows[i] /\ i \in 1 .. n + l
    BY <1>1
  <1>3. ASSUME NEW i \in 1 .. l PROVE t[n + i] = more[i] /\ n + i \in 1 .. n + l
    <2>1. n + i \in 1 .. n + l /\ ~(n + i <= n) /\ (n + i) - n = i
      BY <1>1
    <2> QED BY <1>1, <2>1
  <1>4. ASSUME NEW i \in 1 .. n + l
        PROVE  (i \in 1 .. n /\ t[i] = rows[i]) \/ \E j \in 1 .. l : i = n + j /\ t[i] = more[j]
    <2>1. CASE i <= n
      BY <1>1, <2>1
    <2>2. CASE i > n
      <3>1. i - n \in 1 .. l /\ i = n + (i - n) /\ ~(i <= n)
        BY <1>1, <2>2
      <3> QED BY <1>1, <3>1
    <2> QED BY <1>1, <2>1, <2>2
  <1>5. ToSet(t) = ToSet(rows) \cup ToSet(more)
    <2>1. ToSet(t) = {t[i] : i \in 1 .. n + l} /\ ToSet(rows) = {rows[i] : i \in 1 .. n}
          /\ ToSet(more) = {more[i] : i \in 1 .. l}
      BY <1>1 DEF ToSet
    <2>2. ToSet(t) \subseteq ToSet(rows) \cup ToSet(more)
      BY <1>4, <2>1
    <2>3. ToSet(rows) \subseteq ToSet(t)
      BY <1>2, <2>1
    <2>4. ToSet(more) \subseteq ToSet(t)
      BY <1>3, <2>1
    <2> QED BY <2>2, <2>3, <2>4
  <1>6. UniqueIds(t)
    <2> SUFFICES ASSUME NEW i \in 1 .. n + l, NEW j \in 1 .. n + l, t[i].id = t[j].id
                 PROVE  i = j
      BY <1>1 DEF UniqueIds
    <2>1. \A a \in 1 .. n, b \in 1 .. l : rows[a].id # more[b].id
      BY <1>1 DEF RecordedIn, ToSet
    <2>2. /\ \A a, b \in 1 .. n : rows[a].id = rows[b].id => a = b
          /\ \A a, b \in 1 .. l : more[a].id = more[b].id => a = b
      BY <1>1 DEF UniqueIds
    <2> QED BY <1>4, <2>1, <2>2
  <1>7. RecordedIn(t) = RecordedIn(rows) \cup RecordedIn(more)
    BY <1>5 DEF RecordedIn
  <1>8. FailedIn(t) = FailedIn(rows) \cup FailedIn(more)
    BY <1>5 DEF FailedIn
  <1> QED BY <1>5, <1>6, <1>7, <1>8 DEF t

\* The rows of a baseline in an empty ledger.
LEMMA AdoptFacts ==
  ASSUME NEW src \in Sources, NEW S \in SUBSET DOMAIN src, NEW s \in Slices(S)
  PROVE  LET f == [k \in DOMAIN s |-> RowOf(src, s[k], FALSE)] IN
         /\ << >> \o f = f
         /\ UniqueIds(<< >> \o f)
         /\ RecordedIn(<< >> \o f) = S
         /\ FailedIn(<< >> \o f) = {}
  <1> DEFINE f == [k \in DOMAIN s |-> RowOf(src, s[k], FALSE)]
  <1>1. << >> \o f = f
    <2>1. f \in Seq(Row)
      BY SliceType
    <2> HIDE DEF f
    <2> QED BY <2>1, ConcatEmptySeq
  <1>2. DOMAIN f = DOMAIN s /\ \A k \in DOMAIN s : f[k].id = s[k] /\ f[k].err = FALSE
    BY DEF RowOf
  <1>3. DOMAIN s \subseteq Nat /\ (\A k \in DOMAIN s : s[k] \in Nat) /\ ToSet(s) = S
    <2>1. Cardinality(S) \in Nat /\ S \subseteq Nat
      <3>1. S \subseteq Ids
        BY DEF Sources
      <3> QED BY <3>1, IdsAssumption, FS_Subset, FS_CardinalityType
    <2>2. s \in [1 .. Cardinality(S) -> S] /\ ToSet(s) = S
      BY DEF Slices
    <2> QED BY <2>1, <2>2
  <1>4. \A j, k \in DOMAIN s : s[j] = s[k] => j = k
    <2>1. \A j, k \in DOMAIN s : j < k => s[j] < s[k]
      BY DEF Slices
    <2> QED BY <1>3, <2>1
  <1> HIDE DEF f
  <1>5. UniqueIds(f)
    BY <1>2, <1>4 DEF UniqueIds
  <1>6. RecordedIn(f) = S
    BY <1>2, <1>3 DEF RecordedIn, ToSet
  <1>7. FailedIn(f) = {}
    BY <1>2 DEF FailedIn, ToSet
  <1> QED BY <1>1, <1>5, <1>6, <1>7 DEF f
-----------------------------------------------------------------------------
(***************************************************************************)
(* The inductive invariant.  LedgerTruth is not inductive: that a rollback *)
(* leaves no effect behind needs EnsureReversible to have run on the very  *)
(* ledger the rollback works on, which in turn needs the lock to have kept *)
(* everybody else out since.  RunnerInv says what a call knows of the      *)
(* database at each of its control points.                                 *)
(***************************************************************************)

\* The control points inside withLock.
Busy == PCs \ {"idle", "return"}

\* Behind EnsureReversible; behind refuseIfFailed.
Checked == {"execute", "downTx"} \cup ScriptWindow
Past == {"plan", "reversible"} \cup Checked

RunnerInv(r) ==
  /\ pc[r] \in Busy => lock = r
  /\ pc[r] \in Past => FailedIn(ledger) = {}
  /\ pc[r] \in Checked => toRollback[r] \cap IrreversibleIn(ledger) = {}
  /\ pc[r] \in {"downTx", "downStmts", "markFailed", "deleteRow"} => cur[r] \in toRollback[r] \cap Recorded
  /\ pc[r] \in {"upStmts", "recordOk", "recordErr"} => toRollback[r] = {}
  /\ pc[r] = "recordOk" => schema[cur[r]] = "applied"
  /\ pc[r] = "deleteRow" => schema[cur[r]] = "none"
  /\ pc[r] = "recordAll" => ledger = << >>

RunnersInv == \A r \in Runners : RunnerInv(r)

LedgerInv == TypeInv /\ UniqueIds(ledger) /\ RunnersInv /\ LedgerTruth

\* While r is inside withLock nobody else is, so a step of r in which only
\* its own control point moves leaves the others' invariant alone.
LEMMA OthersAreOut ==
  ASSUME TypeInv, RunnersInv, NEW r \in Runners, pc[r] \in Busy,
         NEW x, pc' = [pc EXCEPT ![r] = x], RunnerInv(r)'
  PROVE  RunnersInv'
  <1> SUFFICES ASSUME NEW q \in Runners, q # r PROVE RunnerInv(q)'
    BY DEF RunnersInv
  <1>1. lock = r /\ pc[q] \notin Busy
    BY DEF RunnersInv, RunnerInv
  <1>2. pc'[q] = pc[q] /\ pc[q] \in PCs
    BY DEF TypeInv, TypeOK
  <1>3. pc'[q] \in {"idle", "return"}
    BY <1>1, <1>2 DEF Busy
  <1> QED BY <1>3 DEF RunnerInv, Busy, Past, Checked, ScriptWindow

\* A step that leaves the database alone, and q's own state, keeps what q knows.
LEMMA BystanderKeeps ==
  ASSUME NEW q \in Runners, RunnerInv(q), UNCHANGED <<ledger, schema>>,
         pc'[q] = pc[q], cur'[q] = cur[q], toRollback'[q] = toRollback[q],
         lock = q => lock' = q
  PROVE  RunnerInv(q)'
  BY DEF RunnerInv, Recorded

\* A step that changes neither the database nor a running script.
LEMMA QuietKeepsTruth ==
  ASSUME LedgerTruth, UNCHANGED <<ledger, schema, excused>>,
         \A q \in Runners : pc[q] \in ScriptWindow => pc'[q] \in ScriptWindow /\ cur'[q] = cur[q]
  PROVE  LedgerTruth'
  BY DEF LedgerTruth, InFlux, Truthful

\* A step of the lock's holder that touches the migrations in M alone.
LEMMA LocalKeepsTruth ==
  ASSUME LedgerTruth, RunnersInv, NEW r \in Runners, pc[r] \in Busy, NEW M,
         pc[r] \in ScriptWindow => cur[r] \in M,
         \A m \in Ids \ M : /\ m \in excused => m \in excused'
                            /\ m \in RecordedIn(ledger') <=> m \in RecordedIn(ledger)
                            /\ m \in FailedIn(ledger) => m \in FailedIn(ledger')
                            /\ schema'[m] = schema[m],
         \A m \in M : m \in excused' \/ InFlux(m)' \/ Truthful(m, ledger', schema')
  PROVE  LedgerTruth'
  <1> SUFFICES ASSUME NEW m \in Ids, m \notin excused', m \notin M
               PROVE  Truthful(m, ledger', schema')
    BY DEF LedgerTruth
  <1>1. ~ InFlux(m)
    <2> SUFFICES ASSUME NEW q \in Runners, pc[q] \in ScriptWindow, cur[q] = m PROVE FALSE
      BY DEF InFlux
    <2>1. lock = q /\ lock = r
      BY DEF RunnersInv, RunnerInv, Busy, PCs, ScriptWindow
    <2> QED BY <2>1
  <1>2. Truthful(m, ledger, schema)
    BY <1>1 DEF LedgerTruth
  <1> QED BY <1>2 DEF Truthful

\* A failed row is a row.
LEMMA FailedIsRecorded == ASSUME NEW rows PROVE FailedIn(rows) \subseteq RecordedIn(rows)
  BY DEF FailedIn, RecordedIn

\* The invariant holds in a database that pg-migrate has never seen.
LEMMA LedgerInit == Init => LedgerInv
  <1> SUFFICES ASSUME Init PROVE LedgerInv
    OBVIOUS
  <1>1. TypeInv
    BY TypeInit
  <1>2. UniqueIds(ledger)
    BY DEF Init, UniqueIds
  <1>3. RunnersInv
    BY DEF Init, RunnersInv, RunnerInv, Busy, Past, Checked, ScriptWindow
  <1>4. RecordedIn(<< >>) = {}
    BY DEF RecordedIn, ToSet
  <1>5. LedgerTruth
    BY <1>4 DEF Init, LedgerTruth, Truthful
  <1> QED BY <1>1, <1>2, <1>3, <1>5 DEF LedgerInv

\* A step of the lock's holder, once the parts it can disturb are shown.
LEMMA HolderMove ==
  ASSUME LedgerInv, TypeInv', NEW r \in Runners, pc[r] \in Busy,
         NEW x, pc' = [pc EXCEPT ![r] = x],
         UniqueIds(ledger'), RunnerInv(r)', LedgerTruth'
  PROVE  LedgerInv'
  BY OthersAreOut DEF LedgerInv

\* A step of the lock's holder that only reads the database.
LEMMA QuietMove ==
  ASSUME LedgerInv, TypeInv', NEW r \in Runners, pc[r] \in Busy, pc[r] \notin ScriptWindow,
         NEW x, pc' = [pc EXCEPT ![r] = x], \A q \in Runners : q # r => cur'[q] = cur[q],
         UNCHANGED <<ledger, schema, excused>>, RunnerInv(r)'
  PROVE  LedgerInv'
  <1>1. \A q \in Runners : pc[q] \in ScriptWindow => pc'[q] \in ScriptWindow /\ cur'[q] = cur[q]
    BY DEF LedgerInv, TypeInv, TypeOK
  <1>2. LedgerTruth'
    BY <1>1, QuietKeepsTruth DEF LedgerInv
  <1> QED BY <1>2, HolderMove DEF LedgerInv

\* Beginning and planning.
LEMMA PlanningKeepsLedger ==
  ASSUME LedgerInv, TypeInv', NEW r \in Runners,
         \/ EnsureMigrationsTable(r) \/ RefuseIfFailed(r)
         \/ PlanUp(r) \/ PlanReconcile(r) \/ PlanDown(r) \/ EnsureReversible(r)
         \/ Baseline(r) \/ PlanDone(r) \/ CallFails(r)
         \/ \E m \in Ids : SelectDown(r, m) \/ StartUpScript(r, m)
  PROVE  LedgerInv'
  <1>1. RunnerInv(r) /\ pc \in [Runners -> PCs] /\ cur \in [Runners -> Ids] /\ toRollback \in [Runners -> SUBSET Ids]
    BY DEF LedgerInv, RunnersInv, TypeInv, TypeOK
  <1> DEFINE Quiet(x) == /\ pc[r] \in Busy /\ pc[r] \notin ScriptWindow
                         /\ pc' = [pc EXCEPT ![r] = x]
                         /\ \A q \in Runners : q # r => cur'[q] = cur[q]
                         /\ UNCHANGED <<ledger, schema, excused>> /\ RunnerInv(r)'
  <1>q. ASSUME NEW x, Quiet(x) PROVE LedgerInv'
    BY <1>q, QuietMove
  <1> USE <1>1 DEF Busy, PCs, Past, Checked, ScriptWindow, Goto, Return, database, plan, RunnerInv, Recorded
  <1>2. CASE EnsureMigrationsTable(r)
    <2>1. \E x \in {"baseline", "refuse", "return"} : Quiet(x)
      BY <1>2 DEF EnsureMigrationsTable
    <2> HIDE DEF Quiet
    <2> QED BY <2>1, <1>q
  <1>3. CASE RefuseIfFailed(r)
    <2>1. \E x \in {"plan", "return"} : Quiet(x)
      BY <1>3 DEF RefuseIfFailed
    <2> HIDE DEF Quiet
    <2> QED BY <2>1, <1>q
  <1>4. CASE PlanUp(r)
    <2>1. \E x \in {"reversible", "return"} : Quiet(x)
      BY <1>4 DEF PlanUp, StartPlan
    <2> HIDE DEF Quiet
    <2> QED BY <2>1, <1>q
  <1>5. CASE PlanReconcile(r)
    <2>1. \E x \in {"reversible", "return"} : Quiet(x)
      BY <1>5 DEF PlanReconcile, StartPlan
    <2> HIDE DEF Quiet
    <2> QED BY <2>1, <1>q
  <1>6. CASE PlanDown(r)
    <2>1. \E x \in {"reversible", "return"} : Quiet(x)
      BY <1>6 DEF PlanDown, StartPlan
    <2> HIDE DEF Quiet
    <2> QED BY <2>1, <1>q
  <1>7. CASE EnsureReversible(r)
    <2>1. \E x \in {"execute", "return"} : Quiet(x)
      BY <1>7 DEF EnsureReversible
    <2> HIDE DEF Quiet
    <2> QED BY <2>1, <1>q
  <1>8. CASE Baseline(r)
    <2>1. \E x \in {"recordAll", "return"} : Quiet(x)
      BY <1>8 DEF Baseline
    <2> HIDE DEF Quiet
    <2> QED BY <2>1, <1>q
  <1>9. CASE PlanDone(r) \/ CallFails(r)
    <2>1. Quiet("return")
      BY <1>9 DEF PlanDone, CallFails
    <2> HIDE DEF Quiet
    <2> QED BY <2>1, <1>q
  <1>10. ASSUME NEW m \in Ids, SelectDown(r, m) PROVE LedgerInv'
    <2>1. m \in toRollback[r]
      BY <1>10 DEF SelectDown, NextToRollback
    <2>2. \E x \in {"downStmts", "downTx", "return"} : Quiet(x)
      BY <1>10, <2>1 DEF SelectDown
    <2> HIDE DEF Quiet
    <2> QED BY <2>2, <1>q
  <1>11. ASSUME NEW m \in Ids, StartUpScript(r, m) PROVE LedgerInv'
    <2>1. Quiet("upStmts")
      BY <1>11 DEF StartUpScript, NextToApply
    <2> HIDE DEF Quiet
    <2> QED BY <2>1, <1>q
  <1> QED BY <1>2, <1>3, <1>4, <1>5, <1>6, <1>7, <1>8, <1>9, <1>10, <1>11

\* One statement of a notransaction script.
LEMMA StatementKeepsLedger ==
  ASSUME LedgerInv, TypeInv', NEW r \in Runners, DownStatement(r) \/ UpStatement(r)
  PROVE  LedgerInv'
  <1>1. RunnerInv(r) /\ pc \in [Runners -> PCs] /\ cur[r] \in Ids /\ schema \in [Ids -> {"none", "partial", "applied"}]
    BY DEF LedgerInv, RunnersInv, TypeInv, TypeOK
  <1> USE <1>1 DEF Busy, PCs, Past, Checked, ScriptWindow, Goto, plan, Recorded
  <1>2. PICK x \in {"downStmts", "deleteRow", "markFailed", "upStmts", "recordOk", "recordErr"} :
          pc' = [pc EXCEPT ![r] = x]
    BY DEF DownStatement, UpStatement
  <1>3. pc[r] \in {"downStmts", "upStmts"} /\ UNCHANGED <<lock, ledger, excused, toRollback, cur>>
    BY DEF DownStatement, UpStatement
  <1>4. \A m \in Ids \ {cur[r]} : schema'[m] = schema[m]
    BY DEF DownStatement, UpStatement
  <1>5. RunnerInv(r)'
    BY <1>3 DEF DownStatement, UpStatement, RunnerInv
  <1>6. ASSUME NEW m, m = cur[r] PROVE InFlux(m)'
    BY <1>2, <1>3, <1>6 DEF InFlux
  <1>7. LedgerTruth'
    <2> DEFINE M == {cur[r]}
    <2>1. pc[r] \in Busy /\ (pc[r] \in ScriptWindow => cur[r] \in M)
      BY <1>3
    <2>2. \A m \in M : InFlux(m)'
      BY <1>6
    <2> HIDE DEF M
    <2>3. \A m \in Ids \ M : schema'[m] = schema[m]
      BY <1>4 DEF M
    <2> QED BY <1>3, <2>1, <2>2, <2>3, LocalKeepsTruth DEF LedgerInv
  <1> QED BY <1>2, <1>3, <1>5, <1>7, HolderMove DEF LedgerInv

\* The lock's holder writes a ledger that differs in the row of m alone, and
\* leaves m excused or told of truthfully.
LEMMA RowWriteKeepsTruth ==
  ASSUME LedgerInv, NEW r \in Runners, pc[r] \in Busy, NEW m,
         pc[r] \in ScriptWindow => cur[r] = m,
         \A k \in Ids \ {m} : /\ k \in excused => k \in excused'
                              /\ k \in RecordedIn(ledger') <=> k \in RecordedIn(ledger)
                              /\ k \in FailedIn(ledger) => k \in FailedIn(ledger')
                              /\ schema'[k] = schema[k],
         m \in excused' \/ Truthful(m, ledger', schema')
  PROVE  LedgerTruth'
  <1> DEFINE M == {m}
  <1>1. /\ pc[r] \in ScriptWindow => cur[r] \in M
        /\ \A k \in M : k \in excused' \/ Truthful(k, ledger', schema')
    OBVIOUS
  <1>2. \A k \in Ids \ M : /\ k \in excused => k \in excused'
                           /\ k \in RecordedIn(ledger') <=> k \in RecordedIn(ledger)
                           /\ k \in FailedIn(ledger) => k \in FailedIn(ledger')
                           /\ schema'[k] = schema[k]
    OBVIOUS
  <1> HIDE DEF M
  <1> QED BY <1>1, <1>2, LocalKeepsTruth DEF LedgerInv

\* A rollback, in one transaction or by the DELETE that follows the script.
LEMMA RollbackKeepsLedger ==
  ASSUME LedgerInv, TypeInv', NEW r \in Runners, DownTx(r) \/ DeleteRow(r)
  PROVE  LedgerInv'
  <1> DEFINE m == cur[r]
  <1>1. /\ RunnerInv(r) /\ pc \in [Runners -> PCs] /\ m \in Ids /\ UniqueIds(ledger)
        /\ ledger \in Seq(Row) /\ schema \in [Ids -> {"none", "partial", "applied"}]
        /\ toRollback \in [Runners -> SUBSET Ids]
    BY DEF LedgerInv, RunnersInv, TypeInv, TypeOK
  <1>2. pc[r] \in {"downTx", "deleteRow"} /\ pc[r] \in Busy /\ UNCHANGED <<lock, cur>>
    BY DEF DownTx, DeleteRow, Bookkeeping, Busy, PCs
  <1>3. /\ FailedIn(ledger) = {} /\ toRollback[r] \cap IrreversibleIn(ledger) = {}
        /\ m \in toRollback[r] /\ m \in RecordedIn(ledger)
        /\ pc[r] = "deleteRow" => schema[m] = "none"
    BY <1>1, <1>2 DEF RunnerInv, Past, Checked, ScriptWindow, Recorded
  <1>4. \/ ledger' = ledger
        \/ ledger' = Delete(ledger, m)
    BY DEF DownTx, DeleteRow, Bookkeeping
  <1>5. /\ UniqueIds(ledger') /\ FailedIn(ledger') = {}
        /\ IrreversibleIn(ledger') \subseteq IrreversibleIn(ledger)
    BY <1>1, <1>3, <1>4, DeleteFacts
  <1>6. \A k \in Ids \ {m} : /\ k \in excused => k \in excused'
                             /\ k \in RecordedIn(ledger') <=> k \in RecordedIn(ledger)
                             /\ k \in FailedIn(ledger) => k \in FailedIn(ledger')
                             /\ schema'[k] = schema[k]
    <2>1. \A k \in Ids \ {m} : k \in RecordedIn(ledger') <=> k \in RecordedIn(ledger)
      BY <1>1, <1>4, DeleteFacts
    <2>2. \A k \in Ids \ {m} : schema'[k] = schema[k] /\ (k \in excused => k \in excused')
      BY <1>1 DEF DownTx, DeleteRow, Bookkeeping
    <2> QED BY <1>3, <2>1, <2>2
  <1>7. pc' = [pc EXCEPT ![r] = "execute"] \/ pc' = [pc EXCEPT ![r] = "return"]
    BY DEF DownTx, DeleteRow, RolledBackOne, Goto, Return
  <1>8. toRollback'[r] \subseteq toRollback[r]
    BY <1>1 DEF DownTx, DeleteRow, RolledBackOne, plan
  <1>9. RunnerInv(r)'
    <2>1. lock' = r /\ toRollback'[r] \cap IrreversibleIn(ledger') = {}
      BY <1>1, <1>2, <1>3, <1>5, <1>8 DEF RunnerInv
    <2>2. pc'[r] \in {"execute", "return"}
      BY <1>1, <1>7
    <2> QED BY <1>5, <2>1, <2>2 DEF RunnerInv
  <1>10. LedgerTruth'
    <2>1. pc[r] \in ScriptWindow => cur[r] = m
      OBVIOUS
    <2>2. CASE DownTx(r) /\ UNCHANGED <<ledger, schema, excused>>
      BY <1>2, <1>7, <2>2, QuietKeepsTruth DEF LedgerInv, DownTx, TypeInv, TypeOK, ScriptWindow
    <2>3. CASE /\ ledger' = Delete(ledger, m)
               /\ \/ pc[r] = "downTx" /\ schema' = IF m \in IrreversibleIn(ledger) THEN schema
                                                    ELSE [schema EXCEPT ![m] = "none"]
                  \/ pc[r] = "deleteRow" /\ schema' = schema
      <3>1. m \notin RecordedIn(ledger')
        BY <1>1, <2>3, DeleteFacts
      <3>2. schema'[m] = "none"
        BY <1>1, <1>3, <2>3
      <3>3. Truthful(m, ledger', schema')
        BY <3>1, <3>2 DEF Truthful
      <3> HIDE DEF m
      <3> QED BY <1>2, <1>6, <2>1, <3>3, RowWriteKeepsTruth
    <2>4. CASE m \in excused'
      <3> HIDE DEF m
      <3> QED BY <1>2, <1>6, <2>1, <2>4, RowWriteKeepsTruth
    <2>5. \/ DownTx(r) /\ UNCHANGED <<ledger, schema, excused>>
          \/ /\ ledger' = Delete(ledger, m)
             /\ \/ pc[r] = "downTx" /\ schema' = IF m \in IrreversibleIn(ledger) THEN schema
                                                  ELSE [schema EXCEPT ![m] = "none"]
                \/ pc[r] = "deleteRow" /\ schema' = schema
          \/ m \in excused'
      BY DEF DownTx, DeleteRow, Bookkeeping
    <2> QED BY <2>2, <2>3, <2>4, <2>5
  <1> QED BY <1>2, <1>5, <1>7, <1>9, <1>10, HolderMove

\* The failed rollback is marked in its row, or reported as unrecorded.
LEMMA MarkFailedKeepsLedger ==
  ASSUME LedgerInv, TypeInv', NEW r \in Runners, MarkFailed(r)
  PROVE  LedgerInv'
  <1> DEFINE m == cur[r]
  <1>1. /\ RunnerInv(r) /\ pc \in [Runners -> PCs] /\ m \in Ids /\ UniqueIds(ledger)
        /\ ledger \in Seq(Row)
    BY DEF LedgerInv, RunnersInv, TypeInv, TypeOK
  <1>2. /\ pc[r] = "markFailed" /\ pc[r] \in Busy /\ UNCHANGED <<schema, lock>>
        /\ pc' = [pc EXCEPT ![r] = "return"]
    BY DEF MarkFailed, Bookkeeping, Return, Busy, PCs
  <1>3. m \in RecordedIn(ledger)
    BY <1>1, <1>2 DEF RunnerInv, Recorded
  <1>4. \/ ledger' = ledger /\ excused' = excused \cup {m}
        \/ ledger' = MarkError(ledger, m) /\ excused' = excused \ {m}
    BY DEF MarkFailed, Bookkeeping
  <1>5. UniqueIds(ledger') /\ RecordedIn(ledger') = RecordedIn(ledger)
    BY <1>1, <1>3, <1>4, MarkErrorFacts
  <1>6. FailedIn(ledger) \subseteq FailedIn(ledger') /\ (m \in excused' \/ m \in FailedIn(ledger'))
    BY <1>1, <1>3, <1>4, MarkErrorFacts
  <1>7. RunnerInv(r)'
    BY <1>1, <1>2 DEF RunnerInv, Busy, Past, Checked, ScriptWindow
  <1>8. LedgerTruth'
    <2>1. m \in excused' \/ Truthful(m, ledger', schema')
      BY <1>3, <1>5, <1>6 DEF Truthful
    <2>2. \A k \in Ids \ {m} : k \in excused => k \in excused'
      BY <1>4
    <2>3. pc[r] \in ScriptWindow => cur[r] = m
      OBVIOUS
    <2> HIDE DEF m
    <2> QED BY <1>2, <1>5, <1>6, <2>1, <2>2, <2>3, RowWriteKeepsTruth
  <1> QED BY <1>2, <1>5, <1>7, <1>8, HolderMove

\* An application in one transaction.
LEMMA ApplyTxKeepsLedger ==
  ASSUME LedgerInv, TypeInv', NEW r \in Runners, NEW m \in Ids, ApplyTx(r, m)
  PROVE  LedgerInv'
  <1> DEFINE row == RowOf(call[r].src, m, FALSE)
  <1>1. /\ RunnerInv(r) /\ pc \in [Runners -> PCs] /\ UniqueIds(ledger)
        /\ ledger \in Seq(Row) /\ schema \in [Ids -> {"none", "partial", "applied"}]
        /\ cur \in [Runners -> Ids]
    BY DEF LedgerInv, RunnersInv, TypeInv, TypeOK
  <1>2. /\ pc[r] = "execute" /\ pc[r] \in Busy /\ UNCHANGED lock /\ toRollback[r] = {}
        /\ m \in toApply[r] /\ cur' = [cur EXCEPT ![r] = m]
    BY DEF ApplyTx, NextToApply, Busy, PCs
  <1>3. FailedIn(ledger) = {}
    BY <1>1, <1>2 DEF RunnerInv, Past, Checked, ScriptWindow
  <1>4. row \in Row /\ row.id = m /\ row.err = FALSE
    <2>1. call[r].src \in Sources /\ m \in DOMAIN call[r].src
      BY <1>2, TypeFacts DEF LedgerInv
    <2> QED BY <2>1, RowOfType DEF RowOf
  <1>5. toRollback'[r] = {}
    BY <1>2 DEF ApplyTx, AppliedOne, plan
  <1>6. pc' = [pc EXCEPT ![r] = "execute"] \/ pc' = [pc EXCEPT ![r] = "return"]
    BY DEF ApplyTx, AppliedOne, Goto, Return
  <1>7. \/ UNCHANGED <<ledger, schema, excused>>
        \/ /\ m \notin RecordedIn(ledger) /\ ledger' = Insert(ledger, row)
           /\ schema' = [schema EXCEPT ![m] = "applied"] /\ excused' = excused \ {m}
    BY DEF ApplyTx, Recorded
  <1> HIDE DEF row
  <1>8. UniqueIds(ledger') /\ FailedIn(ledger') = {}
    BY <1>1, <1>3, <1>4, <1>7, InsertFacts
  <1>9. RunnerInv(r)'
    <2>1. lock' = r
      BY <1>1, <1>2 DEF RunnerInv
    <2>2. pc'[r] \in {"execute", "return"}
      BY <1>1, <1>6
    <2> QED BY <1>5, <1>8, <2>1, <2>2 DEF RunnerInv
  <1>10. CASE UNCHANGED <<ledger, schema, excused>>
    <2>1. \A q \in Runners : q # r => cur'[q] = cur[q]
      BY <1>1, <1>2
    <2> QED BY <1>2, <1>6, <1>9, <1>10, <2>1, QuietMove DEF ScriptWindow
  <1>11. CASE /\ m \notin RecordedIn(ledger) /\ ledger' = Insert(ledger, row)
              /\ schema' = [schema EXCEPT ![m] = "applied"] /\ excused' = excused \ {m}
    <2>1. RecordedIn(ledger') = RecordedIn(ledger) \cup {m}
      BY <1>1, <1>4, <1>11, InsertFacts
    <2>2. Truthful(m, ledger', schema')
      BY <1>1, <1>11, <2>1 DEF Truthful
    <2>3. \A k \in Ids \ {m} : schema'[k] = schema[k] /\ (k \in excused => k \in excused')
      BY <1>1, <1>11
    <2>4. pc[r] \notin ScriptWindow
      BY <1>2 DEF ScriptWindow
    <2>5. LedgerTruth'
      BY <1>2, <1>3, <2>1, <2>2, <2>3, <2>4, RowWriteKeepsTruth
    <2> QED BY <1>2, <1>6, <1>8, <1>9, <2>5, HolderMove
  <1> QED BY <1>7, <1>10, <1>11

\* The row that follows a notransaction up script, failed or not.
LEMMA RecordUpKeepsLedger ==
  ASSUME LedgerInv, TypeInv', NEW r \in Runners, RecordUp(r)
  PROVE  LedgerInv'
  <1> DEFINE m == cur[r]
             row == RowOf(call[r].src, m, pc[r] = "recordErr")
  <1>1. /\ RunnerInv(r) /\ pc \in [Runners -> PCs] /\ UniqueIds(ledger)
        /\ ledger \in Seq(Row) /\ m \in Ids
    BY DEF LedgerInv, RunnersInv, TypeInv, TypeOK
  <1>2. pc[r] \in {"recordOk", "recordErr"} /\ pc[r] \in Busy /\ UNCHANGED <<lock, schema>>
    BY DEF RecordUp, Bookkeeping, Busy, PCs
  <1>3. /\ FailedIn(ledger) = {} /\ toRollback[r] = {}
        /\ pc[r] = "recordOk" => schema[m] = "applied"
    BY <1>1, <1>2 DEF RunnerInv, Past, Checked, ScriptWindow
  <1>4. /\ row \in Row /\ row.id = m
        /\ pc[r] = "recordErr" => row.err
        /\ pc[r] # "recordErr" => ~row.err
    <2>1. call[r].src \in Sources /\ m \in DOMAIN call[r].src
      BY <1>2, TypeFacts DEF LedgerInv
    <2> QED BY <2>1, RowOfType DEF RowOf
  <1>5. toRollback'[r] = {}
    BY <1>3 DEF RecordUp, AppliedOne, plan
  <1>6. \/ pc' = [pc EXCEPT ![r] = "execute"] /\ pc[r] # "recordErr"
        \/ pc' = [pc EXCEPT ![r] = "return"]
    BY DEF RecordUp, AppliedOne, Goto, Return
  <1>7. \/ ledger' = ledger /\ excused' = excused \cup {m}
        \/ /\ m \notin RecordedIn(ledger) /\ ledger' = Insert(ledger, row)
           /\ excused' = excused \ {m}
    BY DEF RecordUp, Bookkeeping, Recorded
  <1>8. pc[r] \in ScriptWindow => cur[r] = m
    OBVIOUS
  <1> HIDE DEF row, m
  <1>9. UniqueIds(ledger') /\ (pc[r] # "recordErr" => FailedIn(ledger') = {})
    BY <1>1, <1>3, <1>4, <1>7, InsertFacts
  <1>10. RunnerInv(r)'
    <2>1. lock' = r
      BY <1>1, <1>2 DEF RunnerInv
    <2>2. pc'[r] = "return" \/ (pc'[r] = "execute" /\ pc[r] # "recordErr")
      BY <1>1, <1>6
    <2> QED BY <1>5, <1>9, <2>1, <2>2 DEF RunnerInv, Busy, Past, Checked, ScriptWindow
  <1>11. LedgerTruth'
    <2>1. CASE ledger' = ledger /\ excused' = excused \cup {m}
      BY <1>2, <1>8, <2>1, RowWriteKeepsTruth
    <2>2. CASE /\ m \notin RecordedIn(ledger) /\ ledger' = Insert(ledger, row)
               /\ excused' = excused \ {m}
      <3>1. /\ RecordedIn(ledger') = RecordedIn(ledger) \cup {m}
            /\ pc[r] = "recordErr" => FailedIn(ledger') = {m}
        BY <1>1, <1>3, <1>4, <2>2, InsertFacts
      <3>2. Truthful(m, ledger', schema')
        BY <1>2, <1>3, <3>1 DEF Truthful
      <3>3. \A k \in Ids \ {m} : k \in excused => k \in excused'
        BY <2>2
      <3> QED BY <1>2, <1>3, <1>8, <3>1, <3>2, <3>3, RowWriteKeepsTruth
    <2> QED BY <1>7, <2>1, <2>2
  <1> QED BY <1>2, <1>6, <1>9, <1>10, <1>11, HolderMove

\* Forget takes the row away and excuses the effect that is left, if any.
LEMMA ForgetKeepsLedger ==
  ASSUME LedgerInv, TypeInv', NEW r \in Runners, Forget(r)
  PROVE  LedgerInv'
  <1> DEFINE m == call[r].id
  <1>1. /\ pc \in [Runners -> PCs] /\ UniqueIds(ledger) /\ ledger \in Seq(Row)
        /\ schema \in [Ids -> {"none", "partial", "applied"}]
    BY DEF LedgerInv, TypeInv, TypeOK
  <1>2. /\ pc[r] = "forget" /\ pc[r] \in Busy /\ pc[r] \notin ScriptWindow
        /\ UNCHANGED <<lock, schema, cur>> /\ pc' = [pc EXCEPT ![r] = "return"]
    BY DEF Forget, Busy, PCs, ScriptWindow, Return
  <1>3. RunnerInv(r)'
    BY <1>1, <1>2 DEF RunnerInv, Busy, Past, Checked, ScriptWindow
  <1>4. \/ UNCHANGED <<ledger, excused>>
        \/ /\ ledger' = Delete(ledger, m)
           /\ excused' = IF schema[m] = "none" THEN excused \ {m} ELSE excused \cup {m}
    BY DEF Forget
  <1> HIDE DEF m
  <1>5. CASE UNCHANGED <<ledger, excused>>
    BY <1>2, <1>3, <1>5, QuietMove
  <1>6. CASE /\ ledger' = Delete(ledger, m)
             /\ excused' = IF schema[m] = "none" THEN excused \ {m} ELSE excused \cup {m}
    <2>1. /\ UniqueIds(ledger') /\ RecordedIn(ledger') = RecordedIn(ledger) \ {m}
          /\ FailedIn(ledger') = FailedIn(ledger) \ {m}
      BY <1>1, <1>6, DeleteFacts
    <2>2. m \in excused' \/ Truthful(m, ledger', schema')
      BY <1>2, <1>6, <2>1 DEF Truthful
    <2>3. \A k \in Ids \ {m} : k \in excused => k \in excused'
      BY <1>6
    <2>4. LedgerTruth'
      BY <1>2, <2>1, <2>2, <2>3, RowWriteKeepsTruth
    <2> QED BY <1>2, <1>3, <2>1, <2>4, HolderMove
  <1> QED BY <1>4, <1>5, <1>6

\* Baseline's rows enter an empty ledger together.
LEMMA RecordAppliedKeepsLedger ==
  ASSUME LedgerInv, TypeInv', NEW r \in Runners, RecordApplied(r)
  PROVE  LedgerInv'
  <1> DEFINE M == toApply[r]
  <1>1. /\ RunnerInv(r) /\ pc \in [Runners -> PCs]
    BY DEF LedgerInv, RunnersInv, TypeInv, TypeOK
  <1>2. /\ pc[r] = "recordAll" /\ pc[r] \in Busy /\ pc[r] \notin ScriptWindow
        /\ UNCHANGED <<lock, schema, cur>> /\ pc' = [pc EXCEPT ![r] = "return"]
    BY DEF RecordApplied, Busy, PCs, ScriptWindow, Return
  <1>3. ledger = << >>
    BY <1>1, <1>2 DEF RunnerInv
  <1>4. RunnerInv(r)'
    BY <1>1, <1>2 DEF RunnerInv, Busy, Past, Checked, ScriptWindow
  <1>5. CASE UNCHANGED <<ledger, excused>>
    BY <1>2, <1>4, <1>5, QuietMove
  <1>6. ASSUME NEW s \in Slices(M),
               ledger' = << >> \o [k \in DOMAIN s |-> RowOf(call[r].src, s[k], FALSE)],
               excused' = (excused \ M) \cup {m \in M : schema[m] # "applied"}
        PROVE  LedgerInv'
    <2>1. call[r].src \in Sources /\ M \in SUBSET DOMAIN call[r].src
      BY TypeFacts DEF LedgerInv
    <2>2. UniqueIds(ledger') /\ RecordedIn(ledger') = M /\ FailedIn(ledger') = {}
      BY <1>6, <2>1, AdoptFacts
    <2>3. RecordedIn(ledger) = {} /\ FailedIn(ledger) = {}
      BY <1>3 DEF RecordedIn, FailedIn, ToSet
    <2>4. \A m \in M : m \in excused' \/ Truthful(m, ledger', schema')
      BY <1>2, <1>6, <2>2 DEF Truthful
    <2>5. \A m \in Ids \ M : m \in excused => m \in excused'
      BY <1>6
    <2> HIDE DEF M
    <2>6. LedgerTruth'
      BY <1>2, <2>2, <2>3, <2>4, <2>5, LocalKeepsTruth DEF LedgerInv
    <2> QED BY <1>2, <1>4, <2>2, <2>6, HolderMove
  <1>7. \/ UNCHANGED <<ledger, excused>>
        \/ /\ excused' = (excused \ M) \cup {m \in M : schema[m] # "applied"}
           /\ \E s \in Slices(M) :
                ledger' = << >> \o [k \in DOMAIN s |-> RowOf(call[r].src, s[k], FALSE)]
    BY <1>3 DEF RecordApplied
  <1> QED BY <1>5, <1>6, <1>7

\* The lock is taken.
LEMMA BeginKeepsLedger ==
  ASSUME LedgerInv, TypeInv', NEW r \in Runners, NEW c \in Calls, Begin(r, c)
  PROVE  LedgerInv'
  <1>1. /\ UNCHANGED <<ledger, schema, excused, cur>> /\ lock' = r /\ lock = None
        /\ \E x \in {"forget", "ensure"} : pc' = [pc EXCEPT ![r] = x]
        /\ pc \in [Runners -> PCs] /\ RunnersInv
    BY DEF Begin, Goto, database, LedgerInv, TypeInv, TypeOK
  <1>2. \A q \in Runners : pc[q] \notin Busy
    BY <1>1, NoneAssumption DEF RunnersInv, RunnerInv
  <1>3. \A q \in Runners : pc'[q] \in {"idle", "return"} \/ (q = r /\ pc'[q] \in {"forget", "ensure"})
    BY <1>1, <1>2 DEF Busy
  <1>4. RunnersInv'
    BY <1>1, <1>3 DEF RunnersInv, RunnerInv, Busy, Past, Checked, ScriptWindow
  <1>5. \A q \in Runners : pc[q] \notin ScriptWindow
    BY <1>2 DEF Busy, PCs, ScriptWindow
  <1>6. LedgerTruth'
    BY <1>1, <1>5, QuietKeepsTruth DEF LedgerInv
  <1> QED BY <1>1, <1>4, <1>6 DEF LedgerInv

\* A Plan beside a running call, and a call that returns.
LEMMA ReturnKeepsLedger ==
  ASSUME LedgerInv, TypeInv', NEW r \in Runners,
         ReleaseLock(r) \/ \E c \in Calls : PlanOnly(r, c)
  PROVE  LedgerInv'
  <1>1. /\ UNCHANGED <<ledger, schema, excused>> /\ pc[r] \in {"idle", "return"}
        /\ \E x \in {"idle", "return"} : pc' = [pc EXCEPT ![r] = x]
        /\ lock # r => lock' = lock
    BY DEF ReleaseLock, Reset, Unlock, PlanOnly, Return, database
  <1>2. \A q \in Runners : q # r => cur'[q] = cur[q] /\ toRollback'[q] = toRollback[q]
    <2>1. cur \in [Runners -> Ids] /\ toRollback \in [Runners -> SUBSET Ids]
      BY DEF LedgerInv, TypeInv, TypeOK
    <2>2. CASE ReleaseLock(r)
      BY <2>1, <2>2 DEF ReleaseLock, Reset
    <2>3. ASSUME NEW c \in Calls, PlanOnly(r, c)
          PROVE  \A q \in Runners : q # r => cur'[q] = cur[q] /\ toRollback'[q] = toRollback[q]
      BY <2>3 DEF PlanOnly, plan
    <2> QED BY <2>2, <2>3
  <1>3. RunnersInv /\ pc \in [Runners -> PCs]
    BY DEF LedgerInv, TypeInv, TypeOK
  <1>4. ASSUME NEW q \in Runners, q # r PROVE RunnerInv(q)'
    BY <1>1, <1>2, <1>3, <1>4, BystanderKeeps DEF RunnersInv
  <1>5. RunnerInv(r)'
    BY <1>1, <1>3 DEF RunnerInv, Busy, Past, Checked, ScriptWindow
  <1>6. LedgerTruth'
    BY <1>1, <1>2, <1>3, QuietKeepsTruth DEF LedgerInv, ScriptWindow
  <1> QED BY <1>1, <1>4, <1>5, <1>6 DEF LedgerInv, RunnersInv

\* The process dies; inside a script it leaves an excused migration behind.
LEMMA CrashKeepsLedger ==
  ASSUME LedgerInv, TypeInv', NEW r \in Runners, Crash(r)
  PROVE  LedgerInv'
  <1>1. /\ UNCHANGED <<ledger, schema>> /\ pc' = [pc EXCEPT ![r] = "idle"]
        /\ lock # r => lock' = lock
    BY DEF Crash, Reset, Unlock
  <1>2. \A q \in Runners : q # r => cur'[q] = cur[q] /\ toRollback'[q] = toRollback[q]
    BY DEF Crash, Reset, LedgerInv, TypeInv, TypeOK
  <1>3. RunnersInv /\ pc \in [Runners -> PCs]
    BY DEF LedgerInv, TypeInv, TypeOK
  <1>4. ASSUME NEW q \in Runners, q # r PROVE RunnerInv(q)'
    BY <1>1, <1>2, <1>3, <1>4, BystanderKeeps DEF RunnersInv
  <1>5. RunnerInv(r)'
    BY <1>1, <1>3 DEF RunnerInv, Busy, Past, Checked, ScriptWindow
  <1>6. LedgerTruth'
    <2>1. CASE pc[r] \in ScriptWindow
      <3>1. pc[r] \in Busy
        BY <2>1 DEF Busy, PCs, ScriptWindow
      <3> DEFINE m == cur[r]
      <3>2. /\ \A k \in Ids \ {m} : k \in excused => k \in excused'
            /\ m \in excused' \/ Truthful(m, ledger', schema')
            /\ cur[r] = m
        BY <1>1, <2>1 DEF Crash
      <3> HIDE DEF m
      <3> QED BY <1>1, <3>1, <3>2, RowWriteKeepsTruth
    <2>2. CASE pc[r] \notin ScriptWindow
      <3>1. UNCHANGED excused
        BY <2>2 DEF Crash
      <3> QED BY <1>1, <1>2, <1>3, <2>2, <3>1, QuietKeepsTruth DEF LedgerInv
    <2> QED BY <2>1, <2>2
  <1> QED BY <1>1, <1>4, <1>5, <1>6 DEF LedgerInv, RunnersInv

\* The operator repairs a schema nobody is working on.
LEMMA RepairKeepsLedger ==
  ASSUME LedgerInv, TypeInv', NEW m \in Ids, Repair(m)
  PROVE  LedgerInv'
  <1>1. /\ lock = None /\ UNCHANGED <<lock, ledger, excused, pc, cur, toRollback>>
        /\ m \in FailedIn(ledger) \/ m \in excused
        /\ \A k \in Ids \ {m} : schema'[k] = schema[k]
    BY DEF Repair, plan, LedgerInv, TypeInv, TypeOK
  <1>2. \A q \in Runners : pc[q] \notin Busy /\ pc[q] \in PCs
    BY <1>1, NoneAssumption DEF LedgerInv, RunnersInv, RunnerInv, TypeInv, TypeOK
  <1>3. RunnersInv'
    BY <1>1, <1>2 DEF RunnersInv, RunnerInv, Busy, Past, Checked, ScriptWindow
  <1>4. \A k : ~ InFlux(k)
    BY <1>2 DEF InFlux, Busy, PCs, ScriptWindow
  <1>5. LedgerTruth'
    <2> SUFFICES ASSUME NEW k \in Ids, k \notin excused PROVE Truthful(k, ledger, schema')
      BY <1>1 DEF LedgerTruth
    <2>1. CASE k = m
      BY <1>1, <2>1, FailedIsRecorded DEF Truthful
    <2>2. CASE k # m
      BY <1>1, <1>4, <2>2 DEF LedgerInv, LedgerTruth, Truthful
    <2> QED BY <2>1, <2>2
  <1> QED BY <1>1, <1>3, <1>5 DEF LedgerInv

\* Every step keeps the invariant.
LEMMA LedgerStep ==
  ASSUME LedgerInv, [Next]_vars
  PROVE  LedgerInv'
  <1>1. TypeInv'
    BY TypeStep DEF LedgerInv
  <1>2. ASSUME NEW r \in Runners, NEW c \in Calls, Begin(r, c) \/ PlanOnly(r, c) PROVE LedgerInv'
    BY <1>1, <1>2, BeginKeepsLedger, ReturnKeepsLedger
  <1>3. ASSUME NEW r \in Runners, Step(r) PROVE LedgerInv'
    BY <1>1, <1>3, PlanningKeepsLedger, RollbackKeepsLedger, StatementKeepsLedger,
       MarkFailedKeepsLedger, ApplyTxKeepsLedger, RecordUpKeepsLedger, ForgetKeepsLedger,
       RecordAppliedKeepsLedger, ReturnKeepsLedger DEF Step, TransactionStep, OtherStep
  <1>4. ASSUME NEW r \in Runners, Crash(r) PROVE LedgerInv'
    BY <1>1, <1>4, CrashKeepsLedger
  <1>6. ASSUME NEW m \in Ids, Repair(m) PROVE LedgerInv'
    BY <1>1, <1>6, RepairKeepsLedger
  <1>7. CASE UNCHANGED vars
    <2>1. UNCHANGED <<lock, ledger, schema, excused, pc, cur, toRollback>>
      BY <1>7 DEF vars, database, plan
    <2>2. RunnersInv' /\ LedgerTruth'
      BY <2>1, BystanderKeeps, QuietKeepsTruth DEF LedgerInv, RunnersInv
    <2> QED BY <1>1, <2>1, <2>2 DEF LedgerInv
  <1> QED BY <1>2, <1>3, <1>4, <1>6, <1>7 DEF Next

\* The invariant holds throughout.
LEMMA LedgerInvariant == Spec => []LedgerInv
  <1>1. LedgerInv /\ [Next]_vars => LedgerInv'
    BY LedgerStep
  <1> QED BY LedgerInit, <1>1, PTL DEF Spec

\* The ledger tells the truth about the schema, for every number of runners,
\* every set of sources and every sequence of calls, crashes and lost replies:
\* ExecutePlan, Rollback, Forget and Baseline leave no migration unrecorded
\* that has an effect, and none recorded as healthy whose effect is missing,
\* but those the code has reported to the operator.
THEOREM LedgerIsTrue == Spec => []LedgerTruth
  <1>1. LedgerInv => LedgerTruth
    BY DEF LedgerInv
  <1> QED BY LedgerInvariant, <1>1, PTL

\* While a row is failed nothing moves: refuseIfFailed, checked once at the
\* start of a call, holds for the whole call because the lock is held from
\* the check to the last write.
THEOREM FailedRowIsFrozen == Spec => FailedRowFreezes
  <1> DEFINE Frozen ==
        FailedIn(ledger) # {} =>
          \/ UNCHANGED <<ledger, schema>>
          \/ lock = None /\ UNCHANGED <<lock, ledger>>
          \/ /\ UNCHANGED schema
             /\ \E r \in Runners : pc[r] = "forget" /\ ledger' = Delete(ledger, call[r].id)
  <1>1. LedgerInv /\ [Next]_vars => [Frozen]_vars
    <2> SUFFICES ASSUME LedgerInv, Next, FailedIn(ledger) # {}
                 PROVE  \/ UNCHANGED <<ledger, schema>>
                        \/ lock = None /\ UNCHANGED <<lock, ledger>>
                        \/ /\ UNCHANGED schema
                           /\ \E r \in Runners : pc[r] = "forget" /\ ledger' = Delete(ledger, call[r].id)
      OBVIOUS
    <2>1. ASSUME NEW r \in Runners PROVE pc[r] \notin Past /\ pc[r] # "recordAll"
      <3>1. RunnerInv(r) /\ FailedIn(<< >>) = {}
        BY DEF LedgerInv, RunnersInv, FailedIn, ToSet
      <3> QED BY <3>1 DEF RunnerInv
    <2>2. ASSUME NEW r \in Runners, NEW c \in Calls, Begin(r, c) \/ PlanOnly(r, c)
          PROVE  UNCHANGED <<ledger, schema>>
      BY <2>2 DEF Begin, PlanOnly, database
    <2>3. ASSUME NEW r \in Runners, Step(r)
          PROVE  \/ UNCHANGED <<ledger, schema>>
                 \/ UNCHANGED schema /\ pc[r] = "forget" /\ ledger' = Delete(ledger, call[r].id)
      <3>1. pc[r] \notin Past /\ pc[r] # "recordAll"
        BY <2>1
      <3>2. CASE Forget(r)
        BY <3>2 DEF Forget
      <3>3. CASE EnsureMigrationsTable(r) \/ RefuseIfFailed(r) \/ Baseline(r) \/ CallFails(r) \/ ReleaseLock(r)
        BY <3>3 DEF EnsureMigrationsTable, RefuseIfFailed, Baseline, CallFails, ReleaseLock, database
      <3>4. CASE PlanUp(r) \/ PlanReconcile(r) \/ PlanDown(r) \/ EnsureReversible(r) \/ PlanDone(r)
        BY <3>1, <3>4 DEF Past, Checked, PlanUp, PlanReconcile, PlanDown, EnsureReversible, PlanDone
      <3>5. CASE DownTx(r) \/ DownStatement(r) \/ MarkFailed(r) \/ DeleteRow(r) \/ UpStatement(r) \/ RecordUp(r)
        BY <3>1, <3>5 DEF Past, Checked, ScriptWindow, DownTx, DownStatement, MarkFailed, DeleteRow, UpStatement, RecordUp
      <3>6. ~ RecordApplied(r)
        BY <3>1 DEF RecordApplied
      <3>7. ASSUME NEW m \in Ids PROVE ~ SelectDown(r, m) /\ ~ ApplyTx(r, m) /\ ~ StartUpScript(r, m)
        BY <3>1 DEF Past, Checked, SelectDown, ApplyTx, StartUpScript
      <3> QED BY <2>3, <3>2, <3>3, <3>4, <3>5, <3>6, <3>7 DEF Step, TransactionStep, OtherStep
    <2>4. ASSUME NEW r \in Runners, Crash(r) PROVE UNCHANGED <<ledger, schema>>
      BY <2>4 DEF Crash
    <2>6. ASSUME NEW m \in Ids, Repair(m) PROVE lock = None /\ UNCHANGED <<lock, ledger>>
      BY <2>6 DEF Repair
    <2> QED BY <2>2, <2>3, <2>4, <2>6 DEF Next
  <1> QED BY LedgerInvariant, <1>1, PTL DEF Spec, FailedRowFreezes

\* EnsureReversible looks once, before the first rollback, and that is enough:
\* no rollback deletes the row of a migration stored as irreversible.
THEOREM IrreversibleIsKept == Spec => IrreversibleStays
  <1> DEFINE Kept ==
        \A m \in IrreversibleIn(ledger) :
          m \notin Recorded' => \E r \in Runners : pc[r] = "forget" /\ call[r].id = m
  <1>1. LedgerInv /\ [Next]_vars => [Kept]_vars
    <2> SUFFICES ASSUME LedgerInv, Next, NEW m \in IrreversibleIn(ledger), m \notin RecordedIn(ledger')
                 PROVE  \E r \in Runners : pc[r] = "forget" /\ call[r].id = m
      BY DEF Recorded
    <2>1. m \in RecordedIn(ledger) /\ ledger \in Seq(Row) /\ UniqueIds(ledger)
      BY DEF IrreversibleIn, RecordedIn, LedgerInv, TypeInv, TypeOK
    <2>2. ledger' # ledger
      BY <2>1
    <2>3. ASSUME NEW r \in Runners, Step(r) PROVE pc[r] = "forget" /\ call[r].id = m
      <3>1. RunnerInv(r)
        BY DEF LedgerInv, RunnersInv
      <3>2. CASE Forget(r)
        BY <2>1, <2>2, <3>2, DeleteFacts DEF Forget
      <3>3. ~ DownTx(r) /\ ~ DeleteRow(r)
        <4> SUFFICES ASSUME DownTx(r) \/ DeleteRow(r) PROVE FALSE
          OBVIOUS
        <4>1. pc[r] \in {"downTx", "deleteRow"} /\ ledger' \in {ledger, Delete(ledger, cur[r])}
          BY DEF DownTx, DeleteRow, Bookkeeping
        <4>2. cur[r] \notin IrreversibleIn(ledger)
          BY <3>1, <4>1 DEF RunnerInv, Checked, ScriptWindow
        <4> QED BY <2>1, <2>2, <4>1, <4>2, DeleteFacts
      <3>4. ~ MarkFailed(r)
        <4> SUFFICES ASSUME MarkFailed(r) PROVE FALSE
          OBVIOUS
        <4>1. pc[r] = "markFailed" /\ ledger' \in {ledger, MarkError(ledger, cur[r])}
          BY DEF MarkFailed, Bookkeeping
        <4>2. cur[r] \in RecordedIn(ledger)
          BY <3>1, <4>1 DEF RunnerInv, Recorded
        <4> QED BY <2>1, <2>2, <4>1, <4>2, MarkErrorFacts
      <3>5. ~ RecordUp(r)
        <4> SUFFICES ASSUME RecordUp(r) PROVE FALSE
          OBVIOUS
        <4>1. cur[r] \in DOMAIN call[r].src /\ call[r].src \in Sources
          BY TypeFacts DEF RecordUp, LedgerInv
        <4>2. PICK row \in Row : ledger' = Insert(ledger, row)
          BY <2>2, <4>1, RowOfType DEF RecordUp, Bookkeeping
        <4> QED BY <2>1, <4>2, InsertRow DEF RecordedIn
      <3>6. ASSUME NEW k \in Ids PROVE ~ ApplyTx(r, k)
        <4> SUFFICES ASSUME ApplyTx(r, k) PROVE FALSE
          OBVIOUS
        <4>1. k \in DOMAIN call[r].src /\ call[r].src \in Sources
          BY TypeFacts DEF ApplyTx, NextToApply, LedgerInv
        <4>2. PICK row \in Row : ledger' = Insert(ledger, row)
          BY <2>2, <4>1, RowOfType DEF ApplyTx
        <4> QED BY <2>1, <4>2, InsertRow DEF RecordedIn
      <3>7. ~ RecordApplied(r)
        <4>1. RecordedIn(<< >>) = {}
          BY DEF RecordedIn, ToSet
        <4>2. pc[r] = "recordAll" => ledger = << >>
          BY <3>1 DEF RunnerInv
        <4>3. pc[r] # "recordAll"
          BY <2>1, <4>1, <4>2
        <4> QED BY <4>3 DEF RecordApplied
      <3>8. ASSUME NEW k \in Ids PROVE ~ SelectDown(r, k) /\ ~ StartUpScript(r, k)
        BY <2>2 DEF SelectDown, StartUpScript, database
      <3>9. CASE \/ EnsureMigrationsTable(r) \/ RefuseIfFailed(r) \/ PlanUp(r) \/ PlanReconcile(r)
                 \/ PlanDown(r) \/ EnsureReversible(r) \/ DownStatement(r) \/ UpStatement(r)
                 \/ PlanDone(r) \/ Baseline(r) \/ CallFails(r) \/ ReleaseLock(r)
        BY <2>2, <3>9 DEF EnsureMigrationsTable, RefuseIfFailed, PlanUp, PlanReconcile, PlanDown,
           EnsureReversible, DownStatement, UpStatement, PlanDone, Baseline, CallFails,
           ReleaseLock, database
      <3> QED BY <2>3, <3>2, <3>3, <3>4, <3>5, <3>6, <3>7, <3>8, <3>9 DEF Step, TransactionStep, OtherStep
    <2>4. ASSUME NEW r \in Runners, NEW c \in Calls PROVE ~ Begin(r, c) /\ ~ PlanOnly(r, c)
      BY <2>2 DEF Begin, PlanOnly, database
    <2>5. ASSUME NEW k \in Ids PROVE ~ Repair(k)
      BY <2>2 DEF Repair
    <2>6. ASSUME NEW r \in Runners PROVE ~ Crash(r)
      BY <2>2 DEF Crash
    <2> QED BY <2>3, <2>4, <2>5, <2>6 DEF Next
  <1> QED BY LedgerInvariant, <1>1, PTL DEF Spec, IrreversibleStays
-----------------------------------------------------------------------------
(***************************************************************************)
(* What a call does to the ledger from its plan to its return, for every   *)
(* value of the constants: the ledger follows the plan step by step, and   *)
(* every step is one that MigrationLedger allows.                          *)
(***************************************************************************)

\* From the first look at the plan to its end; rolling one back; applying one.
Executing == {"reversible"} \cup Checked
Undoing == {"downTx", "downStmts", "markFailed", "deleteRow"}
Applying == {"upStmts", "recordOk", "recordErr"}

\* What a call has, and has not, at each control point.
CallInv(r) ==
  /\ lock = r <=> pc[r] # "idle" /\ call[r].op # "plan"
  /\ pc[r] = "ensure" => call[r].op \notin {"forget", "plan"}
  /\ pc[r] = "forget" => call[r].op = "forget"
  /\ pc[r] \in {"baseline", "recordAll"} => call[r].op = "baseline"
  /\ pc[r] \in {"refuse", "plan"} \cup Executing => call[r].op \in {"up", "reconcile", "down"}
  /\ pc[r] \notin Executing \cup {"return"} => applied[r] = {} /\ rolledBack[r] = {}
  /\ pc[r] \notin Executing \cup {"return", "recordAll"} => fromDB[r] = << >>

\* The rows of one sequence come in the order of another.
SameOrder(rows, others) ==
  \A j, k \in DOMAIN rows : j < k =>
    \E a, b \in DOMAIN others : a < b /\ others[a].id = rows[j].id /\ others[b].id = rows[k].id

\* How many rows Down leaves.
Base(r) ==
  IF call[r].count = 0 \/ call[r].count > Len(fromDB[r]) THEN 0
  ELSE Len(fromDB[r]) - call[r].count

\* Down: the ledger is a beginning of the one it found, and what is left to roll
\* back is the end of it.
DownInv(r) ==
  /\ Base(r) <= Len(ledger) /\ Len(ledger) <= Len(fromDB[r])
  /\ \A k \in DOMAIN ledger : ledger[k].id = fromDB[r][k].id
  /\ toRollback[r] = {ledger[k].id : k \in Base(r) + 1 .. Len(ledger)}
  /\ toApply[r] = {}

\* Up: nothing is rolled back, and what is not yet applied is planned.
UpInv(r) ==
  /\ toRollback[r] = {}
  /\ DOMAIN call[r].src \subseteq Recorded \cup toApply[r]

\* Reconcile: what the source lacks is still to be rolled back, what the ledger lacks
\* to be applied, behind everything that stays unless interleaving was allowed.
ReconcileInv(r) ==
  LET files == DOMAIN call[r].src IN
  /\ toRollback[r] \cap files = {}
  /\ Recorded \subseteq files \cup toRollback[r]
  /\ files \subseteq Recorded \cup toApply[r]
  /\ "interleaved" \notin call[r].opts =>
       \A m \in toApply[r] : \A k \in Recorded \cap files : k < m

\* How far the plan has got, and that the ledger shows it.
PlanInv(r) ==
  LET found == RecordedIn(fromDB[r]) IN
  /\ UniqueIds(fromDB[r])
  /\ Recorded = (found \ rolledBack[r]) \cup applied[r]
  /\ rolledBack[r] \subseteq found /\ applied[r] \cap found = {} /\ toApply[r] \cap found = {}
  /\ toRollback[r] \subseteq Recorded
  /\ toRollback[r] # {} => applied[r] = {} /\ SameOrder(ledger, fromDB[r])
  /\ pc[r] \in Undoing => NextToRollback(r, cur[r])
  /\ pc[r] \in Applying => NextToApply(r, cur[r])
  /\ call[r].op = "up" => UpInv(r)
  /\ call[r].op = "reconcile" => ReconcileInv(r)
  /\ call[r].op = "down" => DownInv(r)

\* What a call that is about to return says of the ledger.
ReturnInv(r) ==
  /\ applied[r] \subseteq Recorded /\ rolledBack[r] \cap Recorded = {}
  /\ outcome[r] = "ok" /\ call[r].op = "up" =>
       DOMAIN call[r].src \subseteq Recorded \ FailedIn(ledger)
  /\ outcome[r] = "ok" /\ call[r].op = "reconcile" =>
       Recorded = DOMAIN call[r].src /\ FailedIn(ledger) = {}
  /\ call[r].op = "down" /\ outcome[r] # "refused" /\ fromDB[r] # << >> =>
       /\ \A k \in DOMAIN ledger : ledger[k].id = fromDB[r][k].id
       /\ outcome[r] = "ok" => Len(ledger) = Base(r)

ProgressInv(r) ==
  /\ CallInv(r)
  /\ pc[r] \in Executing => PlanInv(r)
  /\ pc[r] = "return" /\ call[r].op # "plan" => ReturnInv(r)

AllProgress == \A r \in Runners : ProgressInv(r)

FullInv == LedgerInv /\ AllProgress
-----------------------------------------------------------------------------
\* A step in which the other runners' calls do not move.
LocalTo(r) ==
  \A q \in Runners \ {r} :
    /\ pc'[q] = pc[q] /\ call'[q] = call[q] /\ fromDB'[q] = fromDB[q]
    /\ applied'[q] = applied[q] /\ rolledBack'[q] = rolledBack[q]

\* A runner without the lock has no call, or one of Plan that is about to return.
LEMMA WithoutLock ==
  ASSUME TypeInv, NEW q \in Runners, CallInv(q), lock # q
  PROVE  pc[q] = "idle" \/ (pc[q] = "return" /\ call[q].op = "plan")
  BY DEF TypeInv, TypeOK, PCs, CallInv, Executing, Checked, ScriptWindow

\* The others have no part in a step of the lock's holder.
LEMMA HolderProgress ==
  ASSUME FullInv, NEW r \in Runners, lock = r, lock' = r, LocalTo(r), ProgressInv(r)'
  PROVE  AllProgress'
  <1> SUFFICES ASSUME NEW q \in Runners, q # r PROVE ProgressInv(q)'
    BY DEF AllProgress
  <1>1. CallInv(q) /\ TypeInv
    BY DEF FullInv, LedgerInv, AllProgress, ProgressInv
  <1>2. pc[q] = "idle" \/ (pc[q] = "return" /\ call[q].op = "plan")
    BY <1>1, WithoutLock
  <1>3. CallInv(q)'
    BY <1>1, <1>2 DEF CallInv, LocalTo, Executing, Checked, ScriptWindow
  <1> QED BY <1>2, <1>3 DEF ProgressInv, LocalTo, Executing, Checked, ScriptWindow

\* The plan's progress does not depend on anything else.
LEMMA PlanKept ==
  ASSUME NEW r \in Runners, PlanInv(r), UNCHANGED <<ledger, call, plan, result>>,
         pc'[r] \in Undoing => NextToRollback(r, cur'[r]),
         pc'[r] \in Applying => NextToApply(r, cur'[r])
  PROVE  PlanInv(r)'
  BY DEF PlanInv, UpInv, ReconcileInv, DownInv, Base, SameOrder, NextToRollback, NextToApply,
     Recorded, plan, result

\* An error leaves the ledger as far as the plan had got.
LEMMA ErrorReturns ==
  ASSUME FullInv, NEW r \in Runners, lock = r, lock' = r, pc[r] # "return",
         UNCHANGED <<ledger, call, plan, result>>,
         NEW how \in {"failed", "refused"}, Return(r, how)
  PROVE  ProgressInv(r)'
  <1>1. /\ ProgressInv(r) /\ pc \in [Runners -> PCs] /\ outcome \in [Runners -> {"ok", "refused", "failed"}]
    BY DEF FullInv, AllProgress, LedgerInv, TypeInv, TypeOK
  <1>2. pc'[r] = "return" /\ outcome'[r] = how
    BY <1>1 DEF Return
  <1>3. CallInv(r)'
    BY <1>1, <1>2 DEF ProgressInv, CallInv, Executing, Checked, ScriptWindow, result, plan
  <1>4. ReturnInv(r)'
    <2>1. applied[r] \subseteq Recorded /\ rolledBack[r] \cap Recorded = {}
      BY <1>1 DEF ProgressInv, CallInv, PlanInv
    <2>2. call[r].op = "down" /\ fromDB[r] # << >> =>
            \A k \in DOMAIN ledger : ledger[k].id = fromDB[r][k].id
      BY <1>1 DEF ProgressInv, CallInv, PlanInv, DownInv
    <2> QED BY <1>2, <2>1, <2>2 DEF ReturnInv, Recorded, plan, result
  <1> QED BY <1>2, <1>3, <1>4 DEF ProgressInv, Executing, Checked, ScriptWindow
-----------------------------------------------------------------------------
\* What a step of the lock's holder needs to know of its own state.
LEMMA HolderFacts ==
  ASSUME FullInv, NEW r \in Runners
  PROVE  /\ ProgressInv(r) /\ CallInv(r) /\ RunnerInv(r) /\ TypeInv
         /\ pc \in [Runners -> PCs] /\ cur \in [Runners -> Ids]
         /\ outcome \in [Runners -> {"ok", "refused", "failed"}]
         /\ fromDB \in [Runners -> Seq(Row)] /\ call \in [Runners -> CallType]
         /\ toRollback \in [Runners -> SUBSET Ids] /\ toApply \in [Runners -> SUBSET Ids]
         /\ applied \in [Runners -> SUBSET Ids] /\ rolledBack \in [Runners -> SUBSET Ids]
         /\ ledger \in Seq(Row) /\ UniqueIds(ledger)
         /\ pc[r] \in Busy => lock = r
  BY DEF FullInv, LedgerInv, RunnersInv, RunnerInv, AllProgress, ProgressInv, TypeInv, TypeOK

\* The table is made, the ledger has no failed row.
LEMMA PreparingKeepsProgress ==
  ASSUME FullInv, NEW r \in Runners, EnsureMigrationsTable(r) \/ RefuseIfFailed(r)
  PROVE  AllProgress'
  <1>1. /\ UNCHANGED <<lock, ledger, call, plan, result>> /\ pc[r] \in {"ensure", "refuse"}
        /\ \/ pc' = [pc EXCEPT ![r] = "baseline"] /\ pc[r] = "ensure" /\ call[r].op = "baseline"
           \/ pc' = [pc EXCEPT ![r] = "refuse"] /\ pc[r] = "ensure" /\ call[r].op # "baseline"
           \/ pc' = [pc EXCEPT ![r] = "plan"] /\ pc[r] = "refuse"
           \/ \E how \in {"failed", "refused"} : Return(r, how)
    BY DEF EnsureMigrationsTable, RefuseIfFailed, Goto, database
  <1>2. lock = r /\ LocalTo(r)
    BY <1>1, HolderFacts DEF LocalTo, plan, result, Busy, PCs, Return
  <1>3. CASE \E how \in {"failed", "refused"} : Return(r, how)
    BY <1>1, <1>2, <1>3, ErrorReturns, HolderProgress
  <1>4. CASE pc'[r] \in {"baseline", "refuse", "plan"}
    <2>1. call[r].op \in Ops
      BY HolderFacts, CallFields
    <2>2. CallInv(r)'
      BY <1>1, <1>2, <1>4, <2>1, HolderFacts
      DEF CallInv, Executing, Checked, ScriptWindow, plan, result, Return, Ops
    <2>3. ProgressInv(r)'
      BY <1>4, <2>2 DEF ProgressInv, Executing, Checked, ScriptWindow
    <2> QED BY <1>1, <1>2, <2>3, HolderProgress
  <1> QED BY <1>1, <1>3, <1>4, HolderFacts

\* The reads between two writes, and the statements of a script.
LEMMA QuietKeepsProgress ==
  ASSUME FullInv, NEW r \in Runners,
         \/ EnsureReversible(r) \/ DownStatement(r) \/ UpStatement(r) \/ CallFails(r)
         \/ \E m \in Ids : SelectDown(r, m) \/ StartUpScript(r, m)
  PROVE  AllProgress'
  <1>1. UNCHANGED <<lock, ledger, call, plan, result>> /\ pc[r] \in Busy
    BY DEF EnsureReversible, DownStatement, UpStatement, CallFails, SelectDown, StartUpScript,
       database, Busy, PCs
  <1>2. \/ \E how \in {"failed", "refused"} : Return(r, how)
        \/ \E x \in {"execute"} \cup Undoing \cup Applying :
             /\ pc' = [pc EXCEPT ![r] = x] /\ pc[r] \in Executing
             /\ x \in Undoing => NextToRollback(r, cur'[r])
             /\ x \in Applying => NextToApply(r, cur'[r])
    <2> USE DEF Executing, Checked, ScriptWindow, Undoing, Applying, Goto
    <2>1. CASE EnsureReversible(r) \/ CallFails(r)
      BY <2>1 DEF EnsureReversible, CallFails
    <2>2. ASSUME NEW m \in Ids, SelectDown(r, m) \/ StartUpScript(r, m)
          PROVE  \/ \E how \in {"failed", "refused"} : Return(r, how)
                 \/ \E x \in {"downStmts", "downTx", "upStmts"} :
                      /\ pc' = [pc EXCEPT ![r] = x] /\ pc[r] \in Executing
                      /\ x \in Undoing => NextToRollback(r, cur'[r])
                      /\ x \in Applying => NextToApply(r, cur'[r])
      <3>1. cur'[r] = m
        BY <2>2, HolderFacts DEF SelectDown, StartUpScript
      <3> QED BY <2>2, <3>1 DEF SelectDown, StartUpScript
    <2>3. CASE DownStatement(r) \/ UpStatement(r)
      <3>1. /\ pc[r] \in {"downStmts", "upStmts"} /\ cur' = cur
            /\ \E x \in Undoing \cup Applying :
                 /\ pc' = [pc EXCEPT ![r] = x]
                 /\ x \in Undoing <=> pc[r] = "downStmts"
                 /\ x \in Applying <=> pc[r] = "upStmts"
        BY <2>3, HolderFacts DEF DownStatement, UpStatement
      <3>2. /\ pc[r] = "downStmts" => NextToRollback(r, cur[r])
            /\ pc[r] = "upStmts" => NextToApply(r, cur[r])
        BY HolderFacts DEF ProgressInv, PlanInv
      <3> QED BY <3>1, <3>2
    <2> QED BY <2>1, <2>2, <2>3
  <1>3. lock = r /\ LocalTo(r)
    BY <1>1, <1>2, HolderFacts DEF LocalTo, plan, result, Return
  <1>4. CASE \E how \in {"failed", "refused"} : Return(r, how)
    BY <1>1, <1>3, <1>4, ErrorReturns, HolderProgress DEF Busy
  <1>5. ASSUME NEW x \in {"execute"} \cup Undoing \cup Applying,
               pc' = [pc EXCEPT ![r] = x], pc[r] \in Executing,
               x \in Undoing => NextToRollback(r, cur'[r]),
               x \in Applying => NextToApply(r, cur'[r])
        PROVE  AllProgress'
    <2>1. pc'[r] = x /\ x \in Executing
      BY <1>5, HolderFacts DEF Executing, Checked, ScriptWindow, Undoing, Applying
    <2>2. PlanInv(r)'
      BY <1>1, <1>5, <2>1, HolderFacts, PlanKept DEF ProgressInv
    <2>3. CallInv(r)'
      BY <1>1, <1>3, <1>5, <2>1, HolderFacts
      DEF CallInv, Executing, Checked, ScriptWindow, plan, result
    <2>4. ProgressInv(r)'
      BY <2>1, <2>2, <2>3 DEF ProgressInv, Executing, Checked, ScriptWindow
    <2> QED BY <1>1, <1>3, <2>4, HolderProgress
  <1> QED BY <1>2, <1>4, <1>5
-----------------------------------------------------------------------------
\* A plan with nothing left has done what the call is for.
PlanEnds ==
  \A r \in Runners :
    PlanInv(r) /\ toRollback[r] = {} /\ toApply[r] = {} /\ FailedIn(ledger) = {} => ReturnInv(r)

\* A plan with nothing left in it is what a successful return claims.
LEMMA PlansEnd == TypeInv => PlanEnds
  <1> SUFFICES ASSUME TypeInv, NEW r \in Runners, PlanInv(r), toRollback[r] = {},
                      toApply[r] = {}, FailedIn(ledger) = {}
               PROVE  ReturnInv(r)
    BY DEF PlanEnds
  <1>1. applied[r] \subseteq Recorded /\ rolledBack[r] \cap Recorded = {}
    BY DEF PlanInv
  <1>2. call[r].op = "up" => DOMAIN call[r].src \subseteq Recorded
    BY DEF PlanInv, UpInv
  <1>3. call[r].op = "reconcile" => Recorded = DOMAIN call[r].src
    BY DEF PlanInv, ReconcileInv
  <1>4. ASSUME call[r].op = "down" PROVE Len(ledger) = Base(r)
    <2>1. Len(ledger) \in Nat /\ Len(fromDB[r]) \in Nat /\ call[r].count \in Nat
      BY CallFields, LenProperties DEF TypeInv, TypeOK
    <2>2. Base(r) \in Nat /\ Base(r) <= Len(ledger)
      BY <1>4, <2>1 DEF PlanInv, DownInv, Base
    <2> DEFINE B == Base(r)
               L == Len(ledger)
    <2>3. {ledger[k].id : k \in B + 1 .. L} = {}
      BY <1>4 DEF PlanInv, DownInv
    <2> HIDE DEF B, L
    <2>4. ~ \E k \in B + 1 .. L : TRUE
      BY <2>3
    <2>5. B \in Nat /\ L \in Nat /\ B <= L
      BY <2>1, <2>2 DEF B, L
    <2>6. B = L
      BY <2>4, <2>5
    <2> QED BY <2>6 DEF B, L
  <1>5. call[r].op = "down" => \A k \in DOMAIN ledger : ledger[k].id = fromDB[r][k].id
    BY DEF PlanInv, DownInv
  <1> QED BY <1>1, <1>2, <1>3, <1>4, <1>5 DEF ReturnInv

\* A call that returns with its plan done.
LEMMA DoneReturns ==
  ASSUME FullInv, TypeInv', NEW r \in Runners, lock = r, lock' = r, LocalTo(r),
         UNCHANGED <<call, ledger>>, pc[r] \in Past, pc'[r] = "return", PlanInv(r)',
         toRollback'[r] = {}, toApply'[r] = {}
  PROVE  AllProgress'
  <1>1. PlanEnds'
    BY PlansEnd, PTL
  <1>2. FailedIn(ledger') = {}
    BY HolderFacts DEF RunnerInv
  <1>3. ReturnInv(r)'
    BY <1>1, <1>2 DEF PlanEnds
  <1>4. CallInv(r)'
    BY HolderFacts DEF CallInv, Executing, Checked, ScriptWindow, Past
  <1>5. ProgressInv(r)'
    BY <1>3, <1>4 DEF ProgressInv, Executing, Checked, ScriptWindow
  <1> QED BY <1>5, HolderProgress

\* The loops have nothing left.
LEMMA PlanDoneKeepsProgress ==
  ASSUME FullInv, TypeInv', NEW r \in Runners, PlanDone(r)
  PROVE  AllProgress'
  <1>1. /\ UNCHANGED <<lock, ledger, call, plan, result, cur>> /\ pc[r] = "execute"
        /\ toRollback[r] = {} /\ toApply[r] = {} /\ pc' = [pc EXCEPT ![r] = "return"]
    BY DEF PlanDone, Return, database
  <1>2. pc'[r] = "return" /\ lock = r /\ LocalTo(r) /\ PlanInv(r)
    BY <1>1, HolderFacts
    DEF LocalTo, plan, result, Busy, PCs, ProgressInv, Executing, Checked
  <1>3. PlanInv(r)'
    BY <1>1, <1>2, PlanKept DEF Undoing, Applying
  <1>4. toRollback'[r] = {} /\ toApply'[r] = {} /\ pc[r] \in Past
    BY <1>1 DEF plan, Past, Checked
  <1> QED BY <1>1, <1>2, <1>3, <1>4, DoneReturns

\* A new plan on the ledger as it is.
LEMMA StartPlanKeepsProgress ==
  ASSUME FullInv, TypeInv', NEW r \in Runners, NEW R, NEW A,
         pc[r] = "plan", StartPlan(r, R, A), UNCHANGED <<lock, ledger, call, result>>,
         R \subseteq Recorded, A \cap Recorded = {},
         call[r].op = "up" => UpInv(r)',
         call[r].op = "reconcile" => ReconcileInv(r)',
         call[r].op = "down" => DownInv(r)'
  PROVE  AllProgress'
  <1>1. /\ fromDB'[r] = ledger /\ toRollback'[r] = R /\ toApply'[r] = A
        /\ pc' = [pc EXCEPT ![r] = IF R = {} /\ A = {} THEN "return" ELSE "reversible"]
    BY HolderFacts DEF StartPlan, Goto, Return
  <1>2. pc'[r] = IF R = {} /\ A = {} THEN "return" ELSE "reversible"
    BY <1>1, HolderFacts
  <1>3. lock = r /\ LocalTo(r)
    <2>1. lock = r
      BY HolderFacts DEF Busy, PCs
    <2>2. \A q \in Runners \ {r} : fromDB'[q] = fromDB[q]
      BY HolderFacts DEF StartPlan
    <2> QED BY <1>1, <2>1, <2>2, HolderFacts DEF LocalTo, result
  <1>4. applied'[r] = {} /\ rolledBack'[r] = {}
    BY HolderFacts DEF CallInv, Executing, Checked, ScriptWindow, result
  <1>5. PlanInv(r)'
    <2>1. SameOrder(ledger, ledger)
      BY DEF SameOrder
    <2>2. pc'[r] \notin Undoing \cup Applying
      BY <1>2 DEF Undoing, Applying
    <2> QED BY <1>1, <1>4, <2>1, <2>2, HolderFacts DEF PlanInv, Recorded
  <1>6. CASE R = {} /\ A = {}
    BY <1>1, <1>2, <1>3, <1>5, <1>6, DoneReturns DEF Past
  <1>7. CASE ~(R = {} /\ A = {})
    <2>1. pc'[r] = "reversible"
      BY <1>2, <1>7
    <2>2. CallInv(r)'
      BY <1>3, <2>1, HolderFacts DEF CallInv, Executing, Checked, ScriptWindow
    <2>3. ProgressInv(r)'
      BY <1>5, <2>1, <2>2 DEF ProgressInv
    <2> QED BY <1>3, <2>3, HolderProgress
  <1> QED BY <1>6, <1>7

\* Up plans what the ledger lacks.
LEMMA PlanUpKeepsProgress ==
  ASSUME FullInv, TypeInv', NEW r \in Runners, PlanUp(r)
  PROVE  AllProgress'
  <1> DEFINE A == DOMAIN call[r].src \ Recorded
  <1>1. /\ pc[r] = "plan" /\ call[r].op = "up" /\ StartPlan(r, {}, A)
        /\ UNCHANGED <<lock, ledger, call, result>>
    BY DEF PlanUp, BuildPlan, database
  <1>2. toRollback'[r] = {} /\ toApply'[r] = A
    BY <1>1, HolderFacts DEF StartPlan
  <1>3. UpInv(r)'
    BY <1>1, <1>2 DEF UpInv, Recorded
  <1> HIDE DEF A
  <1>4. A \cap Recorded = {}
    BY DEF A
  <1> QED BY <1>1, <1>3, <1>4, StartPlanKeepsProgress

\* Reconcile plans the difference, if no guard refuses it.
LEMMA PlanReconcileKeepsProgress ==
  ASSUME FullInv, TypeInv', NEW r \in Runners, PlanReconcile(r)
  PROVE  AllProgress'
  <1> DEFINE files == DOMAIN call[r].src
             R == Recorded \ files
             A == files \ Recorded
             p == BuildPlan(files, Recorded, TRUE)
  <1>1. /\ pc[r] = "plan" /\ call[r].op = "reconcile"
        /\ UNCHANGED <<lock, ledger, call, result>>
        /\ \/ BlockedBy(p, files, call[r].opts) = "none" /\ StartPlan(r, R, A)
           \/ Return(r, "refused") /\ UNCHANGED plan
    BY DEF PlanReconcile, BuildPlan, database
  <1>2. lock = r
    BY <1>1, HolderFacts DEF Busy, PCs
  <1>3. CASE Return(r, "refused") /\ UNCHANGED plan
    <2>1. LocalTo(r)
      BY <1>1, <1>3, HolderFacts DEF LocalTo, plan, result, Return
    <2> QED BY <1>1, <1>2, <1>3, <2>1, ErrorReturns, HolderProgress
  <1>4. CASE BlockedBy(p, files, call[r].opts) = "none" /\ StartPlan(r, R, A)
    <2>1. toRollback'[r] = R /\ toApply'[r] = A
      BY <1>1, <1>4, HolderFacts DEF StartPlan
    <2>2. "interleaved" \notin call[r].opts => p.interleaved = {}
      BY <1>4 DEF BlockedBy
    <2>3. p.interleaved = {m \in A : \E k \in Recorded \cap files : m < k}
      BY DEF BuildPlan
    <2>4. files \subseteq Nat /\ Recorded \subseteq Nat
      BY HolderFacts, TypeFacts, IdsAssumption
    <2>5. "interleaved" \notin call[r].opts => \A m \in A : \A k \in Recorded \cap files : k < m
      <3> SUFFICES ASSUME "interleaved" \notin call[r].opts, NEW m \in A,
                          NEW k \in Recorded \cap files
                   PROVE  k < m
        OBVIOUS
      <3>1. ~(m < k)
        BY <2>2, <2>3
      <3>2. m # k /\ m \in Nat /\ k \in Nat
        BY <2>4
      <3> QED BY <3>1, <3>2
    <2>6. ReconcileInv(r)'
      BY <1>1, <2>1, <2>5 DEF ReconcileInv, Recorded
    <2> HIDE DEF R, A
    <2>7. R \subseteq Recorded /\ A \cap Recorded = {}
      BY DEF R, A
    <2> QED BY <1>1, <1>4, <2>6, <2>7, StartPlanKeepsProgress
  <1> QED BY <1>1, <1>3, <1>4

\* Down plans the end of the ledger.
LEMMA PlanDownKeepsProgress ==
  ASSUME FullInv, TypeInv', NEW r \in Runners, PlanDown(r)
  PROVE  AllProgress'
  <1> DEFINE L == Len(ledger)
             n == IF call[r].count = 0 \/ call[r].count > L THEN L ELSE call[r].count
             R == Tail_n(ledger, n)
  <1>1. /\ pc[r] = "plan" /\ call[r].op = "down" /\ StartPlan(r, R, {})
        /\ UNCHANGED <<lock, ledger, call, result>>
    BY DEF PlanDown, database
  <1>2. L \in Nat /\ DOMAIN ledger = 1 .. L /\ call[r].count \in Nat
    BY HolderFacts, CallFields, LenProperties
  <1>3. toRollback'[r] = R /\ toApply'[r] = {} /\ fromDB'[r] = ledger
    BY <1>1, HolderFacts DEF StartPlan
  <1>4. Base(r)' = L - n /\ L - n \in Nat
    BY <1>1, <1>2, <1>3 DEF Base
  <1>5. R = {ledger[k].id : k \in (L - n) + 1 .. L}
    BY DEF Tail_n
  <1>6. DownInv(r)'
    BY <1>1, <1>2, <1>3, <1>4, <1>5 DEF DownInv
  <1>7. R \subseteq Recorded
    <2>1. \A k \in (L - n) + 1 .. L : k \in 1 .. L
      BY <1>2, <1>4
    <2>2. \A k \in 1 .. L : ledger[k].id \in Recorded
      BY <1>2 DEF Recorded, RecordedIn, ToSet
    <2> QED BY <1>5, <2>1, <2>2
  <1> HIDE DEF R
  <1> QED BY <1>1, <1>6, <1>7, StartPlanKeepsProgress
-----------------------------------------------------------------------------
\* The row being rolled back is the last one of those the plan removes, also in the
\* ledger as it is now; for Down it is the last row of all.
LEMMA RowInHand ==
  ASSUME FullInv, NEW r \in Runners, pc[r] \in Undoing
  PROVE  /\ call[r].op \in {"reconcile", "down"} /\ PlanInv(r) /\ applied[r] = {}
         /\ cur[r] \in toRollback[r] /\ FailedIn(ledger) = {}
         /\ \E p \in DOMAIN ledger :
              /\ ledger[p].id = cur[r]
              /\ \A k \in DOMAIN ledger : p < k => ledger[k].id \notin toRollback[r]
              /\ call[r].op = "reconcile" =>
                   \A k \in DOMAIN ledger : p < k => ledger[k].id \in DOMAIN call[r].src
              /\ call[r].op = "down" => p = Len(ledger) /\ p > Base(r)
  <1>1. /\ PlanInv(r) /\ CallInv(r) /\ RunnerInv(r) /\ pc[r] \in Executing \ {"return"}
    BY HolderFacts DEF ProgressInv, Executing, Checked, ScriptWindow, Undoing
  <1>2. NextToRollback(r, cur[r]) /\ cur[r] \in toRollback[r] /\ toRollback[r] \subseteq Recorded
    BY <1>1 DEF PlanInv, NextToRollback
  <1>3. applied[r] = {} /\ SameOrder(ledger, fromDB[r]) /\ UniqueIds(fromDB[r])
    BY <1>1, <1>2 DEF PlanInv
  <1>4. call[r].op \in {"reconcile", "down"} /\ FailedIn(ledger) = {}
    BY <1>1, <1>2 DEF PlanInv, UpInv, CallInv, RunnerInv, Past, Checked, ScriptWindow, Undoing
  <1>5. PICK p \in DOMAIN ledger : ledger[p].id = cur[r]
    BY <1>2 DEF Recorded, RecordedIn, ToSet
  <1>6. PICK x \in DOMAIN fromDB[r] :
          /\ fromDB[r][x].id = cur[r]
          /\ \A j \in DOMAIN fromDB[r] : j > x => fromDB[r][j].id \notin toRollback[r]
    BY <1>2 DEF NextToRollback
  <1>7. ASSUME NEW k \in DOMAIN ledger, p < k PROVE ledger[k].id \notin toRollback[r]
    <2>1. PICK a, b \in DOMAIN fromDB[r] :
            a < b /\ fromDB[r][a].id = ledger[p].id /\ fromDB[r][b].id = ledger[k].id
      BY <1>3, <1>7 DEF SameOrder
    <2>2. a = x
      BY <1>3, <1>5, <1>6, <2>1 DEF UniqueIds
    <2>3. b > x
      <3>1. a \in Nat /\ b \in Nat
        BY HolderFacts, LenProperties
      <3> QED BY <2>1, <2>2, <3>1
    <2> QED BY <1>6, <2>1, <2>3
  <1>8. ASSUME call[r].op = "reconcile", NEW k \in DOMAIN ledger, p < k
        PROVE  ledger[k].id \in DOMAIN call[r].src
    <2>1. ledger[k].id \in Recorded
      BY DEF Recorded, RecordedIn, ToSet
    <2>2. Recorded \subseteq DOMAIN call[r].src \cup toRollback[r]
      BY <1>1, <1>8 DEF PlanInv, ReconcileInv
    <2> QED BY <1>7, <1>8, <2>1, <2>2
  <1>9. ASSUME call[r].op = "down" PROVE p = Len(ledger) /\ p > Base(r)
    <2> DEFINE B == Base(r)
               L == Len(ledger)
    <2>1. L \in Nat /\ DOMAIN ledger = 1 .. L /\ p \in 1 .. L
      BY HolderFacts, LenProperties
    <2>2. B \in Nat
      <3>1. Len(fromDB[r]) \in Nat /\ call[r].count \in Nat
        BY HolderFacts, CallFields, LenProperties
      <3> QED BY <3>1 DEF Base
    <2>3. toRollback[r] = {ledger[k].id : k \in B + 1 .. L}
      BY <1>1, <1>9 DEF PlanInv, DownInv
    <2> HIDE DEF B, L
    <2>4. PICK y \in B + 1 .. L : ledger[y].id = cur[r]
      BY <1>2, <2>3
    <2>5. y = p
      <3>1. y \in DOMAIN ledger
        BY <2>1, <2>2, <2>4
      <3> QED BY <1>5, <2>4, <3>1, HolderFacts DEF UniqueIds
    <2>6. ledger[L].id \in toRollback[r] /\ L \in DOMAIN ledger
      BY <2>1, <2>2, <2>3, <2>4
    <2>7. ~(p < L)
      BY <1>7, <2>6
    <2> QED BY <2>1, <2>2, <2>4, <2>5, <2>7 DEF B, L
  <1> QED BY <1>1, <1>2, <1>3, <1>4, <1>5, <1>7, <1>8, <1>9

\* What the DELETE makes of the plan's ledger.
LEMMA RowIsGone ==
  ASSUME FullInv, NEW r \in Runners, pc[r] \in Undoing, ledger' = Delete(ledger, cur[r])
  PROVE  /\ Recorded' = Recorded \ {cur[r]}
         /\ SameOrder(ledger', fromDB[r])
         /\ call[r].op = "down" =>
              /\ Len(ledger') = Len(ledger) - 1 /\ Base(r) <= Len(ledger')
              /\ \A k \in DOMAIN ledger' : ledger'[k].id = fromDB[r][k].id
              /\ toRollback[r] \ {cur[r]} = {ledger'[k].id : k \in Base(r) + 1 .. Len(ledger')}
  <1> DEFINE m == cur[r]
             n == Len(ledger)
             B == Base(r)
  <1>1. /\ PlanInv(r) /\ m \in toRollback[r] /\ ledger \in Seq(Row) /\ UniqueIds(ledger)
    BY RowInHand, HolderFacts
  <1>2. PICK p \in DOMAIN ledger :
          ledger[p].id = m /\ (call[r].op = "down" => p = Len(ledger) /\ p > B)
    BY RowInHand
  <1>3. Recorded' = Recorded \ {m}
    BY <1>1, DeleteFacts DEF Recorded
  <1>4. /\ n \in Nat /\ p \in 1 .. n /\ DOMAIN ledger = 1 .. n
        /\ Len(ledger') = n - 1 /\ DOMAIN ledger' = 1 .. n-1
        /\ \A i \in 1 .. n-1 : i < p => ledger'[i] = ledger[i]
        /\ \A i \in 1 .. n-1 : i >= p => ledger'[i] = ledger[i+1]
    BY <1>1, <1>2, DeletePositions
  <1> HIDE DEF n, m
  <1>5. SameOrder(ledger', fromDB[r])
    <2>1. SameOrder(ledger, fromDB[r])
      BY <1>1 DEF PlanInv
    <2> SUFFICES ASSUME NEW j \in DOMAIN ledger', NEW k \in DOMAIN ledger', j < k
                 PROVE  \E a, b \in DOMAIN fromDB[r] :
                          a < b /\ fromDB[r][a].id = ledger'[j].id /\ fromDB[r][b].id = ledger'[k].id
      BY DEF SameOrder
    <2>2. \E x, y \in DOMAIN ledger : x < y /\ ledger'[j] = ledger[x] /\ ledger'[k] = ledger[y]
      <3>1. CASE k < p
        BY <1>4, <3>1
      <3>2. CASE j < p /\ k >= p
        BY <1>4, <3>2
      <3>3. CASE j >= p
        <4>1. k >= p /\ j + 1 \in 1 .. n /\ k + 1 \in 1 .. n /\ j + 1 < k + 1
          BY <1>4, <3>3
        <4>2. ledger'[j] = ledger[j+1] /\ ledger'[k] = ledger[k+1]
          BY <1>4, <3>3, <4>1
        <4> QED BY <1>4, <4>1, <4>2
      <3> QED BY <1>4, <3>1, <3>2, <3>3
    <2> QED BY <2>1, <2>2 DEF SameOrder
  <1>6. ASSUME call[r].op = "down"
        PROVE  /\ B <= n - 1
               /\ \A k \in 1 .. n-1 : ledger'[k].id = fromDB[r][k].id
               /\ toRollback[r] \ {m} = {ledger'[k].id : k \in B + 1 .. n - 1}
    <2>1. p = n /\ p > B
      BY <1>2, <1>6 DEF n
    <2>2. B \in Nat
      <3>1. Len(fromDB[r]) \in Nat /\ call[r].count \in Nat
        BY HolderFacts, CallFields, LenProperties
      <3> QED BY <3>1 DEF Base
    <2>3. \A i \in 1 .. n-1 : ledger'[i] = ledger[i] /\ ledger[i].id = fromDB[r][i].id
      BY <1>1, <1>4, <1>6, <2>1 DEF PlanInv, DownInv
    <2>4. toRollback[r] = {ledger[k].id : k \in B + 1 .. n}
      BY <1>1, <1>6 DEF PlanInv, DownInv, n
    <2> HIDE DEF B
    <2>5. \A k \in B + 1 .. n : k \in 1 .. n /\ (ledger[k].id = m <=> k = n)
      BY <1>1, <1>2, <1>4, <2>1, <2>2 DEF UniqueIds
    <2>6. \A k : k \in B + 1 .. n - 1 <=> k \in B + 1 .. n /\ k # n
      BY <1>4, <2>1, <2>2
    <2>7. \A k \in B + 1 .. n - 1 : ledger'[k].id = ledger[k].id
      BY <1>4, <2>2, <2>3
    <2> QED BY <1>4, <2>1, <2>2, <2>3, <2>4, <2>5, <2>6, <2>7
  <1> QED BY <1>3, <1>4, <1>5, <1>6 DEF n, m
\* A row is rolled back: the loop goes on, or the reply was lost.
LEMMA RollbackKeepsProgress ==
  ASSUME FullInv, NEW r \in Runners, DownTx(r) \/ DeleteRow(r)
  PROVE  AllProgress'
  <1> DEFINE m == cur[r]
  <1>1. /\ pc[r] \in {"downTx", "deleteRow"} /\ UNCHANGED <<lock, call, cur>>
        /\ ledger' = ledger \/ ledger' = Delete(ledger, m)
        /\ \/ ledger' = Delete(ledger, m) /\ RolledBackOne(r)
           \/ Return(r, "failed") /\ UNCHANGED <<plan, result>>
    BY DEF DownTx, DeleteRow, Bookkeeping
  <1>2. lock = r /\ pc[r] \in Undoing /\ pc[r] \in Executing
    BY <1>1, HolderFacts DEF Undoing, Busy, PCs, Executing, Checked, ScriptWindow
  <1>3. /\ call[r].op \in {"reconcile", "down"} /\ PlanInv(r) /\ applied[r] = {}
        /\ m \in toRollback[r]
    BY <1>2, RowInHand
  <1>4. LocalTo(r)
    BY <1>1, HolderFacts DEF LocalTo, RolledBackOne, Goto, Return, plan, result
  <1>5. CASE ledger' = ledger /\ Return(r, "failed") /\ UNCHANGED <<plan, result>>
    BY <1>1, <1>2, <1>4, <1>5, ErrorReturns, HolderProgress
  <1>6. CASE ledger' = Delete(ledger, m) /\ Return(r, "failed") /\ UNCHANGED <<plan, result>>
    <2>1. pc'[r] = "return" /\ outcome'[r] = "failed"
      BY <1>6, HolderFacts DEF Return
    <2>2. /\ Recorded' = Recorded \ {m}
          /\ call[r].op = "down" =>
               \A k \in DOMAIN ledger' : ledger'[k].id = fromDB[r][k].id
      BY <1>2, <1>6, RowIsGone
    <2>3. rolledBack[r] \cap Recorded = {}
      BY <1>3 DEF PlanInv
    <2>4. ReturnInv(r)'
      BY <1>1, <1>3, <1>6, <2>1, <2>2, <2>3 DEF ReturnInv, plan, result
    <2>5. CallInv(r)'
      BY <1>1, <1>2, <1>6, <2>1, HolderFacts DEF CallInv, Executing, Checked, ScriptWindow
    <2>6. ProgressInv(r)'
      BY <2>1, <2>4, <2>5 DEF ProgressInv, Executing, Checked, ScriptWindow
    <2> QED BY <1>1, <1>2, <1>4, <2>6, HolderProgress
  <1>7. CASE ledger' = Delete(ledger, m) /\ RolledBackOne(r)
    <2>1. /\ pc'[r] = "execute" /\ toRollback'[r] = toRollback[r] \ {m}
          /\ rolledBack'[r] = rolledBack[r] \cup {m} /\ applied' = applied
          /\ fromDB' = fromDB /\ toApply' = toApply
      BY <1>7, HolderFacts DEF RolledBackOne, Goto
    <2>2. Recorded' = Recorded \ {m} /\ SameOrder(ledger', fromDB[r])
      BY <1>2, <1>7, RowIsGone
    <2>3. call[r].op = "down" => DownInv(r)'
      <3> SUFFICES ASSUME call[r].op = "down" PROVE DownInv(r)'
        OBVIOUS
      <3>1. /\ Len(ledger') = Len(ledger) - 1 /\ Base(r) <= Len(ledger')
            /\ \A k \in DOMAIN ledger' : ledger'[k].id = fromDB[r][k].id
            /\ toRollback[r] \ {m} = {ledger'[k].id : k \in Base(r) + 1 .. Len(ledger')}
        BY <1>2, <1>7, RowIsGone
      <3>2. Base(r)' = Base(r)
        BY <1>1, <2>1 DEF Base
      <3>3. Len(ledger') <= Len(fromDB[r])
        <4>1. Len(ledger) \in Nat /\ Len(fromDB[r]) \in Nat /\ Len(ledger) <= Len(fromDB[r])
          BY <1>3, HolderFacts, LenProperties DEF PlanInv, DownInv
        <4> QED BY <3>1, <4>1
      <3>4. toApply'[r] = {}
        BY <1>3, <2>1 DEF PlanInv, DownInv
      <3> QED BY <2>1, <3>1, <3>2, <3>3, <3>4 DEF DownInv
    <2>4. call[r].op = "reconcile" => ReconcileInv(r)'
      BY <1>1, <1>3, <2>1, <2>2 DEF PlanInv, ReconcileInv
    <2>5. PlanInv(r)'
      <3>1. Recorded' = (RecordedIn(fromDB[r]) \ rolledBack'[r]) \cup applied[r]
        BY <1>3, <2>1, <2>2 DEF PlanInv
      <3>2. m \in RecordedIn(fromDB[r])
        BY <1>3 DEF PlanInv
      <3> QED BY <1>1, <1>3, <2>1, <2>2, <2>3, <2>4, <3>1, <3>2
          DEF PlanInv, Undoing, Applying
    <2>6. CallInv(r)'
      BY <1>1, <1>2, <2>1, HolderFacts DEF CallInv, Executing, Checked, ScriptWindow
    <2>7. ProgressInv(r)'
      BY <2>1, <2>5, <2>6 DEF ProgressInv, Executing, Checked
    <2> QED BY <1>1, <1>2, <1>4, <2>7, HolderProgress
  <1> QED BY <1>1, <1>5, <1>6, <1>7

\* A rollback that failed halfway: the call ends there, with its row in the ledger.
LEMMA MarkFailedKeepsProgress ==
  ASSUME FullInv, NEW r \in Runners, MarkFailed(r)
  PROVE  AllProgress'
  <1> DEFINE m == cur[r]
  <1>1. /\ pc[r] = "markFailed" /\ UNCHANGED <<lock, call, plan, result>> /\ Return(r, "failed")
        /\ ledger' = ledger \/ ledger' = MarkError(ledger, m)
    BY DEF MarkFailed, Bookkeeping
  <1>2. lock = r /\ pc[r] \in Undoing /\ LocalTo(r)
    BY <1>1, HolderFacts DEF Undoing, Busy, PCs, LocalTo, plan, result, Return
  <1>3. CASE ledger' = ledger
    BY <1>1, <1>2, <1>3, ErrorReturns, HolderProgress
  <1>4. CASE ledger' = MarkError(ledger, m)
    <2>1. PlanInv(r) /\ m \in toRollback[r]
      BY <1>2, RowInHand
    <2>2. PICK p \in DOMAIN ledger : ledger[p].id = m
      BY <1>2, RowInHand
    <2>3. DOMAIN ledger' = DOMAIN ledger /\ \A k \in DOMAIN ledger : ledger'[k].id = ledger[k].id
      <3>1. ledger' = MarkError(ledger, ledger[p].id) /\ ledger \in Seq(Row) /\ UniqueIds(ledger)
        BY <1>4, <2>2, HolderFacts
      <3> QED BY <3>1, MarkErrorPositions
    <2>4. Recorded' = Recorded
      BY <2>3 DEF Recorded, RecordedIn, ToSet
    <2>5. pc'[r] = "return" /\ outcome'[r] = "failed"
      BY <1>1, HolderFacts DEF Return
    <2>6. applied[r] \subseteq Recorded /\ rolledBack[r] \cap Recorded = {}
      BY <2>1 DEF PlanInv
    <2>7. call[r].op = "down" => \A k \in DOMAIN ledger' : ledger'[k].id = fromDB[r][k].id
      BY <2>1, <2>3 DEF PlanInv, DownInv
    <2>8. ReturnInv(r)'
      BY <1>1, <2>4, <2>5, <2>6, <2>7 DEF ReturnInv, plan, result
    <2>9. CallInv(r)'
      BY <1>1, <1>2, <2>5, HolderFacts DEF CallInv, Executing, Checked, ScriptWindow, Undoing
    <2>10. ProgressInv(r)'
      BY <2>5, <2>8, <2>9 DEF ProgressInv, Executing, Checked, ScriptWindow
    <2> QED BY <1>1, <1>2, <2>10, HolderProgress
  <1> QED BY <1>1, <1>3, <1>4
-----------------------------------------------------------------------------
\* What applying m adds to the plan's ledger.  Without WithInterleaved it goes behind
\* everything that is there: the smallest ID left is larger than all of them.
LEMMA RowIsNew ==
  ASSUME FullInv, NEW r \in Runners, pc[r] \in Executing, NEW m, NextToApply(r, m),
         NEW err \in BOOLEAN, m \notin Recorded,
         ledger' = Insert(ledger, RowOf(call[r].src, m, err))
  PROVE  /\ call[r].op \in {"up", "reconcile"} /\ m \in Ids /\ m \in DOMAIN call[r].src
         /\ Recorded' = Recorded \cup {m}
         /\ call[r].op = "reconcile" /\ "interleaved" \notin call[r].opts =>
              \A k \in Recorded : k < m
  <1>1. PlanInv(r) /\ toRollback[r] = {} /\ m \in toApply[r] /\ call[r].op \in {"up", "reconcile", "down"}
    BY HolderFacts DEF ProgressInv, CallInv, NextToApply
  <1>2. call[r].op # "down"
    BY <1>1 DEF PlanInv, DownInv
  <1>3. m \in DOMAIN call[r].src /\ call[r].src \in Sources /\ DOMAIN call[r].src \subseteq Ids
    BY <1>1, HolderFacts, TypeFacts
  <1>4. Recorded' = Recorded \cup {m}
    <2>1. RowOf(call[r].src, m, err) \in Row /\ RowOf(call[r].src, m, err).id = m
      BY <1>3, RowOfType DEF RowOf
    <2> QED BY <2>1, HolderFacts, InsertFacts DEF Recorded
  <1>5. ASSUME call[r].op = "reconcile", "interleaved" \notin call[r].opts, NEW k \in Recorded
        PROVE  k < m
    <2>1. k \in DOMAIN call[r].src
      BY <1>1, <1>5 DEF PlanInv, ReconcileInv
    <2> QED BY <1>1, <1>5, <2>1 DEF PlanInv, ReconcileInv
  <1> QED BY <1>1, <1>2, <1>3, <1>4, <1>5

\* A migration is applied: the loop goes on, or the call ends with an error.
LEMMA ApplyKeepsProgress ==
  ASSUME FullInv, NEW r \in Runners, pc[r] \in Executing, NEW m, NextToApply(r, m),
         UNCHANGED <<lock, call>>,
         \/ UNCHANGED <<ledger, plan, result>> /\ Return(r, "failed")
         \/ /\ m \notin Recorded
            /\ \E err \in BOOLEAN : ledger' = Insert(ledger, RowOf(call[r].src, m, err))
            /\ \/ AppliedOne(r, m)
               \/ Return(r, "failed") /\ UNCHANGED <<plan, result>>
  PROVE  AllProgress'
  <1>1. lock = r
    BY HolderFacts DEF CallInv, Executing, Checked, ScriptWindow
  <1>2. LocalTo(r)
    BY HolderFacts DEF LocalTo, AppliedOne, Goto, Return, plan, result
  <1>3. CASE UNCHANGED <<ledger, plan, result>> /\ Return(r, "failed")
    BY <1>1, <1>2, <1>3, ErrorReturns, HolderProgress DEF Executing, Checked, ScriptWindow
  <1>4. ASSUME m \notin Recorded, NEW err \in BOOLEAN,
               ledger' = Insert(ledger, RowOf(call[r].src, m, err))
        PROVE  /\ call[r].op \in {"up", "reconcile"} /\ m \in Ids /\ m \in DOMAIN call[r].src
               /\ Recorded' = Recorded \cup {m} /\ PlanInv(r)
               /\ toRollback[r] = {} /\ m \in toApply[r]
               /\ call[r].op = "reconcile" /\ "interleaved" \notin call[r].opts =>
                    \A k \in Recorded : k < m
    BY <1>4, RowIsNew, HolderFacts DEF ProgressInv, NextToApply
  <1>5. ASSUME m \notin Recorded, NEW err \in BOOLEAN,
               ledger' = Insert(ledger, RowOf(call[r].src, m, err)),
               Return(r, "failed"), UNCHANGED <<plan, result>>
        PROVE  AllProgress'
    <2>1. pc'[r] = "return" /\ outcome'[r] = "failed"
      BY <1>5, HolderFacts DEF Return
    <2>2. applied[r] \subseteq Recorded' /\ rolledBack[r] \cap Recorded' = {}
      BY <1>4, <1>5 DEF PlanInv
    <2>3. ReturnInv(r)'
      BY <1>4, <1>5, <2>1, <2>2 DEF ReturnInv, plan, result
    <2>4. CallInv(r)'
      BY <1>1, <1>5, <2>1, HolderFacts DEF CallInv, Executing, Checked, ScriptWindow
    <2>5. ProgressInv(r)'
      BY <2>1, <2>3, <2>4 DEF ProgressInv, Executing, Checked, ScriptWindow
    <2> QED BY <1>1, <1>2, <2>5, HolderProgress
  <1>6. ASSUME m \notin Recorded, NEW err \in BOOLEAN,
               ledger' = Insert(ledger, RowOf(call[r].src, m, err)), AppliedOne(r, m)
        PROVE  AllProgress'
    <2>1. /\ pc'[r] = "execute" /\ toRollback' = toRollback /\ rolledBack' = rolledBack
          /\ toApply'[r] = toApply[r] \ {m} /\ applied'[r] = applied[r] \cup {m}
          /\ fromDB' = fromDB
      BY <1>6, HolderFacts DEF AppliedOne, Goto
    <2>2. call[r].op = "up" => UpInv(r)'
      BY <1>4, <1>6, <2>1 DEF PlanInv, UpInv
    <2>3. call[r].op = "reconcile" => ReconcileInv(r)'
      <3> SUFFICES ASSUME call[r].op = "reconcile" PROVE ReconcileInv(r)'
        OBVIOUS
      <3> DEFINE files == DOMAIN call[r].src
      <3>1. ASSUME "interleaved" \notin call[r].opts, NEW x \in toApply'[r],
                   NEW k \in Recorded' \cap files
            PROVE  k < x
        <4>1. x \in toApply[r] /\ x # m /\ x \in Nat /\ m \in Nat
          BY <1>4, <1>6, <2>1, HolderFacts, IdsAssumption
        <4>2. m <= x
          BY <4>1 DEF NextToApply
        <4>3. CASE k = m
          BY <4>1, <4>2, <4>3
        <4>4. CASE k \in Recorded
          BY <1>4, <1>6, <3>1, <4>1, <4>4 DEF PlanInv, ReconcileInv
        <4> QED BY <1>4, <1>6, <4>3, <4>4
      <3>2. /\ toRollback[r] \cap files = {} /\ Recorded' \subseteq files \cup toRollback[r]
            /\ files \subseteq Recorded' \cup toApply'[r]
        BY <1>4, <1>6, <2>1 DEF PlanInv, ReconcileInv
      <3> QED BY <2>1, <3>1, <3>2 DEF ReconcileInv
    <2>4. PlanInv(r)'
      <3>1. /\ UniqueIds(fromDB[r]) /\ rolledBack[r] \subseteq RecordedIn(fromDB[r])
            /\ applied[r] \cap RecordedIn(fromDB[r]) = {} /\ toApply[r] \cap RecordedIn(fromDB[r]) = {}
            /\ Recorded = (RecordedIn(fromDB[r]) \ rolledBack[r]) \cup applied[r]
        BY <1>4, <1>6 DEF PlanInv
      <3>2. Recorded' = (RecordedIn(fromDB[r]) \ rolledBack[r]) \cup applied'[r]
        BY <1>4, <1>6, <2>1, <3>1
      <3> QED BY <1>4, <1>6, <2>1, <2>2, <2>3, <3>1, <3>2 DEF PlanInv, Undoing, Applying
    <2>5. CallInv(r)'
      BY <1>1, <2>1, HolderFacts DEF CallInv, Executing, Checked, ScriptWindow
    <2>6. ProgressInv(r)'
      BY <2>1, <2>4, <2>5 DEF ProgressInv, Executing, Checked
    <2> QED BY <1>1, <1>2, <2>6, HolderProgress
  <1> QED BY <1>3, <1>5, <1>6

\* Both ways to apply, with a transaction and without.
LEMMA ApplyingKeepsProgress ==
  ASSUME FullInv, NEW r \in Runners, RecordUp(r) \/ \E m \in Ids : ApplyTx(r, m)
  PROVE  AllProgress'
  <1>1. ASSUME NEW m \in Ids, ApplyTx(r, m) PROVE AllProgress'
    <2>1. /\ pc[r] \in Executing /\ NextToApply(r, m) /\ UNCHANGED <<lock, call>>
          /\ \/ UNCHANGED <<ledger, plan, result>> /\ Return(r, "failed")
             \/ /\ m \notin Recorded
                /\ \E err \in BOOLEAN : ledger' = Insert(ledger, RowOf(call[r].src, m, err))
                /\ \/ AppliedOne(r, m)
                   \/ Return(r, "failed") /\ UNCHANGED <<plan, result>>
      BY <1>1 DEF ApplyTx, Executing, Checked
    <2> QED BY <2>1, ApplyKeepsProgress
  <1>2. ASSUME RecordUp(r) PROVE AllProgress'
    <2>1. /\ pc[r] \in Executing /\ pc[r] \in Applying /\ UNCHANGED <<lock, call>>
          /\ \/ UNCHANGED <<ledger, plan, result>> /\ Return(r, "failed")
             \/ /\ cur[r] \notin Recorded
                /\ \E err \in BOOLEAN : ledger' = Insert(ledger, RowOf(call[r].src, cur[r], err))
                /\ \/ AppliedOne(r, cur[r])
                   \/ Return(r, "failed") /\ UNCHANGED <<plan, result>>
      BY <1>2 DEF RecordUp, Bookkeeping, Executing, Checked, ScriptWindow, Applying
    <2>2. NextToApply(r, cur[r])
      BY <2>1, HolderFacts DEF ProgressInv, PlanInv
    <2> QED BY <2>1, <2>2, ApplyKeepsProgress
  <1> QED BY <1>1, <1>2
-----------------------------------------------------------------------------
\* The operations without a plan promise nothing but their Result.
LEMMA BookkeeperReturns ==
  ASSUME FullInv, NEW r \in Runners, lock = r, lock' = r, LocalTo(r), UNCHANGED call,
         call[r].op \in {"forget", "baseline"}, pc'[r] = "return",
         applied'[r] \subseteq Recorded', rolledBack'[r] = {}
  PROVE  AllProgress'
  <1>1. CallInv(r)'
    BY DEF CallInv, Executing, Checked, ScriptWindow
  <1>2. ReturnInv(r)'
    BY DEF ReturnInv
  <1>3. ProgressInv(r)'
    BY <1>1, <1>2 DEF ProgressInv, Executing, Checked, ScriptWindow
  <1> QED BY <1>3, HolderProgress

\* Forget and Baseline.
LEMMA BookkeepingKeepsProgress ==
  ASSUME FullInv, NEW r \in Runners, Forget(r) \/ Baseline(r) \/ RecordApplied(r)
  PROVE  AllProgress'
  <1>1. /\ pc[r] \in {"forget", "baseline", "recordAll"} /\ UNCHANGED <<lock, call>>
    BY DEF Forget, Baseline, RecordApplied
  <1>2. /\ lock = r /\ call[r].op \in {"forget", "baseline"}
        /\ applied[r] = {} /\ rolledBack[r] = {}
        /\ pc[r] # "forget" => call[r].op = "baseline"
    BY <1>1, HolderFacts DEF CallInv, Busy, PCs, Executing, Checked, ScriptWindow
  <1>3. CASE Forget(r)
    <2>1. \E how \in {"ok", "refused", "failed"} : Return(r, how)
      BY <1>3 DEF Forget
    <2>2. pc'[r] = "return" /\ UNCHANGED <<plan, result>> /\ LocalTo(r)
      BY <1>1, <1>3, <2>1, HolderFacts DEF Forget, Return, LocalTo, plan, result
    <2> QED BY <1>1, <1>2, <2>2, BookkeeperReturns DEF result
  <1>4. CASE Baseline(r)
    <2>1. /\ UNCHANGED result
          /\ \/ Return(r, "refused") /\ UNCHANGED plan
             \/ pc' = [pc EXCEPT ![r] = "recordAll"] /\ fromDB' = [fromDB EXCEPT ![r] = ledger]
      BY <1>4 DEF Baseline, Goto
    <2>2. LocalTo(r)
      BY <1>1, <2>1, HolderFacts DEF LocalTo, plan, result, Return
    <2>3. CASE Return(r, "refused")
      <3>1. pc'[r] = "return"
        BY <2>3, HolderFacts DEF Return
      <3> QED BY <1>1, <1>2, <2>1, <2>2, <3>1, BookkeeperReturns DEF result
    <2>4. CASE pc' = [pc EXCEPT ![r] = "recordAll"]
      <3>1. pc'[r] = "recordAll" /\ pc[r] = "baseline"
        BY <1>4, <2>4, HolderFacts DEF Baseline
      <3>2. CallInv(r)'
        BY <1>1, <1>2, <2>1, <3>1, HolderFacts
        DEF CallInv, Executing, Checked, ScriptWindow, result
      <3>3. ProgressInv(r)'
        BY <3>1, <3>2 DEF ProgressInv, Executing, Checked, ScriptWindow
      <3> QED BY <1>1, <1>2, <2>2, <3>3, HolderProgress
    <2> QED BY <2>1, <2>3, <2>4
  <1>5. CASE RecordApplied(r)
    <2> DEFINE S == toApply[r]
    <2>1. ledger = << >> /\ S \subseteq DOMAIN call[r].src /\ call[r].src \in Sources
      BY <1>5, HolderFacts, TypeFacts DEF RecordApplied, RunnerInv
    <2>2. /\ UNCHANGED plan /\ \E how \in {"ok", "failed"} : Return(r, how)
          /\ \/ UNCHANGED result
             \/ /\ applied' = [applied EXCEPT ![r] = S] /\ UNCHANGED rolledBack
                /\ \E s \in Slices(S) :
                     ledger' = << >> \o [k \in DOMAIN s |-> RowOf(call[r].src, s[k], FALSE)]
      BY <1>5, <2>1 DEF RecordApplied
    <2>3. pc'[r] = "return" /\ LocalTo(r)
      BY <1>1, <2>2, HolderFacts DEF LocalTo, plan, result, Return
    <2>4. applied'[r] \subseteq Recorded' /\ rolledBack'[r] = {}
      <3>1. CASE UNCHANGED result
        BY <1>2, <3>1 DEF result
      <3>2. ASSUME applied' = [applied EXCEPT ![r] = S], UNCHANGED rolledBack, NEW s \in Slices(S),
                   ledger' = << >> \o [k \in DOMAIN s |-> RowOf(call[r].src, s[k], FALSE)]
            PROVE  applied'[r] \subseteq Recorded' /\ rolledBack'[r] = {}
        <4>1. RecordedIn(ledger') = S
          BY <2>1, <3>2, AdoptFacts
        <4>2. applied'[r] = S
          BY <3>2, HolderFacts
        <4> QED BY <1>2, <3>2, <4>1, <4>2 DEF Recorded
      <3> QED BY <2>2, <3>1, <3>2
    <2> QED BY <1>1, <1>2, <2>3, <2>4, BookkeeperReturns
  <1> QED BY <1>3, <1>4, <1>5
-----------------------------------------------------------------------------
\* The steps around a call: others keep what they know, since none of them changes
\* the ledger and the lock moves only between its holder and nobody.
LEMMA AroundACall ==
  ASSUME FullInv, NEW r \in Runners, LocalTo(r), UNCHANGED ledger, ProgressInv(r)',
         lock' = lock \/ (lock = None /\ lock' = r) \/ (lock = r /\ lock' = None),
         \A q \in Runners \ {r} :
           /\ toRollback'[q] = toRollback[q] /\ toApply'[q] = toApply[q]
           /\ cur'[q] = cur[q] /\ outcome'[q] = outcome[q]
  PROVE  AllProgress'
  <1> SUFFICES ASSUME NEW q \in Runners, q # r PROVE ProgressInv(q)'
    BY DEF AllProgress
  <1>1. ProgressInv(q) /\ RunnerInv(q)
    BY HolderFacts
  <1>2. /\ pc'[q] = pc[q] /\ call'[q] = call[q] /\ fromDB'[q] = fromDB[q] /\ cur'[q] = cur[q]
        /\ applied'[q] = applied[q] /\ rolledBack'[q] = rolledBack[q] /\ outcome'[q] = outcome[q]
        /\ toRollback'[q] = toRollback[q] /\ toApply'[q] = toApply[q]
    BY DEF LocalTo
  <1>3. lock' = q <=> lock = q
    BY NoneAssumption
  <1>4. CallInv(q)'
    BY <1>1, <1>2, <1>3 DEF ProgressInv, CallInv
  <1>5. PlanInv(q) => PlanInv(q)'
    BY <1>2 DEF PlanInv, UpInv, ReconcileInv, DownInv, Base, SameOrder, NextToRollback,
       NextToApply, Recorded
  <1>6. ReturnInv(q) => ReturnInv(q)'
    BY <1>2 DEF ReturnInv, Recorded, Base
  <1> QED BY <1>1, <1>2, <1>4, <1>5, <1>6 DEF ProgressInv
\* The lock is taken; a Plan beside it; the call returns; the process dies.
LEMMA BeginKeepsProgress ==
  ASSUME FullInv, NEW r \in Runners, NEW c \in Calls, Begin(r, c)
  PROVE  AllProgress'
  <1>1. /\ pc[r] = "idle" /\ lock = None /\ lock' = r /\ c.op # "plan"
        /\ call' = [call EXCEPT ![r] = c] /\ UNCHANGED <<ledger, plan, cur, result, outcome>>
        /\ pc' = [pc EXCEPT ![r] = IF c.op = "forget" THEN "forget" ELSE "ensure"]
    BY DEF Begin, Goto, database
  <1>2. /\ pc'[r] = IF c.op = "forget" THEN "forget" ELSE "ensure"
        /\ call'[r] = c /\ LocalTo(r)
    BY <1>1, HolderFacts DEF LocalTo, plan, result
  <1>3. ProgressInv(r)'
    BY <1>1, <1>2, HolderFacts
    DEF ProgressInv, CallInv, Executing, Checked, ScriptWindow, plan, result
  <1> QED BY <1>1, <1>2, <1>3, AroundACall DEF plan

\* Plan reads the ledger without the lock and touches nothing.
LEMMA PlanOnlyKeepsProgress ==
  ASSUME FullInv, NEW r \in Runners, NEW c \in Calls, PlanOnly(r, c)
  PROVE  AllProgress'
  <1>1. /\ pc[r] = "idle" /\ c.op = "plan" /\ UNCHANGED <<lock, ledger, cur, result>>
        /\ call' = [call EXCEPT ![r] = c] /\ (\E how : Return(r, how)) /\ UNCHANGED plan
    BY DEF PlanOnly, database
  <1>2. pc'[r] = "return" /\ call'[r] = c /\ LocalTo(r)
    BY <1>1, HolderFacts DEF LocalTo, plan, result, Return
  <1>3. \A q \in Runners \ {r} :
          /\ toRollback'[q] = toRollback[q] /\ toApply'[q] = toApply[q]
          /\ cur'[q] = cur[q] /\ outcome'[q] = outcome[q]
    BY <1>1, HolderFacts DEF plan, Return
  <1>4. ProgressInv(r)'
    BY <1>1, <1>2, HolderFacts
    DEF ProgressInv, CallInv, Executing, Checked, ScriptWindow, plan
  <1> QED BY <1>1, <1>2, <1>3, <1>4, AroundACall

\* A call that ends, or whose process dies, leaves no claim behind.
LEMMA EndKeepsProgress ==
  ASSUME FullInv, NEW r \in Runners, ReleaseLock(r) \/ Crash(r)
  PROVE  AllProgress'
  <1>1. Unlock(r) /\ Reset(r) /\ UNCHANGED ledger
    BY DEF ReleaseLock, Crash, database
  <1>2. lock' # r /\ (lock' = lock \/ (lock = r /\ lock' = None))
    BY <1>1, NoneAssumption DEF Unlock
  <1>3. /\ pc'[r] = "idle" /\ fromDB'[r] = << >> /\ applied'[r] = {} /\ rolledBack'[r] = {}
    BY <1>1, HolderFacts DEF Reset
  <1>4. LocalTo(r)
    BY <1>1, HolderFacts DEF LocalTo, Reset
  <1>5. \A q \in Runners \ {r} :
          /\ toRollback'[q] = toRollback[q] /\ toApply'[q] = toApply[q]
          /\ cur'[q] = cur[q] /\ outcome'[q] = outcome[q]
    BY <1>1, HolderFacts DEF Reset
  <1>6. ProgressInv(r)'
    BY <1>2, <1>3 DEF ProgressInv, CallInv, Executing, Checked, ScriptWindow
  <1> QED BY <1>1, <1>2, <1>4, <1>5, <1>6, AroundACall

\* No call moves: a repair by the operator, or nothing at all.
LEMMA NothingMoves ==
  ASSUME FullInv, UNCHANGED <<lock, ledger, pc, call, plan, cur, result, outcome>>
  PROVE  AllProgress'
  <1> SUFFICES ASSUME NEW r \in Runners PROVE ProgressInv(r)'
    BY DEF AllProgress
  <1>1. LocalTo(r) /\ UNCHANGED <<toRollback, toApply, fromDB, applied, rolledBack>>
    BY DEF LocalTo, plan, result
  <1>2. CallInv(r) => CallInv(r)'
    BY <1>1 DEF CallInv
  <1>3. PlanInv(r) => PlanInv(r)'
    BY PlanKept DEF PlanInv
  <1>4. ReturnInv(r) => ReturnInv(r)'
    BY <1>1 DEF ReturnInv, Recorded, Base
  <1> QED BY <1>2, <1>3, <1>4, HolderFacts DEF ProgressInv

\* Nobody has begun a call.
LEMMA ProgressInit == Init => FullInv
  <1> SUFFICES ASSUME Init PROVE AllProgress
    BY LedgerInit DEF FullInv
  <1> SUFFICES ASSUME NEW r \in Runners PROVE ProgressInv(r)
    BY DEF AllProgress
  <1>1. /\ lock # r /\ pc[r] = "idle" /\ fromDB[r] = << >> /\ applied[r] = {} /\ rolledBack[r] = {}
    BY NoneAssumption DEF Init
  <1> QED BY <1>1 DEF ProgressInv, CallInv, Executing, Checked, ScriptWindow

\* Every step keeps the invariant.
LEMMA ProgressStep ==
  ASSUME FullInv, [Next]_vars
  PROVE  FullInv'
  <1>1. LedgerInv' /\ TypeInv'
    BY LedgerStep DEF FullInv, LedgerInv
  <1> SUFFICES AllProgress'
    BY <1>1 DEF FullInv
  <1>2. ASSUME NEW r \in Runners, NEW c \in Calls, Begin(r, c) \/ PlanOnly(r, c)
        PROVE  AllProgress'
    BY <1>2, BeginKeepsProgress, PlanOnlyKeepsProgress
  <1>3. ASSUME NEW r \in Runners, Step(r) PROVE AllProgress'
    BY <1>1, <1>3, PreparingKeepsProgress, QuietKeepsProgress, PlanDoneKeepsProgress,
       PlanUpKeepsProgress, PlanReconcileKeepsProgress, PlanDownKeepsProgress,
       RollbackKeepsProgress, MarkFailedKeepsProgress, ApplyingKeepsProgress,
       BookkeepingKeepsProgress, EndKeepsProgress DEF Step, TransactionStep, OtherStep
  <1>4. ASSUME NEW r \in Runners, Crash(r) PROVE AllProgress'
    BY <1>4, EndKeepsProgress
  <1>6. ASSUME NEW m \in Ids, Repair(m) PROVE AllProgress'
    BY <1>6, NothingMoves DEF Repair
  <1>7. CASE UNCHANGED vars
    BY <1>7, NothingMoves DEF vars, database
  <1> QED BY <1>2, <1>3, <1>4, <1>6, <1>7 DEF Next

\* The ledger follows the plan of the call that holds the lock, in every reachable state.
LEMMA ProgressInvariant == Spec => []FullInv
  <1>1. FullInv /\ [Next]_vars => FullInv'
    BY ProgressStep
  <1> QED BY ProgressInit, <1>1, PTL DEF Spec
-----------------------------------------------------------------------------
(***************************************************************************)
(* The theorems.                                                           *)
(***************************************************************************)

\* A call that ends without an error has done what it is for, whatever the source, the
\* ledger it found and the calls beside it: Up has applied every migration of the
\* source, Reconcile has made the ledger equal to it, and no row is failed.
THEOREM SuccessMeansConverged == Spec => []SuccessConverges
  <1>1. FullInv => SuccessConverges
    <2> SUFFICES ASSUME FullInv, NEW r \in Runners, pc[r] = "return", outcome[r] = "ok"
                 PROVE  /\ call[r].op = "up" => DOMAIN call[r].src \subseteq Recorded \ FailedIn(ledger)
                        /\ call[r].op = "reconcile" =>
                             Recorded = DOMAIN call[r].src /\ FailedIn(ledger) = {}
      BY DEF SuccessConverges
    <2>1. call[r].op # "plan" => ReturnInv(r)
      BY HolderFacts DEF ProgressInv
    <2> QED BY <2>1 DEF ReturnInv
  <1> QED BY ProgressInvariant, <1>1, PTL

\* Result.Applied and Result.RolledBack are facts, on every error path of ExecutePlan,
\* Rollback and Baseline too: between two migrations the ledger is the one that was
\* found, less RolledBack, plus Applied.
THEOREM ResultIsTrue == Spec => []ResultIsFact
  <1>1. FullInv => ResultIsFact
    <2> SUFFICES ASSUME FullInv, NEW r \in Runners
                 PROVE  /\ pc[r] = "execute" =>
                             Recorded = (RecordedIn(fromDB[r]) \ rolledBack[r]) \cup applied[r]
                        /\ pc[r] = "return" /\ call[r].op # "plan" =>
                             applied[r] \subseteq Recorded /\ rolledBack[r] \cap Recorded = {}
      BY DEF ResultIsFact
    <2>1. /\ pc[r] = "execute" => PlanInv(r)
          /\ pc[r] = "return" /\ call[r].op # "plan" => ReturnInv(r)
      BY HolderFacts DEF ProgressInv, Executing, Checked
    <2> QED BY <2>1 DEF PlanInv, ReturnInv
  <1> QED BY ProgressInvariant, <1>1, PTL

\* Rollback (Down, DownAll) takes migrations off the end of the ledger it found and
\* nothing else, and without an error exactly as many as it was asked for.
THEOREM DownTakesOnlyTheTail == Spec => []DownTakesTheTail
  <1>1. FullInv => DownTakesTheTail
    <2> SUFFICES ASSUME FullInv, NEW r \in Runners, pc[r] = "return", call[r].op = "down",
                        outcome[r] # "refused", fromDB[r] # << >>
                 PROVE  /\ \A k \in DOMAIN ledger : ledger[k].id = fromDB[r][k].id
                        /\ outcome[r] = "ok" =>
                             Len(ledger) = IF call[r].count = 0 \/ call[r].count > Len(fromDB[r])
                                             THEN 0 ELSE Len(fromDB[r]) - call[r].count
      BY DEF DownTakesTheTail
    <2>1. ReturnInv(r)
      BY HolderFacts DEF ProgressInv
    <2> QED BY <2>1 DEF ReturnInv, Base
  <1> QED BY ProgressInvariant, <1>1, PTL

\* The rollback loops go through the ledger from its end: when a row goes, every row
\* behind it is one the call keeps.
THEOREM RollbacksGoLatestFirst == Spec => RollbackLatestFirst
  <1> DEFINE kept(r) == IF call[r].op = "reconcile" THEN DOMAIN call[r].src ELSE {}
             Latest ==
               \A r \in Runners :
                 pc[r] \in {"downTx", "deleteRow"} /\ cur[r] \in Recorded \ Recorded' =>
                   \A j, k \in DOMAIN ledger :
                     ledger[j].id = cur[r] /\ j < k => ledger[k].id \in kept(r)
  <1>1. FullInv => Latest
    <2> SUFFICES ASSUME FullInv, NEW r \in Runners, pc[r] \in {"downTx", "deleteRow"},
                        NEW j \in DOMAIN ledger, NEW k \in DOMAIN ledger,
                        ledger[j].id = cur[r], j < k
                 PROVE  ledger[k].id \in kept(r)
      OBVIOUS
    <2>1. PICK p \in DOMAIN ledger :
            /\ ledger[p].id = cur[r]
            /\ call[r].op = "reconcile" =>
                 \A i \in DOMAIN ledger : p < i => ledger[i].id \in DOMAIN call[r].src
            /\ call[r].op = "down" => p = Len(ledger)
      BY RowInHand DEF Undoing
    <2>2. p = j
      BY <2>1, HolderFacts DEF UniqueIds
    <2>3. call[r].op # "down"
      <3>1. Len(ledger) \in Nat /\ j \in 1 .. Len(ledger) /\ k \in 1 .. Len(ledger)
        BY HolderFacts, LenProperties
      <3> QED BY <2>1, <2>2, <3>1
    <2>4. call[r].op \in {"reconcile", "down"}
      BY RowInHand DEF Undoing
    <2> QED BY <2>1, <2>2, <2>3, <2>4
  <1> QED BY ProgressInvariant, <1>1, PTL DEF RollbackLatestFirst
-----------------------------------------------------------------------------
\* The five ways a call of r writes the ledger.
LedgerWrite(r) ==
  \/ pc[r] \in {"downTx", "deleteRow"} /\ ledger' = Delete(ledger, cur[r])
  \/ pc[r] = "markFailed" /\ ledger' = MarkError(ledger, cur[r])
  \/ /\ pc[r] \in Executing
     /\ \E m \in Ids, err \in BOOLEAN :
          /\ NextToApply(r, m) /\ m \notin Recorded
          /\ ledger' = Insert(ledger, RowOf(call[r].src, m, err))
  \/ /\ pc[r] = "forget" /\ call[r].id \in Recorded
     /\ ledger' = Delete(ledger, call[r].id)
  \/ /\ pc[r] = "recordAll" /\ ledger = << >>
     /\ \E s \in Slices(toApply[r]) :
          ledger' = << >> \o [k \in DOMAIN s |-> RowOf(call[r].src, s[k], FALSE)]

\* Nobody writes it in another way, and nobody without the lock.
LEMMA LedgerMoves ==
  ASSUME FullInv, [Next]_vars
  PROVE  \/ UNCHANGED ledger
         \/ \E r \in Runners : lock = r /\ UNCHANGED <<lock, call>> /\ LedgerWrite(r)
  <1> USE DEF LedgerWrite
  <1>1. ASSUME NEW r \in Runners, DownTx(r) \/ DeleteRow(r) \/ MarkFailed(r) \/ Forget(r)
        PROVE  UNCHANGED ledger \/ (pc[r] \in Busy /\ UNCHANGED <<lock, call>> /\ LedgerWrite(r))
    BY <1>1 DEF DownTx, DeleteRow, MarkFailed, Forget, Bookkeeping, Busy, PCs
  <1>2. ASSUME NEW r \in Runners, NEW m \in Ids, ApplyTx(r, m)
        PROVE  UNCHANGED ledger \/ (pc[r] \in Busy /\ UNCHANGED <<lock, call>> /\ LedgerWrite(r))
    BY <1>2 DEF ApplyTx, Busy, PCs, Executing, Checked
  <1>3. ASSUME NEW r \in Runners, RecordUp(r)
        PROVE  UNCHANGED ledger \/ (pc[r] \in Busy /\ UNCHANGED <<lock, call>> /\ LedgerWrite(r))
    <2>1. pc[r] \in {"recordOk", "recordErr"} /\ UNCHANGED <<lock, call>>
      BY <1>3 DEF RecordUp, Bookkeeping
    <2>2. NextToApply(r, cur[r]) /\ cur[r] \in Ids
      BY <2>1, HolderFacts
      DEF ProgressInv, PlanInv, Executing, Checked, ScriptWindow, Applying
    <2>3. \/ UNCHANGED ledger
          \/ /\ cur[r] \notin Recorded
             /\ \E err \in BOOLEAN : ledger' = Insert(ledger, RowOf(call[r].src, cur[r], err))
      BY <1>3 DEF RecordUp, Bookkeeping
    <2> QED BY <2>1, <2>2, <2>3 DEF Busy, PCs, Executing, Checked, ScriptWindow
  <1>4. ASSUME NEW r \in Runners, RecordApplied(r)
        PROVE  UNCHANGED ledger \/ (pc[r] \in Busy /\ UNCHANGED <<lock, call>> /\ LedgerWrite(r))
    <2>1. ledger = << >> /\ pc[r] = "recordAll"
      BY <1>4, HolderFacts DEF RecordApplied, RunnerInv
    <2> QED BY <1>4, <2>1 DEF RecordApplied, Busy, PCs
  <1>5. ASSUME NEW r \in Runners,
               \/ EnsureMigrationsTable(r) \/ RefuseIfFailed(r) \/ PlanUp(r) \/ PlanReconcile(r)
               \/ PlanDown(r) \/ EnsureReversible(r) \/ DownStatement(r) \/ UpStatement(r)
               \/ PlanDone(r) \/ Baseline(r) \/ CallFails(r) \/ ReleaseLock(r) \/ Crash(r)
               \/ \E m \in Ids : SelectDown(r, m) \/ StartUpScript(r, m)
               \/ \E c \in Calls : Begin(r, c) \/ PlanOnly(r, c)
        PROVE  UNCHANGED ledger
    BY <1>5 DEF EnsureMigrationsTable, RefuseIfFailed, PlanUp, PlanReconcile, PlanDown,
       EnsureReversible, DownStatement, UpStatement, PlanDone, Baseline, CallFails,
       ReleaseLock, Crash, SelectDown, StartUpScript, Begin, PlanOnly, database
  <1>6. ASSUME NEW r \in Runners, pc[r] \in Busy, UNCHANGED <<lock, call>>, LedgerWrite(r)
        PROVE  \E q \in Runners : lock = q /\ UNCHANGED <<lock, call>> /\ LedgerWrite(q)
    BY <1>6, HolderFacts
  <1>7. (\E m \in Ids : Repair(m)) \/ UNCHANGED vars => UNCHANGED ledger
    BY DEF Repair, vars, database
  <1> HIDE DEF LedgerWrite
  <1> QED BY <1>1, <1>2, <1>3, <1>4, <1>5, <1>6, <1>7 DEF Next, Step, TransactionStep, OtherStep

\* Reconcile without WithInterleaved applies no migration behind one that stays: the
\* plan was refused otherwise, and the rollbacks have removed everything else.
THEOREM AppliesInOrderUnlessAllowed == Spec => InOrderUnlessAllowed
  <1> DEFINE InOrder ==
        \A r \in Runners :
          call[r].op = "reconcile" /\ "interleaved" \notin call[r].opts =>
            \A m \in Recorded' \ Recorded :
              (pc[r] = "execute" \/ pc[r] \in ScriptWindow) => \A k \in Recorded : k < m
  <1>1. FullInv /\ [Next]_vars => InOrder
    <2> SUFFICES ASSUME FullInv, [Next]_vars, NEW r \in Runners, call[r].op = "reconcile",
                        "interleaved" \notin call[r].opts, NEW m \in Recorded' \ Recorded,
                        pc[r] = "execute" \/ pc[r] \in ScriptWindow,
                        NEW k \in Recorded
                 PROVE  k < m
      OBVIOUS
    <2>1. lock = r /\ pc[r] \in Executing /\ pc[r] \notin {"forget", "recordAll"}
      BY HolderFacts DEF Busy, PCs, ScriptWindow, Executing, Checked
    <2>2. ledger' # ledger
      BY DEF Recorded
    <2>3. m \notin RecordedIn(Delete(ledger, cur[r])) /\ ledger' # Delete(ledger, cur[r])
      BY HolderFacts, DeleteFacts DEF Recorded
    <2>4. pc[r] = "markFailed" => ledger' # MarkError(ledger, cur[r])
      <3>1. pc[r] = "markFailed" => cur[r] \in RecordedIn(ledger)
        BY HolderFacts DEF RunnerInv, Recorded
      <3> QED BY <3>1, HolderFacts, MarkErrorFacts DEF Recorded
    <2>5. PICK i \in Ids, err \in BOOLEAN :
            /\ NextToApply(r, i) /\ i \notin Recorded
            /\ ledger' = Insert(ledger, RowOf(call[r].src, i, err))
      BY <2>1, <2>2, <2>3, <2>4, LedgerMoves DEF LedgerWrite
    <2>6. Recorded' = Recorded \cup {i} /\ \A x \in Recorded : x < i
      BY <2>1, <2>5, RowIsNew
    <2> QED BY <2>6
  <1> QED BY ProgressInvariant, <1>1, PTL DEF Spec, InOrderUnlessAllowed
-----------------------------------------------------------------------------
\* What the abstract ledger calls a session, by the lock.
SessionOf == IF lock = None THEN "none" ELSE call[lock].op

\* The lock's holder, and what it holds it for.
LEMMA SessionFacts ==
  ASSUME FullInv, NEW r \in Runners, lock = r
  PROVE  SessionOf = call[r].op /\ call[r].op \in Book!Ops /\ SessionOf # "none"
  <1>1. call[r].op \in Ops \ {"plan"}
    BY HolderFacts, CallFields DEF CallInv
  <1> QED BY <1>1, NoneAssumption DEF SessionOf, Ops, Book!Ops

\* The lock is taken or given back, and nothing is written: the book opens or closes.
LEMMA LockMoves ==
  ASSUME FullInv, [Next]_vars, UNCHANGED ledger
  PROVE  [Book!Next]_<<ledger, SessionOf>>
  <1>1. ASSUME NEW r \in Runners, NEW c \in Calls, Begin(r, c) PROVE Book!Next
    <2>1. c.op \in Ops \ {"plan"}
      BY <1>1, CallsAssumption, CallFields DEF Begin
    <2>2. lock = None /\ lock' = r /\ call'[r] = c
      BY <1>1, HolderFacts DEF Begin
    <2>3. Book!Open(c.op) /\ c.op \in Book!Ops
      BY <2>1, <2>2, NoneAssumption DEF Book!Open, Book!Ops, Ops
    <2> QED BY <2>3 DEF Book!Next
  <1>2. ASSUME NEW r \in Runners, ReleaseLock(r) \/ Crash(r)
        PROVE  Book!Next \/ SessionOf' = SessionOf
    <2>1. /\ lock' = IF lock = r THEN None ELSE lock
          /\ \A q \in Runners \ {r} : call'[q] = call[q]
      BY <1>2, HolderFacts DEF ReleaseLock, Crash, Unlock, Reset
    <2>2. CASE lock = r
      <3>1. SessionOf # "none" /\ lock' = None
        BY <2>1, <2>2, SessionFacts
      <3>2. Book!Close
        BY <3>1 DEF Book!Close, SessionOf
      <3> QED BY <3>2 DEF Book!Next
    <2>3. CASE lock # r
      <3>1. lock \in Runners \cup {None}
        BY HolderFacts DEF TypeInv, TypeOK
      <3> QED BY <2>1, <2>3, <3>1 DEF SessionOf
    <2> QED BY <2>2, <2>3
  <1>3. ASSUME NEW r \in Runners, NEW c \in Calls, PlanOnly(r, c) PROVE SessionOf' = SessionOf
    <2>1. /\ lock' = lock /\ lock # r /\ lock \in Runners \cup {None}
          /\ \A q \in Runners \ {r} : call'[q] = call[q]
      BY <1>3, HolderFacts DEF PlanOnly, CallInv, TypeInv, TypeOK
    <2> QED BY <2>1 DEF SessionOf
  <1>4. ASSUME NEW r \in Runners, Step(r), ~ ReleaseLock(r) PROVE SessionOf' = SessionOf
    <2>1. UNCHANGED <<lock, call>>
      <3>1. ASSUME NEW m \in Ids, SelectDown(r, m) \/ ApplyTx(r, m) \/ StartUpScript(r, m)
            PROVE  UNCHANGED <<lock, call>>
        BY <3>1 DEF SelectDown, ApplyTx, StartUpScript
      <3>2. CASE \/ EnsureMigrationsTable(r) \/ RefuseIfFailed(r) \/ PlanUp(r) \/ PlanReconcile(r)
                 \/ PlanDown(r) \/ EnsureReversible(r) \/ DownStatement(r) \/ UpStatement(r)
                 \/ PlanDone(r) \/ Baseline(r) \/ CallFails(r) \/ DownTx(r) \/ MarkFailed(r)
                 \/ DeleteRow(r) \/ RecordUp(r) \/ Forget(r) \/ RecordApplied(r)
        BY <3>2 DEF EnsureMigrationsTable, RefuseIfFailed, PlanUp, PlanReconcile, PlanDown,
           EnsureReversible, DownStatement, UpStatement, PlanDone, Baseline, CallFails,
           DownTx, MarkFailed, DeleteRow, RecordUp, Forget, RecordApplied, Bookkeeping
      <3> QED BY <1>4, <3>1, <3>2 DEF Step, TransactionStep, OtherStep
    <2> QED BY <2>1 DEF SessionOf
  <1>5. (\E m \in Ids : Repair(m)) \/ UNCHANGED vars => SessionOf' = SessionOf
    BY DEF Repair, vars, SessionOf
  <1> QED BY <1>1, <1>2, <1>3, <1>4, <1>5 DEF Next

\* Every write is one that the open session allows.
LEMMA WritesAreAllowed ==
  ASSUME FullInv, NEW r \in Runners, lock = r, UNCHANGED <<lock, call>>, LedgerWrite(r)
  PROVE  [Book!Next]_<<ledger, SessionOf>>
  <1>1. /\ SessionOf = call[r].op /\ SessionOf' = SessionOf
        /\ ledger \in Seq(Row) /\ UniqueIds(ledger)
    BY SessionFacts, HolderFacts DEF SessionOf
  <1>2. FailedIn(ledger) = {} => Book!Healthy
    BY DEF FailedIn, ToSet, Book!Healthy
  <1>3. ASSUME pc[r] \in Undoing,
               ledger' = Delete(ledger, cur[r]) \/ ledger' = MarkError(ledger, cur[r])
        PROVE  Book!Next
    <2>1. Book!Healthy /\ call[r].op \in {"reconcile", "down"}
      BY <1>2, <1>3, RowInHand
    <2>2. PICK p \in DOMAIN ledger :
            ledger[p].id = cur[r] /\ (call[r].op = "down" => p = Len(ledger))
      BY <1>3, RowInHand
    <2>3. CASE ledger' = Delete(ledger, cur[r])
      <3>1. ledger' = SubSeq(ledger, 1, p-1) \o SubSeq(ledger, p+1, Len(ledger))
        BY <1>1, <2>2, <2>3, DeletePositions
      <3>2. Book!Remove(p)
        BY <1>1, <2>1, <2>2, <3>1 DEF Book!Remove, Book!Without, SessionOf
      <3> QED BY <3>2 DEF Book!Next
    <2>4. CASE ledger' = MarkError(ledger, cur[r])
      <3>1. ledger' = [ledger EXCEPT ![p].err = TRUE]
        BY <1>1, <2>2, <2>4, MarkErrorPositions
      <3>2. Book!Fail(p)
        BY <1>1, <2>1, <2>2, <3>1 DEF Book!Fail, SessionOf
      <3> QED BY <3>2 DEF Book!Next
    <2> QED BY <1>3, <2>3, <2>4
  <1>4. ASSUME pc[r] \in Executing, NEW m \in Ids, NEW err \in BOOLEAN, NextToApply(r, m),
               m \notin Recorded, ledger' = Insert(ledger, RowOf(call[r].src, m, err))
        PROVE  Book!Next
    <2> DEFINE row == RowOf(call[r].src, m, err)
    <2>1. call[r].op \in {"up", "reconcile"} /\ m \in DOMAIN call[r].src
      BY <1>4, RowIsNew
    <2>2. row \in Row /\ row.id = m
      BY <2>1, HolderFacts, TypeFacts, RowOfType DEF RowOf
    <2>3. ~ Book!Has(m)
      BY <1>4 DEF Book!Has, Recorded, RecordedIn, ToSet
    <2>4. Book!Healthy
      <3>1. pc[r] \in Past
        BY <1>4 DEF Executing, Past
      <3> QED BY <1>2, <3>1, HolderFacts DEF RunnerInv
    <2>5. ledger' = Append(ledger, row)
      BY <1>4 DEF Insert
    <2> HIDE DEF row
    <2>6. Book!Add(row) /\ row \in Book!Row
      BY <1>1, <2>1, <2>2, <2>3, <2>4, <2>5 DEF Book!Add, SessionOf, Row, Book!Row
    <2> QED BY <2>6 DEF Book!Next
  <1>5. ASSUME pc[r] = "forget", call[r].id \in Recorded, ledger' = Delete(ledger, call[r].id)
        PROVE  Book!Next
    <2>1. call[r].op = "forget"
      BY <1>5, HolderFacts DEF CallInv
    <2>2. PICK p \in DOMAIN ledger : ledger[p].id = call[r].id
      BY <1>5 DEF Recorded, RecordedIn, ToSet
    <2>3. ledger' = SubSeq(ledger, 1, p-1) \o SubSeq(ledger, p+1, Len(ledger))
      BY <1>1, <1>5, <2>2, DeletePositions
    <2>4. Book!Drop(p)
      BY <1>1, <2>1, <2>3 DEF Book!Drop, Book!Without, SessionOf
    <2> QED BY <2>4 DEF Book!Next
  <1>6. ASSUME pc[r] = "recordAll", ledger = << >>, NEW s \in Slices(toApply[r]),
               ledger' = << >> \o [k \in DOMAIN s |-> RowOf(call[r].src, s[k], FALSE)]
        PROVE  Book!Next
    <2>1. call[r].op = "baseline"
      BY <1>6, HolderFacts DEF CallInv
    <2>2. toApply[r] \subseteq DOMAIN call[r].src /\ call[r].src \in Sources
      BY HolderFacts, TypeFacts
    <2>3. ledger' = [k \in DOMAIN s |-> RowOf(call[r].src, s[k], FALSE)]
      BY <1>6, <2>2, AdoptFacts
    <2>4. /\ DOMAIN ledger' = DOMAIN s
          /\ \A k \in DOMAIN s : ledger'[k].id = s[k] /\ ledger'[k].err = FALSE
      BY <2>3 DEF RowOf
    <2>5. \A j, k \in DOMAIN s : j < k => s[j] < s[k]
      BY <1>6 DEF Slices
    <2>6. /\ \A j, k \in DOMAIN ledger' : j < k => ledger'[j].id < ledger'[k].id
          /\ \A k \in DOMAIN ledger' : ~ ledger'[k].err
      BY <2>4, <2>5
    <2>7. SessionOf = "baseline" /\ SessionOf' = SessionOf
      BY <1>1, <2>1
    <2>8. Book!Adopt(ledger')
      BY <1>6, <2>6, <2>7 DEF Book!Adopt, SessionOf
    <2> QED BY <2>8 DEF Book!Next
  <1> QED BY <1>3, <1>4, <1>5, <1>6 DEF LedgerWrite, Undoing

\* The service and the executor implement the abstract ledger: every behaviour, with any
\* number of runners, crashes and lost replies, opens the book for one operation at a
\* time and changes it only as that operation may, and a failed row closes it to all
\* but Forget.
THEOREM MigratorImplementsLedger == Spec => ImplementsLedger
  <1>1. Init => Book!Init
    BY DEF Init, Book!Init
  <1>2. FullInv /\ [Next]_vars => [Book!Next]_Book!vars
    <2>1. FullInv /\ [Next]_vars => [Book!Next]_<<ledger, SessionOf>>
      BY LedgerMoves, LockMoves, WritesAreAllowed
    <2> QED BY <2>1 DEF SessionOf, Book!vars
  <1> QED BY <1>1, <1>2, ProgressInvariant, PTL DEF Spec, ImplementsLedger, Book!Spec
=============================================================================
