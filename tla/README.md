# pg-migrate in TLA+

A model of pg-migrate, the PostgreSQL migration library and command line tool
in this repository: what it records, what it does to the schema, and how it
keeps two runs apart. The modules are checked with TLC on small instances; the
properties that matter most are also proved with TLAPS for every size.

## The system

pg-migrate brings a database to the state described by a directory of SQL
migrations. A migration is a pair of scripts, up and down, named by an ID that
sorts lexicographically. A bookkeeping table, called the *ledger* here, has one
row per applied migration: its ID, the order in which it went in (`seq`), the
text of both scripts, and an error if the script stopped halfway.

| Component | Source | State | Operations |
|---|---|---|---|
| planner | `internal/migrator/planner.go` | none (pure) | `BuildPlan` |
| service | `internal/migrator/service.go` | none between calls | `Up`, `Reconcile`, `Rollback`, `BuildReconcilePlan`, `Forget`, `Baseline`, `withLock`, `refuseIfFailed` |
| executor | `internal/migrator/custom_executor.go` | none between calls | `ExecutePlan`, `ApplyMigration`, `RollbackMigration`, their `notransaction` variants, `EnsureReversible`, `RecordApplied`, `EnsureMigrationsTable` |
| ledger | a table in PostgreSQL | the rows | INSERT, DELETE, UPDATE of the error |
| advisory lock | `internal/db/postgres.go`, `internal/sqlconn` | `lockConn`, `isLockAcquired`, and the session on the server | `AcquireLock`, `ReleaseLock`, `Destroy` |
| public API | `migrate.go` | none | `Reconcile`, `Up`, `Down`, `DownAll`, `Plan`, `Forget`, `Baseline`, `Status` |
| statement splitter | `custom_executor.go:42-349` | none (pure) | `splitSQLStatements` |
| directives | `directives.go`, `internal/source/parser.go` | none (pure) | `ParseDirectiveHeader`, `parseScript` |
| source | `internal/source/fs.go` | none between calls | `GetMigrations`: pairing, case folding and sorting of files |
| table naming | `internal/migrator/table.go` | none (pure) | `resolve`, `quoteIdentifier` |
| connection set-up | `internal/dbconn`, `internal/db/postgres.go:38-123` | none | `GetDataSource`, `OpenSQLDB` |
| command line | `cmd/pg-migrate/main.go`, `config.go` | flags and environment | a command per API call |
| `new`, `validate` | `cmd/pg-migrate/new.go`, `validate.go` | the files `new` creates | `availableTimestamp`, `writeMigrationPair`, `slugify` |

A call of the API makes a service, an executor and a locker, all on the
caller's `*sql.DB`. The service takes the advisory lock on a connection of that
pool, reads the source and the ledger, plans, and has the executor run the
scripts through the *same* pool, while the lock's connection stays pinned.
Processes meet only in the database: in the advisory lock and in the ledger.

What is hard here:

* **Two writes that cannot be one.** A script with the `notransaction` directive
  commits statement by statement, and its ledger row is a later write through
  another connection. A failure, a lost reply or a crash fits between any two.
* **Replies get lost.** A COMMIT may take effect and still be reported as an
  error; so may a lock request, an unlock and every bookkeeping write.
* **Checks come once, writes come later.** Failed rows, irreversible scripts and
  the interleaving guard are checked when a plan is made.
* **The order is not the ID order.** Rollbacks follow the order of application;
  branches make it differ from the IDs.
* **A session lock on a pooled connection.** Closing a `*sql.Conn` returns the
  session to the pool with everything on it.
* **A pool of limited size**, from which the lock and the run both borrow.
* **Where a statement ends.** A `notransaction` script is cut at its semicolons,
  but not at those in strings, dollar quotes, comments and statement blocks; a
  wrong cut is executed, and a dropped statement is recorded as done.
* **Statements outlive their calls.** A cancelled client is told at once; the
  server may finish the statement, a bookkeeping write or the COMMIT while the next
  run is planning, or after it.
* **The lock can go while the run goes on.** The session that holds it may be
  terminated; two runs then send their transactions statement by statement, at
  READ COMMITTED, into each other's.
* **Silence is dangerous.** A file the loader skips is one that `Reconcile` takes
  for deleted and rolls back; a directive it overlooks changes how a script runs.
* **Zero means something else in every layer.** A rollback count of 0 is
  "everything" to the service, a lock timeout of 0 is unset, default or without
  limit, a lock ID of 0 is the default.
* **Files made by racing processes.** Two invocations of `new` meet in a directory
  without any lock, and may fail between two system calls.

What makes each component correct: the planner computes the difference of
source and ledger in an order that is safe to execute; the service and executor
keep the ledger true of the schema and touch nothing while a failed row waits
for a human; the lock admits one run at a time, leaves nothing on pooled
sessions, and everyone who waits gets an answer; the splitter cuts where a
statement ends and drops nothing that has to be executed; the loader returns all
of a well-formed directory, in order, or an error; `new` never damages a pair it
has reported; what is rendered for another reader is read back as it was meant;
and what reaches the service from the command line is what was asked for.

## The modules

| Module | What it is |
|---|---|
| `Planner` | The plan of `BuildPlan` as sets, the guards of `blockedBy`, the prefix of `migrationsThrough`. Operators only. |
| `PlannerLoop` | The three loops of `BuildPlan`, an iteration per step, over every source and every application order. |
| `Migrator` | Service and executor: calls as small state machines over one database. |
| `MigrationLedger` | The abstract ledger: how each operation may change the book. |
| `PgLock` | The advisory lock on pooled sessions. |
| `MigrationMutex` | The abstract lock: at most one caller inside. |
| `StatementSplitter` | The scanner of `splitSQLStatements`, and a definition of where statements end. |
| `OverlappingRuns` | `Migrator` with its transactions taken apart, and runs that overlap when the lock is lost. |
| `LateStatements` | `Migrator` with a server that goes on with what was sent after the call has ended. |
| `Directives` | The header of a script and what makes a pair of scripts a migration. Operators only. |
| `MigrationSource` | The loader, an entry and a pair per step, and a definition of a well-formed directory. |
| `MigrationFiles` | Racing invocations of `new`, a system call per step. |
| `Rendering` | Table reference, connection string and slug, and how their readers read them. Operators only. |
| `PublicAPI` | The exported functions up to the call each makes of the service. Operators only. |
| `CommandLine` | The command, from environment and flags to that call; library callers beside it. |
| `MCPlannerLoop`, `MCMigrator`, `MCPgLock`, `MCStatementSplitter`, `MCOverlappingRuns`, `MCLateStatements`, `MCMigrationSource`, `MCMigrationFiles`, `MCCommandLine` | Instances for TLC. |
| `MigratorProofs` | The proofs about `Migrator`: types, the ledger, the progress of a call. |
| `OverlapProofs` | The proofs about `OverlappingRuns` and `LateStatements`. |
| `PlannerLoopProofs`, `PgLockProofs`, `StatementSplitterProofs`, `MigrationFilesProofs`, `MigrationSourceProofs`, `CommandLineProofs` | The proofs about the modules they are named after. |

`Migrator` uses `Planner`; `PlannerLoop` shows that the loops compute what
`Planner` says. `Migrator` implements `MigrationLedger` and `PgLock` implements
`MigrationMutex`, each by a refinement mapping stated at the end of the module.
`Migrator` sees the lock as one variable, which is what `MigrationMutex`
promises. `LateStatements` extends `Migrator` and keeps all its actions;
`OverlappingRuns` keeps all but `ApplyTx` and `DownTx`, which it replaces by their
steps, and implements `Migrator` until the lock is lost.
`MigrationSource` uses `Directives`; its result is the `src` of a call of
`Migrator`. `PublicAPI` uses `Rendering`, and `CommandLine` uses both; the record
it leaves in `reached` is a call of `Migrator` with its lock and its table.

### Migrator

One step per round trip that matters. `pc[r]` says where runner `r` is in its
call; the other per-runner variables are the locals of the Go functions.

| Variable | Code |
|---|---|
| `lock` | whose session has the advisory lock |
| `table`, `ledger` | the bookkeeping table and its rows `ORDER BY seq` |
| `schema` | per migration: `none`, `partial` or `applied`, the part of its effect that is in the database |
| `fromDB`, `toRollback`, `toApply` | the plan |
| `cur` | the migration whose script is running |
| `applied`, `rolledBack`, `outcome` | `Result` and error |
| `excused` | an auxiliary variable: the IDs whose schema has been left to the operator |

`excused` never restricts a step. An ID gets into it where the code itself gives up: a
bookkeeping write that did not land (`ErrUnrecorded`), a crash inside a
`notransaction` script, and a `Forget` or `Baseline` that asserted something
untrue of the schema. A later write of the row that agrees with the schema takes
it out again. `Legacies` are effects that are there before pg-migrate is, which
is what `Baseline` is for.

Actions and code: `Begin` and `ReleaseLock` are `withLock`;
`EnsureMigrationsTable`, `RefuseIfFailed`, `PlanUp`, `PlanReconcile`, `PlanDown`
and `EnsureReversible` are the service's sequence of reads and checks;
`SelectDown`, `DownTx`, `DownStatement`, `MarkFailed` and `DeleteRow` are
`RollbackMigration`; `ApplyTx`, `StartUpScript`, `UpStatement` and `RecordUp` are
`ApplyMigration`; `Forget`, `Baseline` and `RecordApplied` carry their names.
`CallFails` is an error before anything was written. `Crash` and `Repair` (an
operator with `psql`) are the environment. The session that holds the lock lasts as
long as its call or its process; `OverlappingRuns` is about the one that does not.

Modelling assumptions. A transactional script that commits has its whole effect;
a script with its own COMMIT is outside the model. A `notransaction` script that
reports success has its whole effect, too; a statement that fails may have had
its effect before the reply was lost. An `irreversible` down script is only
comments, so running it would change nothing. A transaction is one step, and a
statement ends no later than the call that sent it; `OverlappingRuns` drops the
first of these two, `LateStatements` the second.

### OverlappingRuns

`tx` has what a runner's open transaction has done so far: the script, with an effect
or without, and the write of the row. `UpScriptTx`, `DownScriptTx`, `WriteRow`,
`CommitTx` and `RollbackTx` are the round trips of `ApplyMigration` and
`RollbackMigration`; the rest of a call is `Migrator`'s (`CallGoesOn`). `LoseLock`
terminates the session that holds the advisory lock, of which the call learns
nothing; another one may begin. `lost` remembers that it has happened, and
`ImplementsMigrator` compares the steps before.

A statement goes by what is committed when it starts. A written row, an uncommitted
INSERT included, is locked, and so is the object a script has changed: the next one
to write it waits for the outcome (`HoldsRow`, `HoldsObject`; `TxLocksRespected` for
everybody without a transaction). Whether a script notices that there is nothing for
it to do is its author's choice, and a constant here: the scripts of the IDs in
`Strict` fail (`CREATE TABLE t`), any other may succeed and have done nothing
(`CREATE TABLE IF NOT EXISTS t`, `DELETE ... WHERE key = 'k'`). `adopted` is an
auxiliary variable: the IDs for which `Baseline` wrote a row while a rollback that
had found none to delete was open. Such a Baseline asserts what is about to change.

### LateStatements

`late` is the work the server goes on with. Every write of the executor that commits
can be in it: the statement of a `notransaction` script; the INSERT, UPDATE or DELETE
that reports on one, when `bookkeepingTimeout` passes; `Forget`'s DELETE, which runs
under the caller's context; and the COMMITs of `ApplyMigration`, `RollbackMigration`
and `RecordApplied`. A statement inside a transaction cannot, since nobody is left to
commit it. `Sent` says what each place in a call has sent; `AbandonStatement`,
`AbandonWrite` and `AbandonCommit` are a context or a timeout that ends while the call
waits for it, `CrashInStatement` is a process that dies there. The work `Lands` at any
later time, or `Stops`, because the cancel request arrives or it finds nothing to do.
A transaction that is committing keeps its locks (`LocksRespected`), so a call may
have to wait for it.

`orphaned` is an auxiliary variable: the IDs with late work that nothing in the ledger
tells of. A statement gets its ID into it by a crash, an `ErrUnrecorded`, or a
`Forget` or a late DELETE of the failed row: an operator who looks at the schema while
the server is still at work cannot know what it will be. For every other ID the failed
row is there, because `applyWithoutTransaction` and `markFailed` write it under a
context that is detached from the caller's; that is what `LateStatementIsFenced` is
about. A late write is orphaned when it is *overtaken*: a new row, another state of
the schema, or a script at work on the migration it was sent for. So nothing is
claimed of a cancelled `Forget` whose DELETE lands after a second `Forget` and a new
`Up`, and nothing could be: it removes a healthy row, and no code is in its way. A
rollback that has found no row and whose COMMIT is late is orphaned for the same
reason. What late work does to the *answers* is not claimed either: a `Down` that
planned before an earlier COMMIT landed has not taken the tail of the ledger it
leaves behind.

Two things are left out. The transaction of a call that goes on is one step here: it
runs under the lock, where the only others are late ones, and what those can do
between its script and its row is to take the row away or to bring it, which is what
they do before or after it. A late `CREATE TABLE` leaves an empty table, which reads
like none.

### MigrationSource and Directives

A script is a sequence of lines, a line its fields and whether they are one space
apart, which is all the header parser and the marker test look at. A file name is
an ID, a number in the lexicographic order, and an extension; `Fold` is
`strings.ToLower` on IDs. `collectPairs` takes the entries in any order, although
`fs.ReadDir` sorts them, so no property rests on that order. The reference
definition, `WellFormed`, says what a source directory is without the loader's
steps: every `.sql` file is a half of a pair, no two IDs fold alike, both texts are
scripts. Files do not change while they are read. The branch of `collectPairs` for
a duplicate half cannot be reached: names in a directory are distinct.

### MigrationFiles

`clock` is time in seconds, `files` the directory, and `pc`, `now` and `id` the
locals of an invocation; `earlier` records which invocations had succeeded when
this one began. `Failures` names the system calls that may fail. The clock does
not go back and nobody else deletes files: the order of timestamps rests on both.
A failed invocation removes its up file, and with it the mark that its second was
taken; `LaterSortsLater` excepts the invocation that comes into such a second.
`stuck` is an invocation that failed and whose `os.Remove` failed as well.

### Rendering

Each of the three conversions is checked against its reader: PostgreSQL for the
table reference (`ReadReference`: doubled quotes, truncation in bytes), libpq's
rules for the connection string (`ReadDSN`), and `slugify` itself for a slug. A
keyword of a connection string is one character. They run where the code runs
them: the table reference in `newService` (`Serve`), the connection string in
`connectDB`, the slug in the command `new`.

### CommandLine and PublicAPI

An invocation is a record of a command, its argument, environment and flags, or a
library call with its options in order. `todo` has the steps its `RunE` has left;
each step continues or fails, and the step `call` leaves in `reached` what the
service is called with. cobra, `time.ParseDuration` and `strconv.Atoi` are
external: a spelling is one the functions know, or an error. What the service
answers is Migrator's matter; here it is an error or not.

### PgLock

Callers share lockers, lockers share pools, pools own sessions; the shape is a
constant. A session has a client side, `conn` (closed, idle in the pool, used,
broken, orphaned), and a server side (`waiting`, `holds`, `inTx`,
`lockTimeout`), and the two may disagree: that is the point of the model. A
cancelled context either gets the statement cancelled on a good connection,
perhaps too late, or drops the connection while the backend goes on waiting;
a backend that waits for a lock does not notice that its client is gone.
`Timeout` is in microseconds and is sent in whole milliseconds, as in the code.
`database/sql` and PostgreSQL are external: `Available` is the pool, `Grant`,
`AbortWait`, `EndTx`, `EndSession` and `Terminate` are the server.

### StatementSplitter

A script is a sequence of characters: two letters (one can introduce an E-string), a
digit, which no tag of a dollar quote starts with, the quotes, `$`, the characters of
comments, `;`, the backslash and the line end; the two marker texts and a text
longer than 64 KiB are characters as well. Blanks, which the scanner trims, are left
out, and so are signs beyond ASCII that are no letters. `pos`, `state`, `dollarTag`,
`blockCommentDepth`, `inStatementBlock` and `escapeString` are the locals of
`splitSQLStatements`; the buffer is the text from `start` to `pos`, and a
statement is a pair of places, so that the model compares statements by where
they are and not by what they say. There is an action per lexical context and
one for each kind of line the scanner treats as a whole.

The reference, below the scanner, knows no states. It gives for each unit
(literal, quoted name, dollar-quoted text, comment, block) the place where it
closes as a whole (`UnitEnd`), by counting quotes, backslashes or brackets: a quote
closes a literal if an even number of backslashes stands before it and an odd number
of quotes lies behind, a bracket closes a comment if as many have closed as opened.
`UnitOf` then puts the units side by side, and `Outside` and `Inside` take the texts
between terminators and inside blocks. `matchDollarTag`,
`isEscapeStringPrefix` and the test for a marker line are shared by both: they
are part of the dialect the code defines, which takes `a$$` for the start of a
dollar quote where PostgreSQL sees an identifier.

## The runs

| Run | Checks | Distinct states |
|---|---|---|
| `planner_loop` | `LoopsComputeBuildPlan`, `RollsBackLatestFirst`, `InterleavedIffOutOfOrder` | 25,024 |
| `ledger` | `TypeOK`, `LedgerTruth`, `SuccessConverges`, `ResultIsFact`, `DownTakesTheTail`, `FailedRowFreezes`, `IrreversibleStays`, `RollbackLatestFirst`, `InOrderUnlessAllowed`, `ImplementsLedger` | 462,604, up to symmetry |
| `lock_lost` | `TruthWithoutLock`, `ImplementsMigrator` | 1,372,805, up to symmetry |
| `late_statements` | `TruthBesideLateWork`, `LateStatementIsFenced`, `CallsEnd` | 223,379 |
| `lock_sessions` | `PooledSessionsClean`, `InsideHoldsLock`, `LockerRemembersHolder`, `NoStrandedLock`, `ImplementsMutex` | 92,088, up to symmetry |
| `lock_answers` | `CallsReturn` with room in the pool, `TimeoutBoundsWait` with a timeout of whole milliseconds | 7,524 |
| `splitter` | `CutsWhereStatementsEnd`, `NoSQLIsDropped` | 1,104,191 |
| `source` | `NoSqlFileIsSilent`, `DirectivesAreInForce`, `LoadIsExact` | 129,258 |
| `new_files` | `ReportedPairStays`, `LaterSortsLater`, `FailureLeavesNoHalf`, `NewNeverClobbers` | 800,884, up to symmetry |
| `command_line` | `DestructionIsAskedFor`, `LockIsTheOneSaid`, `OnlyMistakesAreRefused`, `ConnectionIsTheOneGiven`, `TableIsTheOneNamed`, `SlugIsStable` | 168,187 |
| `plan_foretells`, `recovery` | statements of the documentation the code does not keep | |

**planner_loop** takes every source and every application order of up to four
IDs, for `Up` and for `Reconcile`. Four are enough for two extras, a migration
that stays and one that is pending between them. The loops list each migration
once, roll back in the reverse of the application order, and flag `Interleaved`
exactly when executing the plan would break the ID order.

**ledger** has two runners and three migrations: one transactional, one
`notransaction` in both directions, one irreversible, and a branch that lacks the
second and has another version of the third. Every call is there, the writing ones with
the arguments that tell two plans apart (counts 0, 1, 2 and 4 for three rows; all
the combinations of Reconcile's options that matter; an empty source), and every
step may fail, lose its reply or be the last before a crash. Nothing bounds the
length of a behaviour: the state space is finite by itself.

**lock_lost** sends the transactions of two runs piece by piece. Each piece may fail, be
the last before a crash, or lose its reply, and the lock's session is terminated at any
time, again and again, so that the runs interleave statement by statement. A strict
migration stands beside another one, which in one branch runs without a transaction and
cannot be undone, and in the other is transactional and may do nothing. The calls are
`Up`, `Reconcile` from the other branch, `Down`, `Baseline`, `Forget` of the strict
migration, and `Plan`. Two runs and two migrations are enough for one run to have one
migration's transaction open while the other goes through its own and commits. The run
asks two things:

* `ImplementsMigrator`: until the lock is lost every step is one of `Migrator`, so what
  the run `ledger` shows with one-step transactions holds of the real ones.
* `TruthWithoutLock`: after that, too, the ledger stays true of the strict migration. Of
  two runs that meet at it, the second waits for the first, at the object or at the row,
  then finds nothing to do and fails, and its transaction takes back what it did.

`MCOverlappingRunsLenient.cfg` has `Up` and `Down` of migrations that are not strict, and
`LedgerTruth` for all IDs, which TLC violates: an `Up` whose script found its effect
there is overtaken by a `Down` that takes effect and row away, and then inserts its row.
The mirror image is a rollback whose script found no effect, because another one was
faster; a third call applies the migration again, and the DELETE that follows takes the
row just committed. Nobody looks at what a script or the DELETE did, so for such scripts
the transactions and the primary key are not enough. The documentation does not promise
that they are.

**lock_sessions** has two processes with pools of two connections, the minimum
the documentation asks for, and three sessions in the first so that one can be
replaced while its predecessor has not ended yet. In the first process two
goroutines share a locker with a timeout; the second process waits
indefinitely. Contexts end, the server terminates sessions and processes die,
at any time. The two goroutines are interchangeable, and so are the sessions of
a pool: nothing in the model tells them apart, and the properties of this run
are about single states and single steps, so the symmetry is sound. Mutual
exclusion cannot survive the termination of the lock's session (the code does
not watch it): `ImplementsMutex` is about the callers whose session is good.

**lock_answers** has two goroutines on one pool, each with its own locker as
`migrate.go` makes them, and a process with a pool of one connection, which
`AcquireLock` has to refuse; sessions may be terminated. Fairness: callers take
their own steps and the server ends what it has to end (weak); a request that
waits for the pool or for the lock is in a FIFO queue in `database/sql` and in
PostgreSQL, so it cannot be passed over for ever (strong). That a migration ends
is not assumed: `CallsReturn` has it as a hypothesis (weak fairness of
`EndWork`), and `TimeoutBoundsWait` does without it, because a timeout is for a
holder that does not end.

**splitter** takes all scripts of up to three characters of every class, and
longer ones over the characters that interact: quotes and backslashes up to six
(an E-string with an escaped quote and a semicolon needs six), dollar quotes up
to eight (a body with a semicolon needs seven), digits in tags and before quotes up
to six, comments up to nine (a comment
in a comment needs eight), markers up to six.

**late_statements** has two runners, two pieces of late work at a time (of any two
kinds, landing in either order around a run), crashes, and calls that apply, undo,
baseline and forget a transactional migration and one without transactions, which the
branch that is baselined rolls back in a transaction: its COMMITs, its statements and the
writes that report on them meet. `CallsEnd` says that every call ends and gives the lock
back. It assumes weak fairness of each runner's steps, since a statement ends by its
reply, its context or its timeout, and of what the server is left with for each
migration, since a COMMIT ends: a call that meets the locks of a late COMMIT can go on
after it. Beginning a call, abandoning a statement, crashing and repairing have no
fairness.

**source** puts every text of up to three lines out of sixteen kinds into one half
of a pair: three are enough for a header, a block marker and its end, or a header,
SQL and a late directive. It also takes every set of up and down names of three
IDs, two of which differ in case only, with one odd name beside them (no half,
upper case, not SQL, empty ID) and every kind of subdirectory.

**new_files** has three invocations, in two seconds, with any system call failing
and any process dying; two suffice for a collision, the third finds what the
collision left, or what a failed one cleaned up.

**command_line** takes every command with every combination of lock timeout
(environment and flag: unset, zero, negative, positive, not a duration), lock ID,
path, table and switches; the commands that connect, with every combination of the
four places that name a database; and library calls with every sequence of up to
two options, so that one overrides another. Counts are "all", a positive number,
zero, a negative number and no number. For the texts it takes every table name of
up to three characters and schema of up to two over letters, quotes, dots,
two-byte letters and NUL, with a limit of three bytes; user and password of up to
two characters each over letters, `=`, the space, the apostrophe and the
backslash, with a database name and an sslmode after them or not; and names of up
to five characters for `new` with a slug limit of three, so that every limit is
met, reached and passed.

In the runs of `MigrationSource`, `MigrationFiles` and `CommandLine` an invocation
ends, and deadlock is not checked.

### Disagreements between code and documentation

The first two are runs. The others have a configuration each, named below, under
which TLC shows the disagreement; `tlc -config X.cfg M` runs it, with `M` the MC
module whose name begins the configuration's.

* **plan_foretells.** `Plan` reports `Blocked` from `blockedBy` alone. A
  `Reconcile` with the same options also refuses a ledger with a failed row and
  a rollback of an irreversible migration. TLC finds an unblocked plan for a
  Reconcile that would refuse.
* **recovery.** `docs/troubleshooting.md` lets the operator complete a failed
  migration *or* undo it, then `forget` the row. For the completed one the
  ledger then lacks an effect that is there, and the next `Up` runs the script
  over it.
* `MCPgLockSubMs.cfg`. A timeout below a millisecond is truncated to 0, which
  PostgreSQL takes as no timeout.
* `MCPgLockMinimalPool.cfg`. Two calls in one process, a pool of two connections and
  a lock timeout of 0: one holds the lock and waits for a connection, the other
  holds the connection and waits for the lock. Deadlock checking is off here,
  where the deadlock is what the temporal property finds, and in `planner_loop`
  and `splitter`, whose loops end.
* `MCStatementSplitterLong.cfg`. `isEmptyStatement` is said to report whether a text
  carries no SQL. `isOnlyComments` reads its lines with a `bufio.Scanner`, which
  stops at a line of more than 64 KiB, and takes what it has not read for
  comments. A statement that is one long line is dropped, and the migration
  recorded as applied.
* `MCMigrationSourceSpelling.cfg`. Misspelt and wrongly cased directives are said to be
  rejected. `-- +Migrate notransaction` is taken for a comment anywhere, and
  `-- +migrates notransaction` below the first line.
* `MCMigrationSourceRollback.cfg`. A down file is to say that it is irreversible or to hold a
  rollback. One of nothing but comments, such as the template of `new`, is
  accepted, undoes nothing and deletes its row.
* `MCMigrationSourceBoth.cfg`. `new.go` says that the loader rejects a header with both
  directives. It does not.
* `MCMigrationFilesWrite.cfg`. A failed `new` is to leave no half of a pair. That is so
  when a file cannot be created; one that was created and could not be written
  stays.
* `MCMigrationFilesCollide.cfg`. Two people are said to collide only within one second. A
  timestamp that ran ahead of the clock is met by an invocation of a later second
  that had read the directory before.
* `MCCommandLineTab.cfg`. Settings with white space in them are said to be quoted. Those
  with a space are; a tab or a line feed ends the value.
* `MCCommandLineStatus.cfg`. `status` is said to show the stored rollback script of a failed
  migration. Only `status --json` does.

The comments on `WithRollback` and `WithInterleaved` say that they have no effect on
`Plan`; `Plan` hands them to `blockedBy`, as the comment on `Analysis` says. A
`--sslmode` beside a connection string has no effect, which `docs/cli.md` says in
its way ("takes precedence over everything below").

`docs/troubleshooting.md` also says that a session holding the lock with
`state = 'idle'` belongs to a process that died. In the model, as in the code,
`lockOnConn` commits its transaction, so the session of every live run holds the
lock and is idle in just that sense.

## The proofs

Thirty-eight theorems, each for every value of the constants: any number of
runners, migrations, callers, pools, sessions or invocations, and any calls and
sources. The constants are assumed to be what the modules' ASSUMEs say, which TLC
evaluates in every run. Each component has one inductive invariant, and its
theorems follow from it; a lemma per action, `<Action>Keeps` or `...KeepsProgress`,
says that the action preserves it.

### Service and executor

`MigratorProofs` proves `TypeCorrect`, `Spec => []TypeOK`, for any IDs, runners,
calls and legacies. `TypeOK` is not inductive: that `RowOf(src, m, err)` is a row
needs `m` to be in the source. `SourceInv` adds what the planners establish: all
of `toApply`, and `cur` while an up script runs, is in the source of the call.

About the ledger, `MigratorProofs` proves

* `LedgerIsTrue`: `Spec => []LedgerTruth`;
* `FailedRowIsFrozen`: `Spec => FailedRowFreezes`;
* `IrreversibleIsKept`: `Spec => IrreversibleStays`.

All three rest on the inductive invariant

    LedgerInv == TypeInv /\ UniqueIds(ledger) /\ RunnersInv /\ LedgerTruth

`RunnersInv` says of every runner what its place in the call implies: from
`Begin` to the return the runner holds the lock (so no other is busy, and what
one has read nobody else changes); past `refuseIfFailed` there is no failed row;
past `EnsureReversible` nothing left to roll back is irreversible; a script
being rolled back still has its row and is part of the plan; rollbacks are over
when an up script runs; at the bookkeeping writes the schema is what the
script's end says; and Baseline writes into an empty ledger. Without the first,
the checks would be stale when used; without the ones on the schema, the row
written could be false. `UniqueIds` is the primary key, and makes `Delete`
remove all there is of an ID. `DeleteFacts`, `InsertFacts`, `MarkErrorFacts` and
`AdoptFacts` say what the four writes do to the sets of recorded, failed and
irreversible IDs; `DeletePositions` and `MarkErrorPositions` what they do to the
order of the rows.

Its last part follows a call from its plan to its return:

* `SuccessMeansConverged`: `Spec => []SuccessConverges`;
* `ResultIsTrue`: `Spec => []ResultIsFact`;
* `DownTakesOnlyTheTail`: `Spec => []DownTakesTheTail`;
* `RollbacksGoLatestFirst`: `Spec => RollbackLatestFirst`;
* `AppliesInOrderUnlessAllowed`: `Spec => InOrderUnlessAllowed`;
* `MigratorImplementsLedger`: `Spec => ImplementsLedger`, the refinement of
  `MigrationLedger`, in which every step of a call is one step of the abstract
  ledger or leaves it alone.

None of the six says anything of the middle of a call, where the ledger is neither
what the call found nor what it promises. The invariant is

    FullInv == LedgerInv /\ AllProgress

and `AllProgress` says for each runner how far its plan has got. `PlanInv` relates
three things: the ledger the call found (`fromDB`), what the result lists
(`applied`, `rolledBack`), and the ledger as it is, whose rows are in the order in
which they were found as long as there is something to roll back. By operation it
adds that `Up` has nothing to roll back and still plans what is missing (`UpInv`);
that for `Reconcile` every row is in the source or still to be rolled back, every
file in the ledger or still to be applied, and the latter lie behind everything
that stays unless interleaving was allowed (`ReconcileInv`); and that for `Down`
the ledger is a beginning of the one it found, and what is left to roll back is its
end (`DownInv`). `ReturnInv` is what is
left of it at the return: when a plan is used up, `PlanInv` gives it (`PlansEnd`);
when the call fails, what does not depend on success stays. That nobody but the
holder of the lock writes comes from `LedgerInv`.

### Transactions and runs that overlap

`OverlapProofs` proves of `OverlappingRuns`

* `TransactionsLookLikeOneStep`: `OverlapSpec => ImplementsMigrator`, in which steps are
  compared until the lock is lost;
* `StrictTruthWithoutTheLock`: `OverlapSpec => []TruthWithoutLock`.

For the first, `LockInv` says that until then whoever is past `Begin` holds the lock, and that of
an open transaction what it has done is what it would do now: its script's verdict
fits the schema as it is, the row it wants to insert is not there, the one it has
deleted is. Nobody has changed any of it since, because only the holder of the lock
writes; `Forget`, `Baseline` and the bookkeeping writes are the holder's too, and an
operator's repair has to leave failed rows and what others have written alone. Then a
COMMIT is `ApplyTx` or `DownTx` as a whole, and the steps before it are stutters. With
it the theorems on `Migrator`'s invariants and step properties hold of transactions
that are taken apart.

The second has no assumption on the lock, so that any number of runs overlap, and
nothing a runner has read is worth anything. Its invariant, `OverlapInv`, says nothing of plans.
Locks are exclusive (`Exclusive`); a strict migration is never inside a script without
a transaction, and its row is healthy and can be undone (`RunsInv`); and `TxFits` says
how an open transaction stands to what the others have committed: a strict script that
got through has changed something, and so holds its object; a row it has inserted is
not there yet, because it holds the row; and one its DELETE has not found is still not
there, unless `Baseline` has written it. At the COMMIT the row and the effect of a
strict migration then change together. The last is where other migrations fail: a
script that changed nothing holds nothing, and the row can come before the DELETE.

### Late work

`OverlapProofs` proves of `LateStatements`

* `TruthSurvivesLateWork`: `LateSpec => []TruthBesideLateWork`;
* `LateStatementsAreFenced`: `LateSpec => []LateStatementIsFenced`.

`LedgerInv` is false beside late work: a COMMIT, an INSERT or a DELETE of an earlier
call may change a row between two reads of the call that holds the lock, so the row a
rollback has read may be gone, and Baseline's ledger need not be empty any more.
`LateInv` keeps what is still true. `WorkInv` says for each piece of late work what
will make it true when it lands: a COMMIT is for rows of its own, which are not there
yet, or for one that is there without an error; a write of one row, unless it has been
overtaken, tells of the schema as it is. `LateRunnerInv` goes through a call as `RunnerInv` does, and
says that nothing the plan is about to undo is still being applied or recorded, nothing
it is about to apply is still being undone, and that past `refuseIfFailed` no statement
is at work that is not orphaned, but for the one whose failed row is about to be
written. `TruthAt` and `FenceAt` are the two properties for
one migration; they are proved together, because a late statement changes the schema at
a place where only its failed row keeps the ledger from claiming something.

### Planner

`PlannerLoopProofs` proves `LoopsComputePlan`, `PlanRollsBackLatestFirst` and
`InterleavedMeansOutOfOrder` for every source and every order in which the database
may list its migrations. `LoopInv` is the loop invariant a reader of `BuildPlan`
would write down: `HighestOf(n)` is `maxAppliedID` after `n` rows, `ExtrasAfter(n)`
what `ToRollback` has after the backward loop has come down to `n`, and
`PendingOf(n)` what `ToApply` and `Interleaved` have after `n` files. The induction
is over the steps of the loops, which the prover can do; `Migrator` uses the sets,
so its theorems are about the plans the code builds.

### Lock

`PgLockProofs` proves `LockTypeCorrect`, `PooledClean`, `InsideHolds`,
`LockerRemembers`, `NothingStranded` and the refinement `LockImplementsMutex`, for
any number of callers, lockers, pools and sessions. They all follow from

    LockInv == TypeOK /\ OwnInv /\ LockerInv /\ IdleInv /\ SessionInv /\ OneHolder

`TypeOK`, which says among other things that nobody counts the lock down below zero, is
proved only. The other parts say the following.

A session is in one pair of hands, and of the caller's own pool (`OwnInv`); the
mutex of a locker covers `AcquireLock` up to the assignment of its fields
(`LockerInv`); a session in a pool is clean (`IdleInv`); what is on a session in
hand fits the place of its caller, reply by lost reply (`SessionInv`); PostgreSQL
grants the lock to one session (`OneHolder`). The sessions that broke, and those
whose client is gone, are exempt: `OnSession` speaks of good ones.

### Splitter

`StatementSplitterProofs` proves for scripts of any length

* `StatementsEndWhereTheyShould`: `Spec => []CutsWhereStatementsEnd`;
* `ShortScriptsLoseNothing`: `Spec => [](Short => NoSQLIsDropped)`.

`Short` says that no line is too long for a `bufio.Scanner`. Without it the second is
false, which is what the run on `MCStatementSplitterLong.cfg` shows.

The scanner goes forward and remembers little; the reference looks at a whole unit
at once. What they have in common is the unit `u` the scanner is in, and the
invariant, `IInv`, has three layers.

* *Inside a unit.* `InQuote`, `InComment`, `InDollar` and `InBlock` say what the
  scanner's few variables have to do with the counts of the reference: the number of
  quotes behind `pos` is odd and no run of backslashes is cut in two;
  `blockCommentDepth` is the brackets opened less those closed; no repetition of the tag
  ends before `pos`. For each there is a lemma that a unit opens in such a state
  (`...Opens`), that a step keeps it or ends exactly at `UnitEnd(u)` (`...Step`), and that
  one which is never closed lasts to the end of the script (`...Stays`).
* *Units.* `UnitSpan` and `UnitFacts`: units tile the script, so that leaving one
  is being at the start of the next. `UnitOfDef` is that the recursion which defines
  `UnitOf` has a solution, `UnitSpan` an induction along it.
* *Statements.* `Buffer(u)` says that the buffer starts where a piece of the
  reference does and has nothing but plain units since; `Cut` that the statements so
  far are pieces, in order and behind the buffer; `Kept` that every piece that ended
  before the buffer and carries SQL is among them; `Closed(u)` that every block before
  `u` is closed. `NotEmpty` and `EmptyText` relate `isEmptyStatement`, which looks at
  lines, to `CarriesSQL`, which looks at units.

The inductions over the text are on sets of numbers: that every set of them has a
least element (`Least`) is the well-foundedness of `<`.

### New files

`MigrationFilesProofs` proves `ReportedPairIsKept`, `FailureLeavesNoScript`,
`LaterMigrationSortsLater` and `NobodyClobbers` for any number of invocations,
whatever fails. `FilesInv` says from both sides who made what: an invocation has
the files its place says it has (`Hand`), and every file is one its creator has had
the time to make (`Origin`). `StampInv` is for the third: between the clock an
invocation read and the timestamp it took, every second is taken or was abandoned
by one that failed, and that stays so while others come and go.

### Loader

`MigrationSourceProofs` proves `LoaderIsExact`, `NoFileIsSilent` and
`DirectivesOfLoadedAreInForce` for every directory and every text in it. Of the
parser, `ParserAcceptsScripts` says that what `parseScript` accepts by taking a text
apart (trimming, header, body) is what `IsScript` says of the lines as
a whole, and `ParsedDirectives` that the second reading of the header, on the script
as it was stored, finds the directives of the first: trimming and cutting at line
positions are facts about intervals, with no induction in them. Of the loader,
`LoaderInv` has the invariants of its two loops: what `collectPairs` has of the
entries it has looked at (`CollectInv`), what the loop over the pairs has of the IDs
it has read (`ReadInv`), where every migration came from (`FromPair`), and that only
a directory that is not well formed is refused as invalid. The assumptions on the
constants say that IDs are ordered and that a file is a sequence of lines.

### Command line

`CommandLineProofs` proves for every command line, environment and library call, with
texts of any length,

* `OnlyAskedDestruction`: `Spec => []DestructionIsAskedFor`;
* `TheLockSaid`: `Spec => []LockIsTheOneSaid`;
* `TheTableNamed`: `Spec => []TableIsTheOneNamed`;
* `OnlyMistakes`: `Spec => [](TabFree(inv) => OnlyMistakesAreRefused)`;
* `TheConnectionGiven`: `Spec => [](TabFree(inv) => ConnectionIsTheOneGiven)`;
* `SlugsAreStable`: `Spec => []SlugIsStable`.

`TabFree` says that no discrete setting has a tab in it; the settings of the passing run
have none. A value with a tab is written without quotes and ends at the tab for the
driver, so both properties are false of it (`MCCommandLineTab.cfg`).

The steps of a command are few, and what makes the properties hold is their order:
`CInv` says that the invocation stands between two steps of `Steps(inv)` and that each
step behind it has left what it is for (`Done`: the configuration read, the options
built, the count and the path good, the connection the one that was named, the call
`Made` of them), and that a database command is refused only for a mistake. A lemma
per action shows it kept. What an option list comes to is said without its order by
`LastIn`: for every kind of option the last one counts.

The rest is about texts. Each of their readers and writers (the lexer of identifiers,
the driver's parser, `Bytes`, `SlugOf`) is a function defined from the left, one
character at a time. `Result(s, start, reader)` stands for all of them, and
`ResultFacts` says how it goes on when a character is appended; an induction over
the texts, which comes down to the well-foundedness of the natural numbers, then gives
what one needs to know of each:

* a name with its quotes doubled and quotes around it is read as the name, and the
  dotted reference as its parts; a name within the limit is not cut;
* a value, quoted or bare, is read as that value, and a connection string as the
  settings it is built of. The reader is followed through the string piece by
  piece: after each it is where the next one starts, and has one setting more;
* `SlugOf` leaves a `Tidy` text: letters and underscores, a letter first, no two
  underscores side by side. Trimming one, or cutting it at the limit and trimming
  again, costs at most one character, and leaves it tidy and with a letter at each end
  (`TrimTidy`, `TidyPrefix`); on such a text every step of `slugify` does nothing
  (`SlugSame`, `SlugAgain`). That the letters stay in their order is that
  `LettersOf` of two texts joined is what it is of each, joined (`LettersJoin`).

The invocations, the set of strings and the limits are constants; `String` has at
least the characters the code names, `Invocations` are commands and calls of the
types cobra and Go let through.

### Only model-checked

* Liveness, under the fairness stated above: `CallsEnd`, `CallsReturn`,
  `TimeoutBoundsWait`. The prover has no rule for fairness or ENABLED.
* The disagreements with the documentation, which are counterexamples.

Every invariant and every other action property of a passing run is the subject of a
theorem.

### Plan

Done, in this order: planner; service and executor with their abstract ledger;
lock with its abstract mutex; the statement splitter; type correctness and the
truth of the ledger; statements that outlive their call; directives and source
loader; `new`; table reference, connection string and slug; public API and
command line; the progress of a call and the two refinements, the loops of the
planner, the lock, `new`, late work, transactions step by step with and without the
lock, the loader, the splitter and the command line proved.

Left: the reports that `status`, `plan` and `validate` print are modelled as sets of
fields, not as text; opening the pool and setting `application_name` are not modelled;
`version` is not either. That an accepted down file of nothing but comments undoes
nothing (`internal/source/parser.go:34`) is shown by a configuration and covered by no
property of a passing run, since no property could hold. Termination of every call
of the service, of the lock and of late work stays with TLC.
