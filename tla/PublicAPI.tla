----------------------------- MODULE PublicAPI ------------------------------
(***************************************************************************)
(* The library's entry points, migrate.go: what an exported function makes *)
(* of its arguments and options before the service runs.  Each one either  *)
(* refuses or calls the service once; what the service then does is        *)
(* Migrator's subject.  Durations are seconds.                             *)
(***************************************************************************)
EXTENDS Rendering, Integers

CONSTANTS
  defaultLockTimeout,   \* the library's, 5 s
  defaultLockID

ASSUME DefaultsAssumption ==
  defaultLockTimeout \in Nat \ {0} /\ defaultLockID \in Int \ {0}

Refused == [op |-> "refused"]

RunFlags == {"rollback", "interleaved", "emptySource"}

\* An Option: what the With... function sets, and to what.
Option ==
  [lockTimeout : Int] \cup [lockID : Int] \cup [table : Seq(String)] \cup [schema : Seq(String)]
    \cup [rollback : {TRUE}] \cup [interleaved : {TRUE}] \cup [emptySource : {TRUE}]

With(what, to) == [w \in {what} |-> to]
Sets(o, what) == what \in DOMAIN o

Unconfigured ==
  [lockTimeout |-> 0, lockTimeoutSet |-> FALSE, lockID |-> 0,
   table |-> [schema |-> << >>, name |-> << >>], run |-> {}]

ApplyOption(c, o) ==
  CASE Sets(o, "lockTimeout") -> [c EXCEPT !.lockTimeout = o.lockTimeout, !.lockTimeoutSet = TRUE]
    [] Sets(o, "lockID") -> [c EXCEPT !.lockID = o.lockID]
    [] Sets(o, "table") -> [c EXCEPT !.table.name = o.table]
    [] Sets(o, "schema") -> [c EXCEPT !.table.schema = o.schema]
    [] OTHER -> [c EXCEPT !.run = @ \cup DOMAIN o]

\* In the order given: the last of two that set the same wins.
Options(opts) ==
  LET after[k \in 0 .. Len(opts)] ==
        IF k = 0 THEN Unconfigured ELSE ApplyOption(after[k - 1], opts[k])
  IN  after[Len(opts)]

\* A negative wait let through.
resolveOptionsUnchecked(opts) == [ok |-> TRUE, cfg |-> Options(opts)]

resolveOptions(opts) == [ok |-> Options(opts).lockTimeout >= 0, cfg |-> Options(opts)]

\* Zero taken for "not configured", whoever wrote it.
NewPostgresZeroUnset(cfg) ==
  [wait |-> IF cfg.lockTimeout = 0 THEN defaultLockTimeout ELSE cfg.lockTimeout,
   key |-> IF cfg.lockID = 0 THEN defaultLockID ELSE cfg.lockID]

NewPostgresFromDB(cfg) ==
  [wait |-> IF ~cfg.lockTimeoutSet /\ cfg.lockTimeout = 0 THEN defaultLockTimeout ELSE cfg.lockTimeout,
   key |-> IF cfg.lockID = 0 THEN defaultLockID ELSE cfg.lockID]

(***************************************************************************)
(* newService and the call made of the service it returns.  given: the     *)
(* database handle and the file system are not nil.                        *)
(***************************************************************************)
Serve(op, given, opts, count, id, run) ==
  LET resolved == resolveOptions(opts)
      table == resolve(resolved.cfg.table)
  IN IF ~given \/ ~resolved.ok \/ ~table.ok THEN Refused
     ELSE [op |-> op, count |-> count, id |-> id, run |-> run, table |-> table.text,
           lock |-> NewPostgresFromDB(resolved.cfg)]

\* Only Reconcile and Plan hand the run options on.
RunOptions(opts) == Options(opts).run

Reconcile(given, opts) == Serve("reconcile", given, opts, 0, "", RunOptions(opts))
Plan(given, opts) == Serve("plan", given, opts, 0, "", RunOptions(opts))
Up(given, opts) == Serve("up", given, opts, 0, "", {})
Forget(given, id, opts) == Serve("forget", given, opts, 0, id, {})
Status(given, opts) == Serve("status", given, opts, 0, "", {})

Baseline(given, throughID, opts) ==
  IF throughID = "" THEN Refused ELSE Serve("baseline", given, opts, 0, throughID, {})

allMigrations == -1

rollback(given, count, opts) == Serve("rollback", given, opts, count, "", {})

\* The old meaning of a count of zero.
DownUnguarded(given, count, opts) == rollback(given, count, opts)

Down(given, count, opts) == IF count <= 0 THEN Refused ELSE rollback(given, count, opts)
DownAll(given, opts) == rollback(given, allMigrations, opts)
=============================================================================
