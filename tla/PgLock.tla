------------------------------- MODULE PgLock -------------------------------
(***************************************************************************)
(* The migration lock (internal/db/postgres.go): a session-level advisory  *)
(* lock of PostgreSQL, taken on one connection of the caller's pool and    *)
(* kept there for the whole run while the executor works through the same  *)
(* pool.                                                                   *)
(*                                                                         *)
(* Three parties share the state.  Callers run AcquireLock, the migration  *)
(* run and ReleaseLock on a locker (a *Postgres; migrate.go makes one per  *)
(* call).  Pools are *sql.DB values with a limit on open connections.      *)
(* Sessions are connections, with what the client knows of them (conn) and *)
(* what the server does (waiting, holds, inTx, lockTimeout).               *)
(***************************************************************************)
EXTENDS Naturals, FiniteSets

CONSTANTS
  Callers, Lockers, Pools, Sessions, None,
  LockerOf,        \* the locker a caller uses
  PoolOf,          \* the pool a locker was made from
  Home,            \* the pool a session belongs to, when it is open
  MaxOpen,         \* SetMaxOpenConns of a pool, 0 for no limit
  Timeout,         \* a locker's lock timeout, in microseconds
  MayCancel,       \* whether a caller's context may end
  MayTerminate,    \* whether the server may end a session
  MayCrash         \* whether a process may die

ASSUME ShapeAssumption ==
  /\ LockerOf \in [Callers -> Lockers] /\ PoolOf \in [Lockers -> Pools]
  /\ Home \in [Sessions -> Pools]
  /\ MaxOpen \in [Pools -> Nat] /\ Timeout \in [Lockers -> Nat]
ASSUME SwitchesAssumption ==
  MayCancel \in BOOLEAN /\ MayTerminate \in BOOLEAN /\ MayCrash \in BOOLEAN
ASSUME NoneAssumption == None \notin Callers /\ None \notin Sessions

VARIABLES
  pc,              \* where each caller is
  own,             \* the connection the caller runs the lock on, or None
  work,            \* the connection the executor borrowed, or None
  lockMu,          \* the caller inside a locker's mutex, or None
  isLockAcquired, lockConn,                    \* fields of a locker
  conn,            \* what the client knows of a session
  waiting,         \* the session's backend is waiting in pg_advisory_lock
  holds,           \* how many times the session holds the lock
  inTx,            \* the session has a transaction open
  lockTimeout      \* the session's lock_timeout, in milliseconds

locker == <<lockMu, isLockAcquired, lockConn>>
server == <<waiting, holds, inTx, lockTimeout>>
vars == <<pc, own, work, locker, conn, server>>

PCs == {"idle", "conn", "begin", "wait", "commit", "rollback", "scrub",
        "body", "work", "release"}

(***************************************************************************)
(* conn: closed; idle in the pool; used by a caller; broken, that is still *)
(* in a caller's hands but useless; orphan, given up by the client while   *)
(* the backend has not ended yet.                                          *)
(***************************************************************************)
ConnStates == {"closed", "idle", "used", "broken", "orphan"}

CallerPool(c) == PoolOf[LockerOf[c]]

\* strconv.FormatInt(p.lockTimeout.Milliseconds(), 10): whole milliseconds.
Milliseconds(microseconds) == microseconds \div 1000

Init ==
  /\ pc = [c \in Callers |-> "idle"]
  /\ own = [c \in Callers |-> None]
  /\ work = [c \in Callers |-> None]
  /\ lockMu = [l \in Lockers |-> None]
  /\ isLockAcquired = [l \in Lockers |-> FALSE]
  /\ lockConn = [l \in Lockers |-> None]
  /\ conn = [s \in Sessions |-> "closed"]
  /\ waiting = [s \in Sessions |-> FALSE]
  /\ holds = [s \in Sessions |-> 0]
  /\ inTx = [s \in Sessions |-> FALSE]
  /\ lockTimeout = [s \in Sessions |-> 0]

Goto(c, where) == pc' = [pc EXCEPT ![c] = where]
SetConn(s, state) == conn' = [conn EXCEPT ![s] = state]

\* (*sql.DB).Conn hands out an idle connection, or opens one within the limit.
Available(p, s) ==
  LET of(states) == {t \in Sessions : Home[t] = p /\ conn[t] \in states} IN
  \/ s \in of({"idle"})
  \/ /\ s \in of({"closed"}) /\ of({"idle"}) = {}
     /\ MaxOpen[p] = 0 \/ Cardinality(of({"used", "broken"})) < MaxOpen[p]
-----------------------------------------------------------------------------
(***************************************************************************)
(* AcquireLock.                                                            *)
(***************************************************************************)

\* AcquireLock without ErrLockAlreadyAcquired.
EnterAlreadyAcquired(c) ==
  LET l == LockerOf[c] IN
  /\ pc[c] = "idle" /\ lockMu[l] = None
  /\ MaxOpen[PoolOf[l]] # 1
  /\ lockMu' = [lockMu EXCEPT ![l] = c]
  /\ Goto(c, "conn")
  /\ UNCHANGED <<own, work, isLockAcquired, lockConn, conn, server>>

\* The checks under the mutex; a call they refuse returns and changes nothing.
EnterAcquireLock(c) ==
  LET l == LockerOf[c] IN
  /\ pc[c] = "idle" /\ lockMu[l] = None
  /\ ~isLockAcquired[l]             \* ErrLockAlreadyAcquired
  /\ MaxOpen[PoolOf[l]] # 1         \* ErrPoolTooSmall
  /\ lockMu' = [lockMu EXCEPT ![l] = c]
  /\ Goto(c, "conn")
  /\ UNCHANGED <<own, work, isLockAcquired, lockConn, conn, server>>

\* A dedicated connection from the pool, as soon as there is one.
GetConn(c, s) ==
  /\ pc[c] = "conn" /\ Available(CallerPool(c), s)
  /\ SetConn(s, "used")
  /\ own' = [own EXCEPT ![c] = s]
  /\ Goto(c, "begin")
  /\ UNCHANGED <<work, locker, server>>

\* The context ends while the caller waits for the pool.
GiveUpConn(c) ==
  /\ MayCancel /\ pc[c] = "conn"
  /\ lockMu' = [lockMu EXCEPT ![LockerOf[c]] = None]
  /\ Goto(c, "idle")
  /\ UNCHANGED <<own, work, isLockAcquired, lockConn, conn, server>>

\* lockOnConn without its set_config.
RequestWithoutTimeout(c) ==
  LET s == own[c] IN
  /\ pc[c] = "begin" /\ conn[s] = "used"
  /\ inTx' = [inTx EXCEPT ![s] = TRUE]
  /\ waiting' = [waiting EXCEPT ![s] = TRUE]
  /\ Goto(c, "wait")
  /\ UNCHANGED <<own, work, locker, conn, holds, lockTimeout>>

\* lockOnConn: BEGIN, set_config('lock_timeout', ..., true), and the request.
RequestLock(c) ==
  LET s == own[c] IN
  /\ pc[c] = "begin" /\ conn[s] = "used"
  /\ inTx' = [inTx EXCEPT ![s] = TRUE]
  /\ lockTimeout' = [lockTimeout EXCEPT ![s] = Milliseconds(Timeout[LockerOf[c]])]
  /\ waiting' = [waiting EXCEPT ![s] = TRUE]
  /\ Goto(c, "wait")
  /\ UNCHANGED <<own, work, locker, conn, holds>>

\* The error of pg_advisory_lock ignored.
LockReplyIgnored(c) ==
  /\ pc[c] = "wait" /\ conn[own[c]] = "used" /\ ~waiting[own[c]]
  /\ Goto(c, "commit")
  /\ UNCHANGED <<own, work, locker, conn, server>>

\* The reply of pg_advisory_lock: granted, or aborted by lock_timeout.
LockReply(c) ==
  /\ pc[c] = "wait" /\ conn[own[c]] = "used" /\ ~waiting[own[c]]
  /\ Goto(c, IF holds[own[c]] > 0 THEN "commit" ELSE "rollback")
  /\ UNCHANGED <<own, work, locker, conn, server>>

(***************************************************************************)
(* The context ends during one of lockOnConn's statements.  The driver may *)
(* get the statement cancelled on a connection that stays good, and then   *)
(* it is too late if the lock had been granted; or it drops the connection *)
(* and leaves the backend as it is.                                        *)
(***************************************************************************)
Cancel(c) ==
  LET s == own[c] IN
  /\ MayCancel /\ pc[c] \in {"begin", "wait", "commit"} /\ conn[s] = "used"
  /\ \/ waiting' = [waiting EXCEPT ![s] = FALSE] /\ UNCHANGED conn
     \/ SetConn(s, "broken") /\ UNCHANGED waiting
  /\ Goto(c, "rollback")
  /\ UNCHANGED <<own, work, locker, holds, inTx, lockTimeout>>

\* A statement of lockOnConn fails because the session is gone.
ConnLost(c) ==
  /\ pc[c] \in {"begin", "wait", "commit"} /\ conn[own[c]] = "broken"
  /\ Goto(c, "rollback")
  /\ UNCHANGED <<own, work, locker, conn, server>>

\* The end of the transaction, either way: lock_timeout was local to it, the
\* advisory lock was not.
EndTx(s) ==
  /\ inTx' = [inTx EXCEPT ![s] = FALSE]
  /\ lockTimeout' = [lockTimeout EXCEPT ![s] = 0]

\* COMMIT succeeds and AcquireLock stores the connection and returns.
Commit(c) ==
  LET l == LockerOf[c] IN
  /\ pc[c] = "commit" /\ conn[own[c]] = "used"
  /\ EndTx(own[c])
  /\ lockConn' = [lockConn EXCEPT ![l] = own[c]]
  /\ isLockAcquired' = [isLockAcquired EXCEPT ![l] = TRUE]
  /\ lockMu' = [lockMu EXCEPT ![l] = None]
  /\ Goto(c, "body")
  /\ UNCHANGED <<own, work, conn, waiting, holds>>

\* lockOnConn's deferred Rollback, on the way out with an error.
Rollback(c) ==
  /\ pc[c] = "rollback"
  /\ IF conn[own[c]] = "used" THEN EndTx(own[c]) ELSE UNCHANGED <<inTx, lockTimeout>>
  /\ Goto(c, "scrub")
  /\ UNCHANGED <<own, work, locker, conn, waiting, holds>>

\* releaseAllAndClose without the unlock: Close returns the session as it is.
CloseWithoutScrub(c) ==
  /\ pc[c] = "scrub"
  /\ SetConn(own[c], IF conn[own[c]] = "used" THEN "idle" ELSE "orphan")
  /\ own' = [own EXCEPT ![c] = None]
  /\ lockMu' = [lockMu EXCEPT ![LockerOf[c]] = None]
  /\ Goto(c, "idle")
  /\ UNCHANGED <<work, isLockAcquired, lockConn, server>>

\* AcquireLock returning its error without releaseAllAndClose.
ForgetConn(c) ==
  /\ pc[c] = "scrub"
  /\ own' = [own EXCEPT ![c] = None]
  /\ lockMu' = [lockMu EXCEPT ![LockerOf[c]] = None]
  /\ Goto(c, "idle")
  /\ UNCHANGED <<work, isLockAcquired, lockConn, conn, server>>

(***************************************************************************)
(* releaseAllAndClose: pg_advisory_unlock_all and back to the pool, or, if *)
(* that fails, sqlconn.Destroy.                                            *)
(***************************************************************************)
ReleaseAllAndClose(c) ==
  LET s == own[c] IN
  /\ pc[c] = "scrub"
  /\ \/ /\ conn[s] = "used"
        /\ holds' = [holds EXCEPT ![s] = 0]
        /\ SetConn(s, "idle")
     \/ SetConn(s, "orphan") /\ UNCHANGED holds
  /\ own' = [own EXCEPT ![c] = None]
  /\ lockMu' = [lockMu EXCEPT ![LockerOf[c]] = None]
  /\ Goto(c, "idle")
  /\ UNCHANGED <<work, isLockAcquired, lockConn, waiting, inTx, lockTimeout>>
-----------------------------------------------------------------------------
(***************************************************************************)
(* The run, and ReleaseLock.                                               *)
(***************************************************************************)

\* The executor needs a connection of the same pool for its queries.
GetWorkConn(c, s) ==
  /\ pc[c] = "body" /\ Available(CallerPool(c), s)
  /\ SetConn(s, "used")
  /\ work' = [work EXCEPT ![c] = s]
  /\ Goto(c, "work")
  /\ UNCHANGED <<own, locker, server>>

\* The context ends while the run waits for the pool.
GiveUpWork(c) ==
  /\ MayCancel /\ pc[c] = "body"
  /\ Goto(c, "release")
  /\ UNCHANGED <<own, work, locker, conn, server>>

\* The queries are done; a notransaction script's connection is destroyed
\* (releaseConn), any other goes back to the pool.
EndWork(c) ==
  /\ pc[c] = "work"
  /\ \/ conn[work[c]] = "used" /\ SetConn(work[c], "idle")
     \/ SetConn(work[c], "orphan")
  /\ work' = [work EXCEPT ![c] = None]
  /\ Goto(c, "release")
  /\ UNCHANGED <<own, locker, server>>

(***************************************************************************)
(* ReleaseLock clears the locker's state, then unlocks on a context of its *)
(* own.  Confirmed, the connection goes back to the pool; otherwise it is  *)
(* destroyed, and the server drops the lock with the session.              *)
(***************************************************************************)
ReleaseLock(c) ==
  LET l == LockerOf[c]
      s == lockConn[l]
      unlocked == [holds EXCEPT ![s] = IF @ > 0 THEN @ - 1 ELSE 0]
  IN
  /\ pc[c] = "release" /\ lockMu[l] = None /\ isLockAcquired[l]
  /\ lockConn' = [lockConn EXCEPT ![l] = None]
  /\ isLockAcquired' = [isLockAcquired EXCEPT ![l] = FALSE]
  /\ \/ conn[s] = "used" /\ holds' = unlocked /\ SetConn(s, "idle")
     \/ holds' \in {holds, unlocked} /\ SetConn(s, "orphan")
  /\ own' = [own EXCEPT ![c] = None]
  /\ Goto(c, "idle")
  /\ UNCHANGED <<work, lockMu, waiting, inTx, lockTimeout>>
-----------------------------------------------------------------------------
(***************************************************************************)
(* The server, and the world.                                              *)
(***************************************************************************)

Free(s) == \A t \in Sessions \ {s} : holds[t] = 0

\* The grant of pg_advisory_lock_shared: nobody has to wait for anybody.
GrantShared(s) ==
  /\ waiting[s]
  /\ waiting' = [waiting EXCEPT ![s] = FALSE]
  /\ holds' = [holds EXCEPT ![s] = @ + 1]
  /\ UNCHANGED <<pc, own, work, locker, conn, inTx, lockTimeout>>

\* The lock is granted; a session that has it already gets it once more.
Grant(s) ==
  /\ waiting[s] /\ Free(s)
  /\ waiting' = [waiting EXCEPT ![s] = FALSE]
  /\ holds' = [holds EXCEPT ![s] = @ + 1]
  /\ UNCHANGED <<pc, own, work, locker, conn, inTx, lockTimeout>>

\* lock_timeout aborts the statement; 0 means never.
AbortWait(s) ==
  /\ waiting[s] /\ lockTimeout[s] > 0
  /\ waiting' = [waiting EXCEPT ![s] = FALSE]
  /\ UNCHANGED <<pc, own, work, locker, conn, holds, inTx, lockTimeout>>

ClearServer(S) ==
  /\ waiting' = [s \in Sessions |-> waiting[s] /\ s \notin S]
  /\ holds' = [s \in Sessions |-> IF s \in S THEN 0 ELSE holds[s]]
  /\ inTx' = [s \in Sessions |-> inTx[s] /\ s \notin S]
  /\ lockTimeout' = [s \in Sessions |-> IF s \in S THEN 0 ELSE lockTimeout[s]]

\* A backend whose client has gone ends, but not while it waits for a lock.
EndSession(s) ==
  /\ conn[s] \in {"broken", "orphan"} /\ ~waiting[s]
  /\ ClearServer({s})
  /\ IF conn[s] = "orphan" THEN SetConn(s, "closed") ELSE UNCHANGED conn
  /\ UNCHANGED <<pc, own, work, locker>>

\* pg_terminate_backend, a failover, a dropped connection.
Terminate(s) ==
  /\ MayTerminate /\ conn[s] \in {"idle", "used", "orphan"}
  /\ ClearServer({s})
  /\ SetConn(s, IF conn[s] = "used" THEN "broken" ELSE "closed")
  /\ UNCHANGED <<pc, own, work, locker>>

\* The process that has pool p dies, with every caller and locker in it.
Crash(p) ==
  /\ MayCrash /\ \E c \in Callers : CallerPool(c) = p /\ pc[c] # "idle"
  /\ pc' = [c \in Callers |-> IF CallerPool(c) = p THEN "idle" ELSE pc[c]]
  /\ own' = [c \in Callers |-> IF CallerPool(c) = p THEN None ELSE own[c]]
  /\ work' = [c \in Callers |-> IF CallerPool(c) = p THEN None ELSE work[c]]
  /\ lockMu' = [l \in Lockers |-> IF PoolOf[l] = p THEN None ELSE lockMu[l]]
  /\ lockConn' = [l \in Lockers |-> IF PoolOf[l] = p THEN None ELSE lockConn[l]]
  /\ isLockAcquired' = [l \in Lockers |-> isLockAcquired[l] /\ PoolOf[l] # p]
  /\ conn' = [s \in Sessions |->
                IF Home[s] = p /\ conn[s] # "closed" THEN "orphan" ELSE conn[s]]
  /\ UNCHANGED server
-----------------------------------------------------------------------------
\* What a caller does of its own accord once it has started, but for the
\* migration itself, which may take any time.
Step(c) ==
  \/ RequestLock(c) \/ LockReply(c) \/ ConnLost(c)
  \/ Commit(c) \/ Rollback(c) \/ ReleaseAllAndClose(c)
  \/ ReleaseLock(c)

\* A request to the pool.
Borrow(c) == \E s \in Sessions : GetConn(c, s) \/ GetWorkConn(c, s)

Next ==
  \/ \E c \in Callers :
       EnterAcquireLock(c) \/ Borrow(c) \/ Step(c) \/ EndWork(c)
         \/ GiveUpConn(c) \/ Cancel(c) \/ GiveUpWork(c)
  \/ \E s \in Sessions : Grant(s) \/ AbortWait(s) \/ EndSession(s) \/ Terminate(s)
  \/ \E p \in Pools : Crash(p)

(***************************************************************************)
(* A caller goes on as long as it is not blocked, and the server answers.  *)
(* Strong fairness where there is a queue: database/sql gives a connection *)
(* that comes back to a request that waits, and PostgreSQL queues the      *)
(* sessions that wait for a lock.                                          *)
(***************************************************************************)
Progress ==
  /\ \A c \in Callers : WF_vars(Step(c)) /\ SF_vars(Borrow(c))
  /\ \A s \in Sessions : WF_vars(AbortWait(s)) /\ WF_vars(EndSession(s)) /\ SF_vars(Grant(s))

\* A migration may run forever: EndWork has no fairness.
Spec == Init /\ [][Next]_vars /\ Progress
-----------------------------------------------------------------------------
\* The shape of the state; holds is how often PostgreSQL counts the lock for a
\* session, which never falls below zero.
TypeOK ==
  /\ pc \in [Callers -> PCs]
  /\ own \in [Callers -> Sessions \cup {None}]
  /\ work \in [Callers -> Sessions \cup {None}]
  /\ lockMu \in [Lockers -> Callers \cup {None}]
  /\ isLockAcquired \in [Lockers -> BOOLEAN]
  /\ lockConn \in [Lockers -> Sessions \cup {None}]
  /\ conn \in [Sessions -> ConnStates]
  /\ waiting \in [Sessions -> BOOLEAN]
  /\ holds \in [Sessions -> Nat]
  /\ inTx \in [Sessions -> BOOLEAN]
  /\ lockTimeout \in [Sessions -> Nat]

\* Between a successful AcquireLock and the end of ReleaseLock.
Inside == {c \in Callers : pc[c] \in {"body", "work", "release"}}

(***************************************************************************)
(* A session goes back to the application's pool with nothing of the       *)
(* migration on it: no advisory lock, no transaction, no lock_timeout,     *)
(* whatever was cancelled or lost on the way.  This is what the detached   *)
(* clean-up and Destroy are for.                                           *)
(***************************************************************************)
PooledSessionsClean ==
  \A s \in Sessions : conn[s] = "idle" =>
    ~waiting[s] /\ holds[s] = 0 /\ ~inTx[s] /\ lockTimeout[s] = 0

(***************************************************************************)
(* AcquireLock returned without an error, so as long as its connection is  *)
(* good the session holds the lock, and holds it once: a lock left on the  *)
(* session by an earlier caller would survive this one's single unlock.    *)
(***************************************************************************)
InsideHoldsLock ==
  \A c \in Inside :
    conn[own[c]] = "used" => holds[own[c]] = 1

(***************************************************************************)
(* The locker of a caller inside is marked acquired and has the connection *)
(* the caller locked, so its ReleaseLock can neither fail with             *)
(* ErrLockNotAcquired nor unlock someone else's session, also when several *)
(* callers share a locker.                                                 *)
(***************************************************************************)
LockerRemembersHolder ==
  \A c \in Inside :
    /\ isLockAcquired[LockerOf[c]] /\ lockConn[LockerOf[c]] = own[c]
    /\ \A d \in Inside : LockerOf[d] = LockerOf[c] => d = c

(***************************************************************************)
(* No lock is left on a session nobody answers for: whoever holds the lock *)
(* is a caller's dedicated connection or a session about to end.           *)
(***************************************************************************)
NoStrandedLock ==
  \A s \in Sessions : holds[s] > 0 =>
    conn[s] = "orphan" \/ \E c \in Callers : own[c] = s /\ pc[c] # "idle"

(***************************************************************************)
(* The lock implements mutual exclusion of the callers whose session is    *)
(* good.  A caller whose session was terminated has lost the lock and does *)
(* not know it; the promise ends there, and only there.                    *)
(***************************************************************************)
Mutex == INSTANCE MigrationMutex WITH inside <- {c \in Inside : conn[own[c]] = "used"}
ImplementsMutex == Mutex!Spec

(***************************************************************************)
(* Every call returns, if every migration ends: nobody waits forever for   *)
(* the lock or for the pool.                                               *)
(***************************************************************************)
CallsReturn ==
  (\A c \in Callers : WF_vars(EndWork(c))) =>
    \A c \in Callers : pc[c] # "idle" ~> pc[c] = "idle"

(***************************************************************************)
(* WithLockTimeout "bounds how long to wait": a caller with a timeout      *)
(* other than zero stops waiting, whatever the holder does.                *)
(***************************************************************************)
TimeoutBoundsWait ==
  \A c \in Callers : Timeout[LockerOf[c]] > 0 => (pc[c] = "wait" ~> pc[c] # "wait")
=============================================================================
