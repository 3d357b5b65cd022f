---------------------------- MODULE PgLockProofs ----------------------------
(***************************************************************************)
(* The advisory lock, for any number of callers, lockers, pools and        *)
(* sessions: what is on a session fits what its caller is doing with it,   *)
(* sessions go back to the pool clean, and the lock implements the mutex.  *)
(***************************************************************************)
EXTENDS PgLock, TLAPS

USE ShapeAssumption, SwitchesAssumption, NoneAssumption

\* A session with nothing of a migration on it.
Clean(s) == ~waiting[s] /\ holds[s] = 0 /\ ~inTx[s] /\ lockTimeout[s] = 0

\* A caller in AcquireLock, with the mutex; one with a connection for the lock.
Acquiring == {"conn", "begin", "wait", "commit", "rollback", "scrub"}
Dedicated == PCs \ {"idle", "conn"}
Entered == {"body", "work", "release"}

InHand(s) == conn[s] \in {"used", "broken"}

\* What a caller has is in its hands alone, and of its own pool.
OwnInv ==
  /\ \A c \in Callers : own[c] # None <=> pc[c] \in Dedicated
  /\ \A c \in Callers : work[c] # None <=> pc[c] = "work"
  /\ \A c \in Callers : own[c] # None => InHand(own[c]) /\ Home[own[c]] = CallerPool(c)
  /\ \A c \in Callers : work[c] # None => InHand(work[c]) /\ Home[work[c]] = CallerPool(c)
  /\ \A c, d \in Callers : own[c] # None /\ own[c] = own[d] => c = d
  /\ \A c, d \in Callers : work[c] # None /\ work[c] = work[d] => c = d
  /\ \A c, d \in Callers : own[c] # None => own[c] # work[d]
  /\ \A s \in Sessions : InHand(s) => \E c \in Callers : own[c] = s \/ work[c] = s

\* The mutex and the fields of a locker.
LockerInv ==
  /\ \A c \in Callers : pc[c] \in Acquiring => lockMu[LockerOf[c]] = c
  /\ \A l \in Lockers : lockMu[l] # None => ~isLockAcquired[l]
  /\ LockerRemembersHolder

\* What is on a session that is nobody's, or that the executor works with.
IdleInv ==
  /\ \A s \in Sessions : conn[s] \in {"idle", "closed"} => Clean(s)
  /\ \A c \in Callers : pc[c] = "work" => Clean(work[c])

\* What is on the caller's dedicated session, as long as it is good.
OnSession(c) ==
  LET s == own[c] IN
  /\ pc[c] = "begin" => Clean(s)
  /\ pc[c] = "wait" /\ waiting[s] => holds[s] = 0
  /\ pc[c] \in {"wait", "commit", "rollback", "scrub"} => holds[s] <= 1
  /\ pc[c] \in {"commit", "rollback", "scrub"} => ~waiting[s]
  /\ pc[c] = "commit" => holds[s] = 1
  /\ pc[c] = "scrub" => ~inTx[s] /\ lockTimeout[s] = 0
  /\ pc[c] \in Entered => ~waiting[s] /\ holds[s] = 1 /\ ~inTx[s] /\ lockTimeout[s] = 0

SessionInv == \A c \in Callers : pc[c] \in Dedicated /\ conn[own[c]] = "used" => OnSession(c)

\* PostgreSQL gives the lock to one session at a time.
OneHolder == \A s, t \in Sessions : holds[s] > 0 /\ holds[t] > 0 => s = t

LockInv == TypeOK /\ OwnInv /\ LockerInv /\ IdleInv /\ SessionInv /\ OneHolder

\* Nothing is on any session before the first call.
LEMMA LockInit == Init => LockInv
  <1> SUFFICES ASSUME Init PROVE LockInv
    OBVIOUS
  <1> USE DEF Init
  <1>1. TypeOK
    BY DEF TypeOK, PCs, ConnStates
  <1>2. OwnInv
    BY DEF OwnInv, Dedicated, PCs, InHand
  <1>3. LockerInv
    BY DEF LockerInv, LockerRemembersHolder, Inside, Acquiring
  <1>4. IdleInv /\ SessionInv /\ OneHolder
    BY DEF IdleInv, Clean, SessionInv, Dedicated, OneHolder
  <1> QED BY <1>1, <1>2, <1>3, <1>4 DEF LockInv

\* AcquireLock takes the locker's mutex, or refuses.
LEMMA EnterAcquireLockKeeps ==
  ASSUME LockInv, NEW c \in Callers, EnterAcquireLock(c)
  PROVE  LockInv'
  <1> USE DEF LockInv, EnterAcquireLock, Goto, SetConn, locker, server, CallerPool
  <1>1. TypeOK'
    BY DEF TypeOK, PCs
  <1>2. OwnInv'
    BY DEF OwnInv, InHand, Dedicated
  <1>3. LockerInv'
    BY DEF LockerInv, LockerRemembersHolder, Inside, TypeOK
  <1>4. IdleInv'
    BY DEF IdleInv, Clean
  <1>5. SessionInv'
    BY DEF SessionInv, OnSession, Clean, Entered
  <1>6. OneHolder'
    BY DEF OneHolder
  <1> QED BY <1>1, <1>2, <1>3, <1>4, <1>5, <1>6

\* db.Conn gives a session that has nothing on it.
LEMMA GetConnKeeps ==
  ASSUME LockInv, NEW c \in Callers, NEW s \in Sessions, GetConn(c, s)
  PROVE  LockInv'
  <1> USE DEF LockInv, GetConn, Goto, SetConn, locker, server, CallerPool, Available
  <1>1. TypeOK'
    BY DEF TypeOK, PCs, ConnStates
  <1>2. OwnInv'
    BY DEF OwnInv, InHand, Dedicated, PCs, TypeOK
  <1>3. LockerInv'
    BY DEF LockerInv, LockerRemembersHolder, Inside, Acquiring
  <1>4. IdleInv'
    BY DEF IdleInv, Clean
  <1>5. SessionInv'
    <2>1. s \in Sessions /\ Clean(s)
      BY DEF IdleInv
    <2>2. \A d \in Callers : own[d] # None => own[d] # s
      BY DEF OwnInv, InHand
    <2>3. own' = [own EXCEPT ![c] = s] /\ pc' = [pc EXCEPT ![c] = "begin"] /\ Clean(s)'
      BY <2>1 DEF Clean
    <2>4. \A d \in Callers : d # c /\ pc[d] \in Dedicated => conn'[own[d]] = conn[own[d]]
      BY <2>2
    <2> QED BY <2>3, <2>4 DEF TypeOK, SessionInv, OnSession, Clean, Entered
  <1>6. OneHolder'
    BY DEF OneHolder
  <1> QED BY <1>1, <1>2, <1>3, <1>4, <1>5, <1>6

\* The context ends while db.Conn waits.
LEMMA GiveUpConnKeeps ==
  ASSUME LockInv, NEW c \in Callers, GiveUpConn(c)
  PROVE  LockInv'
  <1> USE DEF LockInv, GiveUpConn, Goto, SetConn, locker, server, CallerPool
  <1>1. TypeOK'
    BY DEF TypeOK, PCs
  <1>2. OwnInv'
    BY DEF OwnInv, InHand, Dedicated
  <1>3. LockerInv'
    BY DEF LockerInv, LockerRemembersHolder, Inside, Acquiring, TypeOK
  <1>4. IdleInv'
    BY DEF IdleInv, Clean
  <1>5. SessionInv'
    BY DEF SessionInv, OnSession, Clean, Entered
  <1>6. OneHolder'
    BY DEF OneHolder
  <1> QED BY <1>1, <1>2, <1>3, <1>4, <1>5, <1>6

\* The transaction is open, its timeout set and the lock requested.
LEMMA RequestLockKeeps ==
  ASSUME LockInv, NEW c \in Callers, RequestLock(c)
  PROVE  LockInv'
  <1> USE DEF LockInv, RequestLock, Goto, SetConn, locker, server, CallerPool,
              Milliseconds
  <1>1. TypeOK'
    <2>1. Milliseconds(Timeout[LockerOf[c]]) \in Nat
      OBVIOUS
    <2> HIDE DEF Milliseconds
    <2> QED BY <2>1 DEF TypeOK, PCs
  <1>2. OwnInv'
    BY DEF OwnInv, InHand, Dedicated, PCs
  <1>3. LockerInv'
    BY DEF LockerInv, LockerRemembersHolder, Inside, Acquiring
  <1>4. IdleInv'
    BY DEF IdleInv, Clean, OwnInv
  <1>5. SessionInv'
    BY DEF SessionInv, OnSession, Clean, Dedicated, Entered, TypeOK, OwnInv
  <1>6. OneHolder'
    BY DEF OneHolder
  <1> QED BY <1>1, <1>2, <1>3, <1>4, <1>5, <1>6

\* The server has answered the request.
LEMMA LockReplyKeeps ==
  ASSUME LockInv, NEW c \in Callers, LockReply(c)
  PROVE  LockInv'
  <1> USE DEF LockInv, LockReply, Goto, SetConn, locker, server, CallerPool
  <1>1. TypeOK'
    BY DEF TypeOK, PCs
  <1>2. OwnInv'
    BY DEF OwnInv, InHand, Dedicated, PCs
  <1>3. LockerInv'
    BY DEF LockerInv, LockerRemembersHolder, Inside, Acquiring
  <1>4. IdleInv'
    BY DEF IdleInv, Clean
  <1>5. SessionInv'
    BY DEF SessionInv, OnSession, Clean, Dedicated, Entered, TypeOK, OwnInv
  <1>6. OneHolder'
    BY DEF OneHolder
  <1> QED BY <1>1, <1>2, <1>3, <1>4, <1>5, <1>6

\* The context ends while the request waits: cancelled, or perhaps granted before.
LEMMA CancelKeeps ==
  ASSUME LockInv, NEW c \in Callers, Cancel(c)
  PROVE  LockInv'
  <1> USE DEF LockInv, Cancel, Goto, SetConn, locker, server, CallerPool
  <1>1. TypeOK'
    BY DEF TypeOK, PCs, ConnStates
  <1>2. OwnInv'
    BY DEF OwnInv, InHand, Dedicated, PCs, TypeOK
  <1>3. LockerInv'
    BY DEF LockerInv, LockerRemembersHolder, Inside, Acquiring
  <1>4. IdleInv'
    <2>1. own[c] \in Sessions /\ \A d \in Callers : work[d] # own[c]
      BY DEF TypeOK, OwnInv, Dedicated
    <2>2. \A s \in Sessions : s # own[c] => conn'[s] = conn[s] /\ waiting'[s] = waiting[s]
      BY DEF TypeOK
    <2>3. conn'[own[c]] \in {"used", "broken"}
      BY <2>1 DEF TypeOK
    <2> QED BY <2>1, <2>2, <2>3 DEF IdleInv, Clean, TypeOK, OwnInv
  <1>5. SessionInv'
    BY DEF SessionInv, OnSession, Clean, Dedicated, Entered, TypeOK, OwnInv
  <1>6. OneHolder'
    BY DEF OneHolder
  <1> QED BY <1>1, <1>2, <1>3, <1>4, <1>5, <1>6

\* The connection breaks while the request waits.
LEMMA ConnLostKeeps ==
  ASSUME LockInv, NEW c \in Callers, ConnLost(c)
  PROVE  LockInv'
  <1> USE DEF LockInv, ConnLost, Goto, SetConn, locker, server, CallerPool
  <1>1. TypeOK'
    BY DEF TypeOK, PCs
  <1>2. OwnInv'
    BY DEF OwnInv, InHand, Dedicated, PCs
  <1>3. LockerInv'
    BY DEF LockerInv, LockerRemembersHolder, Inside, Acquiring
  <1>4. IdleInv'
    BY DEF IdleInv, Clean
  <1>5. SessionInv'
    BY DEF SessionInv, OnSession, Clean
  <1>6. OneHolder'
    BY DEF OneHolder
  <1> QED BY <1>1, <1>2, <1>3, <1>4, <1>5, <1>6

\* The COMMIT ends the transaction and lets the caller in, or its reply is lost.
LEMMA CommitKeeps ==
  ASSUME LockInv, NEW c \in Callers, Commit(c)
  PROVE  LockInv'
  <1> USE DEF LockInv, Commit, Goto, SetConn, locker, server, CallerPool, EndTx
  <1>1. TypeOK'
    BY DEF TypeOK, PCs
  <1>2. OwnInv'
    BY DEF OwnInv, InHand, Dedicated, PCs
  <1>3. LockerInv'
    BY DEF LockerInv, LockerRemembersHolder, Inside, Acquiring, TypeOK
  <1>4. IdleInv'
    BY DEF IdleInv, Clean
  <1>5. SessionInv'
    BY DEF SessionInv, OnSession, Clean, Dedicated, TypeOK, OwnInv
  <1>6. OneHolder'
    BY DEF OneHolder
  <1> QED BY <1>1, <1>2, <1>3, <1>4, <1>5, <1>6

\* The transaction is rolled back; the lock, if it was granted, is still there.
LEMMA RollbackKeeps ==
  ASSUME LockInv, NEW c \in Callers, Rollback(c)
  PROVE  LockInv'
  <1> USE DEF LockInv, Rollback, Goto, SetConn, locker, server, CallerPool, EndTx
  <1>1. TypeOK'
    <2>1. inTx' \in [Sessions -> BOOLEAN]
      BY DEF TypeOK
    <2>2. lockTimeout' \in [Sessions -> Nat]
      BY DEF TypeOK
    <2> QED BY <2>1, <2>2 DEF TypeOK, PCs
  <1>2. OwnInv'
    BY DEF OwnInv, InHand, Dedicated, PCs
  <1>3. LockerInv'
    BY DEF LockerInv, LockerRemembersHolder, Inside, Acquiring
  <1>4. IdleInv'
    BY DEF IdleInv, Clean, TypeOK, OwnInv
  <1>5. SessionInv'
    BY DEF SessionInv, OnSession, Clean, Dedicated, Entered, TypeOK, OwnInv
  <1>6. OneHolder'
    BY DEF OneHolder
  <1> QED BY <1>1, <1>2, <1>3, <1>4, <1>5, <1>6

\* releaseAllAndClose scrubs the session before the pool gets it back.
LEMMA ReleaseAllAndCloseKeeps ==
  ASSUME LockInv, NEW c \in Callers, ReleaseAllAndClose(c)
  PROVE  LockInv'
  <1> USE DEF LockInv, ReleaseAllAndClose, Goto, SetConn, locker, server, CallerPool
  <1>1. TypeOK'
    BY DEF TypeOK, PCs, ConnStates
  <1>2. OwnInv'
    BY DEF OwnInv, InHand, Dedicated, TypeOK
  <1>3. LockerInv'
    BY DEF LockerInv, LockerRemembersHolder, Inside, Acquiring, TypeOK
  <1>4. IdleInv'
    <2>1. own[c] \in Sessions /\ \A d \in Callers : work[d] # own[c]
      BY DEF TypeOK, OwnInv, Dedicated
    <2>2. \A s \in Sessions : s # own[c] => conn'[s] = conn[s] /\ holds'[s] = holds[s]
      BY DEF TypeOK
    <2>3. \A s \in Sessions : s = own[c] /\ conn'[s] = "idle" => Clean(s)'
      BY <2>1 DEF TypeOK, SessionInv, OnSession, Dedicated, Clean
    <2>4. conn'[own[c]] \in {"idle", "orphan"}
      BY <2>1 DEF TypeOK
    <2> QED BY <2>1, <2>2, <2>3, <2>4 DEF IdleInv, Clean, TypeOK, OwnInv
  <1>5. SessionInv'
    BY DEF SessionInv, OnSession, Clean, Entered, TypeOK, OwnInv
  <1>6. OneHolder'
    BY DEF OneHolder, TypeOK, PCs
  <1> QED BY <1>1, <1>2, <1>3, <1>4, <1>5, <1>6

\* The executor borrows another session of the pool.
LEMMA GetWorkConnKeeps ==
  ASSUME LockInv, NEW c \in Callers, NEW s \in Sessions, GetWorkConn(c, s)
  PROVE  LockInv'
  <1> USE DEF LockInv, GetWorkConn, Goto, SetConn, locker, server, CallerPool, Available
  <1>1. TypeOK'
    BY DEF TypeOK, PCs, ConnStates
  <1>2. OwnInv'
    BY DEF OwnInv, InHand, Dedicated, PCs, TypeOK
  <1>3. LockerInv'
    BY DEF LockerInv, LockerRemembersHolder, Inside, Acquiring
  <1>4. IdleInv'
    BY DEF IdleInv, Clean, TypeOK
  <1>5. SessionInv'
    BY DEF SessionInv, OnSession, Clean, Dedicated, Entered, PCs, InHand, OwnInv
  <1>6. OneHolder'
    BY DEF OneHolder
  <1> QED BY <1>1, <1>2, <1>3, <1>4, <1>5, <1>6

\* The context ends while the executor waits for a session.
LEMMA GiveUpWorkKeeps ==
  ASSUME LockInv, NEW c \in Callers, GiveUpWork(c)
  PROVE  LockInv'
  <1> USE DEF LockInv, GiveUpWork, Goto, SetConn, locker, server, CallerPool
  <1>1. TypeOK'
    BY DEF TypeOK, PCs
  <1>2. OwnInv'
    BY DEF OwnInv, InHand, Dedicated, PCs
  <1>3. LockerInv'
    BY DEF LockerInv, LockerRemembersHolder, Inside, Acquiring
  <1>4. IdleInv'
    BY DEF IdleInv, Clean
  <1>5. SessionInv'
    BY DEF SessionInv, OnSession, Clean, Dedicated, Entered, PCs
  <1>6. OneHolder'
    BY DEF OneHolder
  <1> QED BY <1>1, <1>2, <1>3, <1>4, <1>5, <1>6

\* The executor's session goes back.
LEMMA EndWorkKeeps ==
  ASSUME LockInv, NEW c \in Callers, EndWork(c)
  PROVE  LockInv'
  <1> USE DEF LockInv, EndWork, Goto, SetConn, locker, server, CallerPool
  <1>1. TypeOK'
    BY DEF TypeOK, PCs, ConnStates
  <1>2. OwnInv'
    BY DEF OwnInv, InHand, Dedicated, PCs, TypeOK, ConnStates
  <1>3. LockerInv'
    BY DEF LockerInv, LockerRemembersHolder, Inside, Acquiring
  <1>4. IdleInv'
    BY DEF IdleInv, Clean, TypeOK
  <1>5. SessionInv'
    BY DEF SessionInv, OnSession, Clean, Dedicated, Entered, TypeOK, OwnInv
  <1>6. OneHolder'
    BY DEF OneHolder
  <1> QED BY <1>1, <1>2, <1>3, <1>4, <1>5, <1>6

\* ReleaseLock, and Destroy behind it, give the dedicated session back.
LEMMA ReleaseLockKeeps ==
  ASSUME LockInv, NEW c \in Callers, ReleaseLock(c)
  PROVE  LockInv'
  <1> USE DEF LockInv, ReleaseLock, Goto, SetConn, locker, server, CallerPool
  <1>1. TypeOK'
    BY DEF TypeOK, PCs, ConnStates
  <1>2. OwnInv'
    <2>1. lockConn[LockerOf[c]] = own[c] /\ own[c] \in Sessions
      BY DEF LockerInv, LockerRemembersHolder, Inside, TypeOK, OwnInv, Dedicated, PCs
    <2>2. \A s \in Sessions : s # own[c] => conn'[s] = conn[s]
      BY <2>1 DEF TypeOK
    <2>3. conn'[own[c]] \in {"idle", "orphan"}
      BY <2>1 DEF TypeOK
    <2> QED BY <2>1, <2>2, <2>3 DEF OwnInv, InHand, Dedicated, TypeOK
  <1>3. LockerInv'
    BY DEF LockerInv, LockerRemembersHolder, Inside, Acquiring, TypeOK
  <1>4. IdleInv'
    <2>1. lockConn[LockerOf[c]] = own[c] /\ own[c] \in Sessions
      BY DEF LockerInv, LockerRemembersHolder, Inside, TypeOK, OwnInv, Dedicated, PCs
    <2>2. \A d \in Callers : work[d] # own[c]
      BY <2>1 DEF OwnInv
    <2>3. \A s \in Sessions : s # own[c] => conn'[s] = conn[s] /\ holds'[s] = holds[s]
      BY <2>1 DEF TypeOK
    <2>4. \A s \in Sessions : s = own[c] /\ conn'[s] = "idle" => Clean(s)'
      BY <2>1 DEF TypeOK, SessionInv, OnSession, Dedicated, Entered, Clean
    <2>5. conn'[own[c]] \in {"idle", "orphan"}
      BY <2>1 DEF TypeOK
    <2> QED BY <2>1, <2>2, <2>3, <2>4, <2>5 DEF IdleInv, Clean, TypeOK, OwnInv
  <1>5. SessionInv'
    BY DEF SessionInv, OnSession, Clean, Entered, TypeOK, OwnInv
  <1>6. OneHolder'
    BY DEF OneHolder, TypeOK, SessionInv
  <1> QED BY <1>1, <1>2, <1>3, <1>4, <1>5, <1>6

\* PostgreSQL grants a lock nobody holds.
LEMMA GrantKeeps ==
  ASSUME LockInv, NEW s \in Sessions, Grant(s)
  PROVE  LockInv'
  <1> USE DEF LockInv, Grant, Goto, SetConn, locker, server, CallerPool, Free
  <1>1. TypeOK'
    BY DEF TypeOK
  <1>2. OwnInv'
    BY DEF OwnInv, InHand
  <1>3. LockerInv'
    BY DEF LockerInv, LockerRemembersHolder, Inside
  <1>4. IdleInv'
    BY DEF IdleInv, Clean
  <1>5. SessionInv'
    BY DEF SessionInv, OnSession, Clean, TypeOK
  <1>6. OneHolder'
    BY DEF OneHolder
  <1> QED BY <1>1, <1>2, <1>3, <1>4, <1>5, <1>6

\* lock_timeout ends a request.
LEMMA AbortWaitKeeps ==
  ASSUME LockInv, NEW s \in Sessions, AbortWait(s)
  PROVE  LockInv'
  <1> USE DEF LockInv, AbortWait, Goto, SetConn, locker, server, CallerPool
  <1>1. TypeOK'
    BY DEF TypeOK
  <1>2. OwnInv'
    BY DEF OwnInv, InHand
  <1>3. LockerInv'
    BY DEF LockerInv, LockerRemembersHolder, Inside
  <1>4. IdleInv'
    BY DEF IdleInv, Clean
  <1>5. SessionInv'
    BY DEF SessionInv, OnSession, Clean
  <1>6. OneHolder'
    BY DEF OneHolder
  <1> QED BY <1>1, <1>2, <1>3, <1>4, <1>5, <1>6

\* A session whose client is gone ends, and with it what it had.
LEMMA EndSessionKeeps ==
  ASSUME LockInv, NEW s \in Sessions, EndSession(s)
  PROVE  LockInv'
  <1> USE DEF LockInv, EndSession, Goto, SetConn, locker, server, CallerPool, ClearServer
  <1>1. TypeOK'
    BY DEF TypeOK, ConnStates
  <1>2. OwnInv'
    <2>1. \A t \in Sessions : InHand(t)' <=> InHand(t)
      BY DEF InHand, TypeOK
    <2> QED BY <2>1 DEF OwnInv, TypeOK
  <1>3. LockerInv'
    BY DEF LockerInv, LockerRemembersHolder, Inside
  <1>4. IdleInv'
    BY DEF IdleInv, Clean, TypeOK, OwnInv
  <1>5. SessionInv'
    BY DEF SessionInv, OnSession, Clean, TypeOK, OwnInv
  <1>6. OneHolder'
    BY DEF OneHolder
  <1> QED BY <1>1, <1>2, <1>3, <1>4, <1>5, <1>6

\* The server terminates a session under its client.
LEMMA TerminateKeeps ==
  ASSUME LockInv, NEW s \in Sessions, Terminate(s)
  PROVE  LockInv'
  <1> USE DEF LockInv, Terminate, Goto, SetConn, locker, server, CallerPool, ClearServer
  <1>1. TypeOK'
    BY DEF TypeOK, ConnStates
  <1>2. OwnInv'
    BY DEF OwnInv, InHand
  <1>3. LockerInv'
    BY DEF LockerInv, LockerRemembersHolder, Inside
  <1>4. IdleInv'
    <2>1. Clean(s)'
      BY DEF Clean
    <2>2. \A t \in Sessions : t # s => conn'[t] = conn[t] /\ (Clean(t) => Clean(t)')
      BY DEF Clean, TypeOK
    <2>3. \A d \in Callers : pc[d] = "work" => work[d] \in Sessions
      BY DEF TypeOK, OwnInv
    <2> QED BY <2>1, <2>2, <2>3 DEF IdleInv
  <1>5. SessionInv'
    BY DEF SessionInv, OnSession, Clean, TypeOK, OwnInv
  <1>6. OneHolder'
    BY DEF OneHolder
  <1> QED BY <1>1, <1>2, <1>3, <1>4, <1>5, <1>6

\* A process dies and leaves its sessions to the server.
LEMMA CrashKeeps ==
  ASSUME LockInv, NEW p \in Pools, Crash(p)
  PROVE  LockInv'
  <1> USE DEF LockInv, Crash, Goto, SetConn, locker, server, CallerPool
  <1>1. TypeOK'
    BY DEF TypeOK, PCs, ConnStates
  <1>2. OwnInv'
    BY DEF OwnInv, InHand, Dedicated, PCs, TypeOK, ConnStates
  <1>3. LockerInv'
    BY
    DEF LockerInv, LockerRemembersHolder, Inside, Acquiring, TypeOK, PCs, ConnStates,
        OwnInv, InHand, Dedicated
  <1>4. IdleInv'
    BY DEF IdleInv, Clean, TypeOK, PCs, ConnStates, OwnInv, InHand, Dedicated
  <1>5. SessionInv'
    BY
    DEF SessionInv, OnSession, Clean, Dedicated, Entered, PCs, InHand, TypeOK, ConnStates,
        OwnInv
  <1>6. OneHolder'
    BY DEF OneHolder, TypeOK, PCs, ConnStates, SessionInv, OnSession, Dedicated
  <1> QED BY <1>1, <1>2, <1>3, <1>4, <1>5, <1>6

\* Every step keeps the invariant.
LEMMA NextKeeps == LockInv /\ [Next]_vars => LockInv'
  <1> SUFFICES ASSUME LockInv, [Next]_vars PROVE LockInv'
    OBVIOUS
  <1>1. ASSUME NEW c \in Callers, NEW s \in Sessions, GetConn(c, s) \/ GetWorkConn(c, s)
        PROVE  LockInv'
    BY <1>1, GetConnKeeps, GetWorkConnKeeps
  <1>2. ASSUME NEW c \in Callers, Step(c)
        PROVE  LockInv'
    BY <1>2, RequestLockKeeps, LockReplyKeeps, ConnLostKeeps, CommitKeeps, RollbackKeeps,
       ReleaseAllAndCloseKeeps, ReleaseLockKeeps DEF Step
  <1>3. ASSUME NEW c \in Callers,
               EnterAcquireLock(c) \/ EndWork(c) \/ GiveUpConn(c) \/ Cancel(c) \/ GiveUpWork(c)
        PROVE  LockInv'
    BY <1>3, EnterAcquireLockKeeps, EndWorkKeeps, GiveUpConnKeeps, CancelKeeps, GiveUpWorkKeeps
  <1>4. ASSUME NEW s \in Sessions, Grant(s) \/ AbortWait(s) \/ EndSession(s) \/ Terminate(s)
        PROVE  LockInv'
    BY <1>4, GrantKeeps, AbortWaitKeeps, EndSessionKeeps, TerminateKeeps
  <1>5. ASSUME NEW p \in Pools, Crash(p) PROVE LockInv'
    BY <1>5, CrashKeeps
  <1>6. CASE UNCHANGED vars
    BY <1>6 DEF vars, locker, server, LockInv, TypeOK, OwnInv, InHand, LockerInv,
       LockerRemembersHolder, Inside, IdleInv, Clean, SessionInv, OnSession, OneHolder
  <1> QED BY <1>1, <1>2, <1>3, <1>4, <1>5, <1>6 DEF Next, Borrow

\* The invariant holds in every state of every behaviour.
THEOREM LockInvariant == Spec => []LockInv
  BY LockInit, NextKeeps, PTL DEF Spec

\* The state keeps its shape; in particular PostgreSQL's count of the lock never
\* falls below zero.
THEOREM LockTypeCorrect == Spec => []TypeOK
  BY LockInvariant, PTL DEF LockInv

(***************************************************************************)
(* A session that is idle in the pool has nothing of a migration on it: no *)
(* lock, no request, no open transaction and no lock_timeout. lockOnConn,  *)
(* releaseAllAndClose and ReleaseLock drop a connection rather than return *)
(* one they could not scrub, whichever reply was lost.                     *)
(***************************************************************************)
THEOREM PooledClean == Spec => []PooledSessionsClean
  <1>1. LockInv => PooledSessionsClean
    BY DEF LockInv, IdleInv, Clean, PooledSessionsClean
  <1> QED BY <1>1, LockInvariant, PTL

(***************************************************************************)
(* A caller between the return of AcquireLock and ReleaseLock has the      *)
(* advisory lock on its dedicated connection, taken once, as long as that  *)
(* session lives.                                                          *)
(***************************************************************************)
THEOREM InsideHolds == Spec => []InsideHoldsLock
  <1>1. LockInv => InsideHoldsLock
    BY
    DEF LockInv, SessionInv, OnSession, Inside, Entered, Dedicated, PCs, InsideHoldsLock
  <1> QED BY <1>1, LockInvariant, PTL

(***************************************************************************)
(* The locker of a caller inside is marked acquired and has the connection *)
(* the caller locked, so its ReleaseLock neither fails with                *)
(* ErrLockNotAcquired nor unlocks another session, also when callers share *)
(* a locker.                                                               *)
(***************************************************************************)
THEOREM LockerRemembers == Spec => []LockerRemembersHolder
  <1>1. LockInv => LockerRemembersHolder
    BY DEF LockInv, LockerInv
  <1> QED BY <1>1, LockInvariant, PTL

(***************************************************************************)
(* No session keeps the lock with nobody to release it: it is held by a    *)
(* caller's own connection, or by a session that is going to end because   *)
(* its client is gone.                                                     *)
(***************************************************************************)
THEOREM NothingStranded == Spec => []NoStrandedLock
  <1>1. ASSUME LockInv, NEW s \in Sessions, holds[s] > 0, conn[s] # "orphan"
        PROVE  \E c \in Callers : own[c] = s /\ pc[c] # "idle"
    <2>1. ~Clean(s) /\ InHand(s)
      BY <1>1 DEF LockInv, TypeOK, ConnStates, IdleInv, Clean, InHand
    <2>2. PICK c \in Callers : own[c] = s \/ work[c] = s
      BY <1>1, <2>1 DEF LockInv, OwnInv
    <2>3. work[c] # s
      BY <1>1, <2>1 DEF LockInv, OwnInv, IdleInv
    <2> QED BY <1>1, <2>2, <2>3 DEF LockInv, OwnInv, Dedicated
  <1>2. LockInv => NoStrandedLock
    BY <1>1 DEF NoStrandedLock
  <1> QED BY <1>2, LockInvariant, PTL
-----------------------------------------------------------------------------
\* The callers inside whose session is good: what the mutex is about.
GoodInside == {c \in Inside : conn[own[c]] = "used"}

\* There is at most one of them, because each holds the lock on a session of its own.
AtMostOneInside == \A c, d \in GoodInside : c = d

\* Two callers inside on good sessions would hold one lock twice.
LEMMA OneInside == LockInv => AtMostOneInside
  <1> SUFFICES ASSUME LockInv, NEW c \in GoodInside, NEW d \in GoodInside PROVE c = d
    BY DEF AtMostOneInside
  <1>1. \A e \in GoodInside : e \in Callers /\ own[e] \in Sessions /\ holds[own[e]] = 1
    BY DEF GoodInside, Inside, LockInv, TypeOK, OwnInv, SessionInv, OnSession, Entered,
       Dedicated, PCs
  <1>2. own[c] = own[d]
    BY <1>1 DEF LockInv, OneHolder
  <1> QED BY <1>1, <1>2 DEF LockInv, OwnInv

\* Only the COMMIT of AcquireLock lets a caller in.
LEMMA OnlyCommitEnters ==
  ASSUME LockInv, [Next]_vars, ~\E c \in Callers : Commit(c)
  PROVE  GoodInside' \subseteq GoodInside
  <1> USE DEF LockInv, TypeOK, OwnInv, InHand, GoodInside, Inside, Dedicated, PCs,
      Goto, SetConn, locker, server
  <1> SUFFICES ASSUME NEW d \in GoodInside' PROVE d \in GoodInside
    OBVIOUS
  <1>1. ASSUME NEW c \in Callers, NEW s \in Sessions, GetConn(c, s) \/ GetWorkConn(c, s)
        PROVE  d \in GoodInside
    BY <1>1 DEF GetConn, GetWorkConn, Available
  <1>2. ASSUME NEW c \in Callers, RequestLock(c) \/ LockReply(c) \/ ConnLost(c) \/ Rollback(c)
        PROVE  d \in GoodInside
    BY <1>2 DEF RequestLock, LockReply, ConnLost, Rollback
  <1>3. ASSUME NEW c \in Callers, ReleaseAllAndClose(c)
        PROVE  d \in GoodInside
    BY <1>3 DEF ReleaseAllAndClose
  <1>4. ASSUME NEW c \in Callers, ReleaseLock(c)
        PROVE  d \in GoodInside
    BY <1>4 DEF ReleaseLock
  <1>5. ASSUME NEW c \in Callers,
               EnterAcquireLock(c) \/ EndWork(c) \/ GiveUpConn(c) \/ Cancel(c) \/ GiveUpWork(c)
        PROVE  d \in GoodInside
    BY <1>5 DEF EnterAcquireLock, EndWork, GiveUpConn, Cancel, GiveUpWork
  <1>6. ASSUME NEW s \in Sessions, Grant(s) \/ AbortWait(s) \/ EndSession(s) \/ Terminate(s)
        PROVE  d \in GoodInside
    BY <1>6 DEF Grant, AbortWait, EndSession, Terminate
  <1>7. ASSUME NEW p \in Pools, Crash(p)
        PROVE  d \in GoodInside
    BY <1>7 DEF Crash, CallerPool
  <1>8. CASE UNCHANGED vars
    BY <1>8 DEF vars
  <1> QED BY <1>1, <1>2, <1>3, <1>4, <1>5, <1>6, <1>7, <1>8 DEF Next, Borrow, Step

\* A COMMIT lets in its own caller.
LEMMA CommitEnters ==
  ASSUME LockInv, NEW c \in Callers, Commit(c)
  PROVE  c \notin GoodInside /\ GoodInside' = GoodInside \cup {c}
  BY DEF LockInv, TypeOK, GoodInside, Inside, Commit, Goto

\* A step of the lock is a step of the mutex, or none.
LEMMA MutexStep == LockInv /\ [Next]_vars => [Mutex!Next]_GoodInside
  <1> SUFFICES ASSUME LockInv, [Next]_vars PROVE [Mutex!Next]_GoodInside
    OBVIOUS
  <1>1. LockInv'
    BY NextKeeps
  <1>2. GoodInside \subseteq Callers
    BY DEF GoodInside, Inside
  <1>3. CASE \E c \in Callers : Commit(c)
    <2>1. PICK c \in Callers : Commit(c)
      BY <1>3
    <2>2. c \notin GoodInside /\ GoodInside' = GoodInside \cup {c}
      BY <2>1, CommitEnters
    <2>3. AtMostOneInside'
      BY <1>1, OneInside, PTL
    <2>4. GoodInside = {} /\ GoodInside' = {c}
      BY <2>2, <2>3 DEF AtMostOneInside
    <2> QED BY <2>4 DEF Mutex!Next, Mutex!Enter, GoodInside
  <1>4. CASE ~\E c \in Callers : Commit(c)
    <2>1. GoodInside' \subseteq GoodInside
      BY <1>4, OnlyCommitEnters
    <2>2. CASE GoodInside' # GoodInside
      <3>1. PICK c \in GoodInside : c \notin GoodInside'
        BY <2>1, <2>2
      <3>2. GoodInside = {c} /\ GoodInside' = {}
        BY <2>1, <3>1, OneInside DEF AtMostOneInside
      <3> QED BY <1>2, <3>2 DEF Mutex!Next, Mutex!Leave, GoodInside
    <2> QED BY <2>2
  <1> QED BY <1>3, <1>4

(***************************************************************************)
(* The advisory lock on pooled sessions implements the mutex that Migrator *)
(* rests on: every step of the lock lets one caller in or out, or is none  *)
(* of the mutex's business, and nobody gets in while another is inside on  *)
(* a session that lives.                                                   *)
(***************************************************************************)
THEOREM LockImplementsMutex == Spec => ImplementsMutex
  <1>1. Init => Mutex!Init
    BY DEF Init, Mutex!Init, Inside
  <1>2. LockInv /\ [Next]_vars => [Mutex!Next]_{c \in Inside : conn[own[c]] = "used"}
    BY MutexStep DEF GoodInside
  <1> QED BY <1>1, <1>2, LockInvariant, PTL DEF Spec, ImplementsMutex, Mutex!Spec
=============================================================================
