--------------------------- MODULE MigrationFiles ---------------------------
(***************************************************************************)
(* The `new` command (cmd/pg-migrate/new.go): processes that scaffold      *)
(* up/down pairs in one directory, each with a timestamp no file there has.*)
(* One step per system call, so that two of them can race, and fail or die *)
(* between two calls.                                                      *)
(*                                                                         *)
(* Timestamps are seconds since some start; a file name is a timestamp, a  *)
(* slug and a half.  Of a file's text only what was written of it matters. *)
(***************************************************************************)
EXTENDS Naturals, FiniteSets

CONSTANTS
  Processes,     \* invocations of the command, each makes one pair
  Slugs,         \* the names they are given, slugified
  MaxClock,      \* the second at which time stops
  Failures,      \* the system calls that may fail
  MayCrash       \* whether a process may die

Halves == {"up", "down"}
Calls == {"read", "create", "write", "remove"}

ASSUME FailuresAssumption == Failures \subseteq Calls
ASSUME BoundsAssumption == MaxClock \in Nat /\ IsFiniteSet(Processes) /\ Processes # {}
ASSUME MayCrashAssumption == MayCrash \in BOOLEAN

\* From its second on, a process passes at most one timestamp of every other.
Stamps == 0 .. MaxClock + Cardinality(Processes) - 1

VARIABLES
  clock,         \* the time, in seconds
  files,         \* for each file of the directory, its text and its creator
  pc,            \* where each process is
  now,           \* the second in which it began
  id,            \* the migration it makes: timestamp and slug
  earlier        \* the processes that had succeeded when it began

vars == <<clock, files, pc, now, id, earlier>>

PCs == {"start", "readDir", "createUp", "writeUp", "createDown", "writeDown", "removeUp",
        "ok", "failed", "stuck", "dead"}
Running == PCs \ {"start", "ok", "failed", "stuck", "dead"}

Init ==
  /\ clock = 0
  /\ files = [n \in {} |-> n]
  /\ pc = [p \in Processes |-> "start"]
  /\ now = [p \in Processes |-> 0]
  /\ id \in [Processes -> [stamp : {0}, slug : Slugs]]
  /\ earlier = [p \in Processes |-> {}]

Goto(p, where) == pc' = [pc EXCEPT ![p] = where]

Name(p, half) == [stamp |-> id[p].stamp, slug |-> id[p].slug, half |-> half]

Put(n, text, p) ==
  files' = [m \in DOMAIN files \cup {n} |-> IF m = n THEN [text |-> text, by |-> p] ELSE files[m]]

Tick ==
  /\ clock < MaxClock
  /\ clock' = clock + 1
  /\ UNCHANGED <<files, pc, now, id, earlier>>
-----------------------------------------------------------------------------
\* The command has its directory and its slug and takes the time.
Start(p) ==
  /\ pc[p] = "start"
  /\ Goto(p, "readDir")
  /\ now' = [now EXCEPT ![p] = clock]
  /\ earlier' = [earlier EXCEPT ![p] = {q \in Processes : pc[q] = "ok"}]
  /\ UNCHANGED <<clock, files, id>>

Taken == {n.stamp : n \in DOMAIN files}

\* The time as it is, without a look at the directory.
TimestampNow(p) ==
  /\ pc[p] = "readDir"
  /\ id' = [id EXCEPT ![p].stamp = now[p]]
  /\ Goto(p, "createUp")
  /\ UNCHANGED <<clock, files, now, earlier>>

(***************************************************************************)
(* availableTimestamp: the first second from now on that no file's name    *)
(* begins with.  Nothing has been written when the directory cannot be     *)
(* read, or cannot be made.                                                *)
(***************************************************************************)
AvailableTimestamp(p) ==
  /\ pc[p] = "readDir"
  /\ \/ /\ \E s \in Stamps \ Taken :
             /\ s >= now[p] /\ \A t \in Stamps : now[p] <= t /\ t < s => t \in Taken
             /\ id' = [id EXCEPT ![p].stamp = s]
        /\ Goto(p, "createUp")
     \/ "read" \in Failures /\ Goto(p, "failed") /\ UNCHANGED id
  /\ UNCHANGED <<clock, files, now, earlier>>

\* An open that truncates what is there.
OpenAnyway(p, half, next, onError) ==
  /\ \/ Put(Name(p, half), "empty", p) /\ Goto(p, next)
     \/ "create" \in Failures /\ Goto(p, onError) /\ UNCHANGED files
  /\ UNCHANGED <<clock, now, id, earlier>>

\* writeNewFile's open, with O_EXCL: it makes a file, or fails.
OpenNew(p, half, next, onError) ==
  /\ \/ Name(p, half) \notin DOMAIN files /\ Put(Name(p, half), "empty", p) /\ Goto(p, next)
     \/ Name(p, half) \in DOMAIN files /\ Goto(p, onError) /\ UNCHANGED files
     \/ "create" \in Failures /\ Goto(p, onError) /\ UNCHANGED files
  /\ UNCHANGED <<clock, now, id, earlier>>

\* WriteString with its error dropped.
WriteTextAnyhow(p, half, next, onError) ==
  /\ \/ Put(Name(p, half), "whole", p)
     \/ "write" \in Failures /\ \E text \in {"empty", "torn"} : Put(Name(p, half), text, p)
  /\ Goto(p, next)
  /\ UNCHANGED <<clock, now, id, earlier>>

\* WriteString: the whole text, or some of it or none and an error.
WriteText(p, half, next, onError) ==
  /\ \/ Put(Name(p, half), "whole", p) /\ Goto(p, next)
     \/ /\ "write" \in Failures
        /\ \E text \in {"empty", "torn"} : Put(Name(p, half), text, p)
        /\ Goto(p, onError)
  /\ UNCHANGED <<clock, now, id, earlier>>

CreateUp(p) == pc[p] = "createUp" /\ OpenNew(p, "up", "writeUp", "failed")
WriteUp(p) == pc[p] = "writeUp" /\ WriteText(p, "up", "createDown", "failed")

\* A second file that cannot be created leaves the first where it is.
CreateDownNoRemove(p) == pc[p] = "createDown" /\ OpenNew(p, "down", "writeDown", "failed")

CreateDown(p) == pc[p] = "createDown" /\ OpenNew(p, "down", "writeDown", "removeUp")
WriteDown(p) == pc[p] = "writeDown" /\ WriteText(p, "down", "ok", "removeUp")

\* writeMigrationPair's os.Remove of the first file; its error is dropped, and the
\* invocation is stuck with the file.
RemoveUp(p) ==
  /\ pc[p] = "removeUp"
  /\ \/ files' = [n \in DOMAIN files \ {Name(p, "up")} |-> files[n]] /\ Goto(p, "failed")
     \/ "remove" \in Failures /\ Goto(p, "stuck") /\ UNCHANGED files
  /\ UNCHANGED <<clock, now, id, earlier>>

Crash(p) ==
  /\ MayCrash /\ pc[p] \in Running
  /\ Goto(p, "dead")
  /\ UNCHANGED <<clock, files, now, id, earlier>>

Next ==
  \/ Tick
  \/ \E p \in Processes :
       \/ Start(p) \/ AvailableTimestamp(p) \/ CreateUp(p) \/ WriteUp(p)
       \/ CreateDown(p) \/ WriteDown(p) \/ RemoveUp(p) \/ Crash(p)

Spec == Init /\ [][Next]_vars
-----------------------------------------------------------------------------
(***************************************************************************)
(* Properties.                                                             *)
(***************************************************************************)

(***************************************************************************)
(* A pair the command reported is there, both halves, as it wrote them,    *)
(* whatever other invocations do, fail to do or clean up after themselves. *)
(***************************************************************************)
ReportedPairStays ==
  \A p \in Processes : pc[p] = "ok" =>
    \A h \in Halves : Name(p, h) \in DOMAIN files /\ files[Name(p, h)] = [text |-> "whole", by |-> p]

(***************************************************************************)
(* No invocation touches a file that another one created: a file changes   *)
(* or disappears only in a step of its creator.                            *)
(***************************************************************************)
NewNeverClobbers ==
  [][ \A n \in DOMAIN files :
        n \notin DOMAIN files' \/ files'[n] # files[n] =>
          LET p == files[n].by IN pc[p] \in Running /\ pc'[p] # pc[p] ]_vars

(***************************************************************************)
(* "If the second file cannot be created the first is removed again: a     *)
(* lone .up.sql is rejected by the loader, so leaving one behind would     *)
(* break every later command."  An invocation that reports an error leaves *)
(* no script behind that it wrote to the end and that has no other half,   *)
(* whatever calls failed, unless os.Remove failed as well.                 *)
(***************************************************************************)
FailureLeavesNoHalf ==
  \A p \in Processes : pc[p] = "failed" =>
    \A n \in DOMAIN files : files[n].by = p /\ files[n].text = "whole" =>
      \A h \in Halves : [n EXCEPT !.half = h] \in DOMAIN files

\* The same of every file it created, written to the end or not.
FailureLeavesNoFile ==
  \A p \in Processes : pc[p] = "failed" =>
    \A n \in DOMAIN files : files[n].by = p =>
      \A h \in Halves : [n EXCEPT !.half = h] \in DOMAIN files

(***************************************************************************)
(* Migrations sort in the order in which they were written: when one       *)
(* invocation had succeeded before another began, its timestamp is the     *)
(* smaller one, also when both fell into one second or when timestamps     *)
(* have run ahead of the clock.  The exception is a second that a third    *)
(* invocation took, failed with and left free again.                       *)
(***************************************************************************)
LaterSortsLater ==
  \A p, q \in Processes : p \in earlier[q] /\ pc[q] = "ok" =>
    \/ id[p].stamp < id[q].stamp
    \/ \E r \in Processes : pc[r] = "failed" /\ id[r].stamp = id[q].stamp

(***************************************************************************)
(* "Two people cannot collide unless they run `new` in the same second":   *)
(* pairs made in different seconds have different timestamps.              *)
(***************************************************************************)
SecondsApartNeverCollide ==
  \A p, q \in Processes :
    pc[p] = "ok" /\ pc[q] = "ok" /\ now[p] # now[q] => id[p].stamp # id[q].stamp
=============================================================================
