------------------------ MODULE MigrationFilesProofs ------------------------
(***************************************************************************)
(* The `new` command, for any number of invocations, whatever calls fail   *)
(* and whoever dies: a reported pair stays, nobody touches a file of       *)
(* another invocation, and migrations sort as they were written.           *)
(***************************************************************************)
EXTENDS MigrationFiles, FiniteSetTheorems, TLAPS

Texts == {"empty", "torn", "whole"}
Names == [stamp : Nat, slug : Slugs, half : Halves]

\* The shape of the state.
TypeOK ==
  /\ clock \in 0 .. MaxClock
  /\ DOMAIN files \subseteq Names /\ files \in [DOMAIN files -> [text : Texts, by : Processes]]
  /\ pc \in [Processes -> PCs]
  /\ now \in [Processes -> Nat]
  /\ id \in [Processes -> [stamp : Nat, slug : Slugs]]
  /\ earlier \in [Processes -> SUBSET Processes]

\* p has the file for the half it is said to have, with this text.
Has(p, half, text) ==
  Name(p, half) \in DOMAIN files /\ files[Name(p, half)] = [text |-> text, by |-> p]

\* What an invocation has written is still there.
Hand(p) ==
  /\ pc[p] = "writeUp" => Has(p, "up", "empty")
  /\ pc[p] \in {"createDown", "writeDown", "removeUp", "ok"} => Has(p, "up", "whole")
  /\ pc[p] = "writeDown" => Has(p, "down", "empty")
  /\ pc[p] = "ok" => Has(p, "down", "whole")

\* A file is one its creator has had the time to make, and not yet to finish.
Origin(n) ==
  LET p == files[n].by IN
  /\ n = Name(p, n.half)
  /\ pc[p] \notin {"start", "readDir", "createUp"}
  /\ pc[p] \in {"writeUp", "createDown"} => n.half = "up"
  /\ files[n].text = "whole" => pc[p] # "failed" /\ (pc[p] = "removeUp" => n.half = "up")

\* An invocation that has its timestamp.
Picked == {"createUp", "writeUp", "createDown", "writeDown", "removeUp", "ok", "stuck"}

\* A second that an invocation took and failed with.
Abandoned(t) == \E r \in Processes : pc[r] = "failed" /\ id[r].stamp = t

\* What was known of the directory when an invocation began and when it had its
\* timestamp, as far as it is still true.
StampInv ==
  /\ \A p \in Processes : now[p] <= clock
  /\ \A q \in Processes : \A p \in earlier[q] : pc[p] = "ok" /\ now[p] <= now[q]
  /\ \A p \in Processes : pc[p] \in Picked =>
       /\ id[p].stamp \in Stamps /\ now[p] <= id[p].stamp
       /\ \A t \in Stamps : now[p] <= t /\ t < id[p].stamp => t \in Taken \/ Abandoned(t)
  /\ \A q \in Processes : pc[q] \in Picked =>
       \A p \in earlier[q] : id[p].stamp < id[q].stamp \/ Abandoned(id[q].stamp)

FilesInv ==
  /\ TypeOK
  /\ \A p \in Processes : Hand(p)
  /\ \A n \in DOMAIN files : Origin(n)
  /\ StampInv
-----------------------------------------------------------------------------
USE BoundsAssumption, MayCrashAssumption

\* Timestamps are natural numbers.
LEMMA StampsAreNats == Stamps \subseteq Nat
  <1>1. Cardinality(Processes) \in Nat \ {0}
    BY FS_CardinalityType, FS_EmptySet
  <1> QED BY <1>1 DEF Stamps

\* The initial states, with no file, satisfy the invariant.
LEMMA FilesInit == Init => FilesInv
  <1> SUFFICES ASSUME Init PROVE FilesInv
    OBVIOUS
  <1> USE DEF Init
  <1>1. TypeOK
    BY DEF TypeOK, PCs
  <1>2. (\A p \in Processes : Hand(p)) /\ (\A n \in DOMAIN files : Origin(n))
    BY DEF Hand, Origin
  <1>3. StampInv
    BY DEF StampInv, Picked
  <1> QED BY <1>1, <1>2, <1>3 DEF FilesInv

\* A name is told from another by its parts.
LEMMA NameType ==
  ASSUME TypeOK, NEW p \in Processes, NEW half \in Halves
  PROVE  /\ Name(p, half) \in Names
         /\ Name(p, half).half = half /\ Name(p, half).stamp = id[p].stamp
  BY DEF TypeOK, Name, Names

\* A step of p that creates, writes, removes or leaves alone its file for a half,
\* which it may do to a file it has, or to one that nobody has.
Touches(p, half) ==
  LET n == Name(p, half) IN
  /\ UNCHANGED <<clock, now, id, earlier>>
  /\ \E where \in PCs : pc[p] # where /\ Goto(p, where)
  /\ n \in DOMAIN files => files[n].by = p
  /\ \A m : m # n => /\ m \in DOMAIN files' <=> m \in DOMAIN files
                     /\ m \in DOMAIN files => files'[m] = files[m]

\* A write of a file, seen from outside.
LEMMA PutFile ==
  ASSUME TypeOK, NEW n \in Names, NEW text \in Texts, NEW p \in Processes, Put(n, text, p)
  PROVE  /\ DOMAIN files' = DOMAIN files \cup {n}
         /\ files' \in [DOMAIN files' -> [text : Texts, by : Processes]]
         /\ files'[n] = [text |-> text, by |-> p]
         /\ \A m \in DOMAIN files : m # n => files'[m] = files[m]
  BY DEF Put, TypeOK

\* Such a step leaves every other invocation what it has.
LEMMA OthersKeep ==
  ASSUME FilesInv, NEW p \in Processes, NEW half \in Halves, Touches(p, half)
  PROVE  /\ \A q \in Processes \ {p} : Hand(q)'
         /\ \A m \in DOMAIN files :
              m \in DOMAIN files' /\ m # Name(p, half) /\ files[m].by # p => Origin(m)'
  <1>1. /\ \A q \in Processes : q # p => pc'[q] = pc[q]
        /\ \A q, h : Name(q, h)' = Name(q, h)
    BY DEF FilesInv, TypeOK, Touches, Goto, Name
  <1>2. ASSUME NEW q \in Processes, q # p, NEW h, NEW text, Has(q, h, text)
        PROVE  Has(q, h, text)'
    BY <1>1, <1>2 DEF Has, Touches
  <1>3. \A q \in Processes \ {p} : Hand(q)'
    BY <1>1, <1>2 DEF FilesInv, Hand
  <1>4. ASSUME NEW m \in DOMAIN files, m \in DOMAIN files', m # Name(p, half), files[m].by # p
        PROVE  Origin(m)'
    <2>1. files'[m] = files[m] /\ files[m].by \in Processes
      BY <1>4 DEF Touches, FilesInv, TypeOK
    <2> QED BY <1>1, <1>4, <2>1 DEF Origin, FilesInv
  <1> QED BY <1>3, <1>4

\* The timestamps of the others fit the directory as long as p gives up its own
\* only by failing.
LEMMA StampsKeep ==
  ASSUME FilesInv, NEW p \in Processes, UNCHANGED <<clock, now, id, earlier>>,
         NEW where \in PCs, Goto(p, where), pc[p] \notin {"ok", "failed"},
         where \in Picked => pc[p] \in Picked,
         \A t \in Stamps : t \in Taken => t \in Taken' \/ Abandoned(t)'
  PROVE  StampInv'
  <1>1. \A q \in Processes : /\ pc'[q] \in Picked => pc[q] \in Picked
                             /\ pc[q] \in {"ok", "failed"} => pc'[q] = pc[q]
    BY DEF FilesInv, TypeOK, Goto
  <1>2. \A t : Abandoned(t) => Abandoned(t)'
    BY <1>1 DEF Abandoned
  <1>3. \A q \in Processes : earlier[q] \subseteq Processes
    BY DEF FilesInv, TypeOK
  <1>4. \A q \in Processes : \A r \in earlier'[q] : pc'[r] = "ok" /\ now'[r] <= now'[q]
    BY <1>1, <1>3 DEF FilesInv, StampInv
  <1>5. \A q \in Processes : pc'[q] \in Picked =>
          \A t \in Stamps : now'[q] <= t /\ t < id'[q].stamp => t \in Taken' \/ Abandoned(t)'
    BY <1>1, <1>2 DEF FilesInv, StampInv
  <1>6. \A q \in Processes : pc'[q] \in Picked =>
          \A r \in earlier'[q] : id'[r].stamp < id'[q].stamp \/ Abandoned(id[q].stamp)'
    BY <1>1, <1>2 DEF FilesInv, StampInv
  <1> QED BY <1>1, <1>4, <1>5, <1>6 DEF FilesInv, StampInv

\* The clock moves.
LEMMA TickKeeps ==
  ASSUME FilesInv, Tick
  PROVE  FilesInv'
  <1> USE DEF FilesInv, TypeOK, Tick
  <1>1. TypeOK'
    OBVIOUS
  <1>2. (\A p \in Processes : Hand(p)') /\ (\A n \in DOMAIN files' : Origin(n)')
    BY DEF Hand, Has, Name, Origin
  <1>3. StampInv'
    BY DEF StampInv, Taken, Abandoned
  <1> QED BY <1>1, <1>2, <1>3

\* An invocation begins: the ones that had succeeded began no later.
LEMMA StartKeeps ==
  ASSUME FilesInv, NEW p \in Processes, Start(p)
  PROVE  FilesInv'
  <1> USE DEF FilesInv, TypeOK, PCs, Start, Goto
  <1>1. TypeOK'
    OBVIOUS
  <1>2. \A q \in Processes : Hand(q)'
    BY DEF Hand, Has, Name
  <1>3. \A n \in DOMAIN files' : Origin(n)'
    BY DEF Origin, Name
  <1>4. StampInv'
    BY DEF StampInv, Picked, Taken, Abandoned
  <1> QED BY <1>1, <1>2, <1>3, <1>4

\* The first free second: every second before it is taken, so the pairs that were
\* there when the invocation began come before it, or it fell into a gap that a
\* failed invocation left.
LEMMA AvailableTimestampKeeps ==
  ASSUME FilesInv, NEW p \in Processes, AvailableTimestamp(p)
  PROVE  FilesInv'
  <1>1. CASE Goto(p, "failed") /\ UNCHANGED <<clock, files, now, id, earlier>>
    <2> USE DEF FilesInv, TypeOK, PCs, Goto, AvailableTimestamp
    <2>1. TypeOK'
      BY <1>1
    <2>2. \A q \in Processes : Hand(q)'
      BY <1>1 DEF Hand, Has, Name
    <2>3. \A n \in DOMAIN files' : Origin(n)'
      BY <1>1 DEF Origin, Name
    <2>4. StampInv'
      BY <1>1, StampsKeep DEF Taken, Picked
    <2> QED BY <2>1, <2>2, <2>3, <2>4
  <1>2. ASSUME NEW s \in Stamps, s \notin Taken, s >= now[p],
               \A t \in Stamps : now[p] <= t /\ t < s => t \in Taken,
               id' = [id EXCEPT ![p].stamp = s], Goto(p, "createUp"), pc[p] = "readDir",
               UNCHANGED <<clock, files, now, earlier>>
        PROVE  FilesInv'
    <2> USE DEF FilesInv
    <2>1. s \in Nat
      BY StampsAreNats
    <2>2. TypeOK'
      BY <1>2, <2>1 DEF TypeOK, Goto, PCs
    <2>3. /\ pc' = [pc EXCEPT ![p] = "createUp"] /\ id'[p].stamp = s
          /\ \A q \in Processes : q # p => id'[q] = id[q] /\ pc'[q] = pc[q]
      BY <1>2 DEF TypeOK, Goto
    <2>4. \A q \in Processes : Hand(q)'
      BY <1>2, <2>3 DEF TypeOK, Hand, Has, Name
    <2>5. \A n \in DOMAIN files' : Origin(n)'
      BY <1>2, <2>3 DEF TypeOK, Origin, Name
    <2>6. Taken' = Taken /\ \A t : Abandoned(t)' <=> Abandoned(t)
      BY <1>2, <2>3 DEF TypeOK, Taken, Abandoned
    <2>7. \A q \in Processes : pc[q] = "ok" => id[q].stamp \in Taken
      <3> SUFFICES ASSUME NEW q \in Processes, pc[q] = "ok" PROVE id[q].stamp \in Taken
        OBVIOUS
      <3>1. Name(q, "up") \in DOMAIN files /\ Name(q, "up").stamp = id[q].stamp
        BY DEF Hand, Has, Name
      <3> QED BY <3>1 DEF Taken
    <2>8. ASSUME NEW r \in earlier[p] PROVE id[r].stamp < s \/ Abandoned(s)
      <3>1. r \in Processes /\ pc[r] = "ok" /\ now[r] <= now[p] /\ now[r] \in Nat /\ now[p] \in Nat
        BY DEF StampInv, TypeOK
      <3>2. id[r].stamp # s /\ id[r].stamp \in Nat
        BY <1>2, <2>7, <3>1 DEF TypeOK
      <3>3. ASSUME s < id[r].stamp PROVE Abandoned(s)
        <4>1. now[r] <= s
          BY <1>2, <2>1, <3>1
        <4> QED BY <1>2, <3>1, <3>3, <4>1 DEF StampInv, Picked
      <3> QED BY <2>1, <3>2, <3>3
    <2>9. StampInv'
      <3>1. \A q \in Processes : now'[q] <= clock'
        BY <1>2 DEF StampInv
      <3>2. \A q \in Processes : \A r \in earlier'[q] :
              r # p /\ r \in Processes /\ pc'[r] = "ok" /\ now'[r] <= now'[q]
        BY <1>2, <2>3 DEF StampInv, TypeOK
      <3>3. \A q \in Processes : pc'[q] \in Picked =>
              /\ id'[q].stamp \in Stamps /\ now'[q] <= id'[q].stamp
              /\ \A t \in Stamps : now'[q] <= t /\ t < id'[q].stamp => t \in Taken' \/ Abandoned(t)'
        BY <1>2, <2>1, <2>3, <2>6 DEF StampInv, TypeOK
      <3>4. \A q \in Processes : pc'[q] \in Picked =>
              \A r \in earlier'[q] : id'[r].stamp < id'[q].stamp \/ Abandoned(id[q].stamp)'
        <4> SUFFICES ASSUME NEW q \in Processes, pc'[q] \in Picked, NEW r \in earlier'[q]
                     PROVE  id'[r].stamp < id'[q].stamp \/ Abandoned(id[q].stamp)'
          OBVIOUS
        <4>1. id'[r] = id[r] /\ r \in earlier[q]
          BY <1>2, <2>3, <3>2
        <4>2. CASE q = p
          BY <2>3, <2>6, <2>8, <4>1, <4>2
        <4>3. CASE q # p
          BY <2>3, <2>6, <4>1, <4>3 DEF StampInv
        <4> QED BY <4>2, <4>3
      <3> QED BY <3>1, <3>2, <3>3, <3>4 DEF StampInv
    <2> QED BY <2>2, <2>4, <2>5, <2>9
  <1> QED BY <1>1, <1>2 DEF AvailableTimestamp

\* Stamps stay taken as long as no file goes away.
LEMMA TakenGrows ==
  ASSUME DOMAIN files \subseteq DOMAIN files'
  PROVE  Taken \subseteq Taken'
  BY DEF Taken

\* O_EXCL makes a file that nobody has, or none.
LEMMA OpenNewTouches ==
  ASSUME FilesInv, NEW p \in Processes, NEW half \in Halves, NEW next \in PCs,
         NEW onError \in PCs, OpenNew(p, half, next, onError),
         pc[p] \notin {next, onError}
  PROVE  /\ \/ /\ Touches(p, half) /\ Goto(p, next) /\ Has(p, half, "empty")'
               /\ Name(p, half) \in DOMAIN files'
            \/ UNCHANGED files /\ Goto(p, onError)
         /\ TypeOK' /\ UNCHANGED <<clock, now, id, earlier>>
         /\ DOMAIN files \subseteq DOMAIN files'
  <1>1. TypeOK /\ Name(p, half) \in Names /\ Name(p, half)' = Name(p, half)
    BY NameType DEF FilesInv, OpenNew, Name
  <1>2. CASE Name(p, half) \notin DOMAIN files /\ Put(Name(p, half), "empty", p) /\ Goto(p, next)
    <2>1. /\ DOMAIN files' = DOMAIN files \cup {Name(p, half)}
          /\ files' \in [DOMAIN files' -> [text : Texts, by : Processes]]
          /\ files'[Name(p, half)] = [text |-> "empty", by |-> p]
          /\ \A m \in DOMAIN files : m # Name(p, half) => files'[m] = files[m]
      BY <1>1, <1>2, PutFile DEF Texts
    <2>2. Touches(p, half) /\ Has(p, half, "empty")'
      BY <1>1, <1>2, <2>1 DEF Touches, Has, OpenNew
    <2>3. TypeOK'
      BY <1>1, <1>2, <2>1 DEF TypeOK, OpenNew, Goto
    <2> QED BY <1>2, <2>1, <2>2, <2>3 DEF OpenNew
  <1>3. CASE UNCHANGED files /\ Goto(p, onError)
    BY <1>1, <1>3 DEF TypeOK, OpenNew, Goto
  <1> QED BY <1>2, <1>3 DEF OpenNew

\* A write replaces the text of a file the invocation has.
LEMMA WriteTextTouches ==
  ASSUME FilesInv, NEW p \in Processes, NEW half \in Halves, NEW next \in PCs,
         NEW onError \in PCs, WriteText(p, half, next, onError),
         pc[p] \notin {next, onError}, Has(p, half, "empty")
  PROVE  /\ Touches(p, half)
         /\ \/ Has(p, half, "whole")' /\ Goto(p, next)
            \/ (Has(p, half, "empty")' \/ Has(p, half, "torn")') /\ Goto(p, onError)
         /\ TypeOK' /\ UNCHANGED <<clock, now, id, earlier>>
         /\ DOMAIN files' = DOMAIN files
  <1>1. TypeOK /\ Name(p, half) \in Names /\ Name(p, half)' = Name(p, half)
    BY NameType DEF FilesInv, WriteText, Name
  <1>2. PICK text \in Texts, where \in {next, onError} :
          /\ Put(Name(p, half), text, p) /\ Goto(p, where)
          /\ \/ text = "whole" /\ where = next
             \/ text \in {"empty", "torn"} /\ where = onError
    BY DEF WriteText, Texts
  <1>3. /\ DOMAIN files' = DOMAIN files
        /\ files' \in [DOMAIN files' -> [text : Texts, by : Processes]]
        /\ files'[Name(p, half)] = [text |-> text, by |-> p]
        /\ \A m \in DOMAIN files : m # Name(p, half) => files'[m] = files[m]
    BY <1>1, <1>2, PutFile DEF Has
  <1>4. Touches(p, half) /\ Has(p, half, text)'
    BY <1>1, <1>2, <1>3 DEF Touches, Has, WriteText
  <1>5. TypeOK'
    BY <1>1, <1>2, <1>3 DEF TypeOK, WriteText, Goto
  <1> QED BY <1>2, <1>3, <1>4, <1>5 DEF WriteText

\* A step that leaves the directory alone and does not fail with a whole file.
LEMMA GiveUpKeeps ==
  ASSUME FilesInv, NEW p \in Processes, NEW where \in {"failed", "removeUp", "stuck", "dead"},
         Goto(p, where), UNCHANGED <<clock, files, now, id, earlier>>,
         pc[p] \in Running, where = "failed" => pc[p] = "createUp",
         where = "removeUp" => pc[p] = "createDown", where = "stuck" => pc[p] = "removeUp"
  PROVE  FilesInv'
  <1> USE DEF FilesInv, TypeOK, PCs, Goto
  <1>1. TypeOK'
    OBVIOUS
  <1>2. \A q \in Processes : Hand(q)'
    BY DEF Hand, Has, Name
  <1>3. \A n \in DOMAIN files' : Origin(n)'
    BY DEF Origin, Name
  <1>4. StampInv'
    BY StampsKeep DEF Taken, Picked, Running
  <1> QED BY <1>1, <1>2, <1>3, <1>4

\* A step that touches a file keeps the invariant if it does so for p itself.
LEMMA TouchKeeps ==
  ASSUME FilesInv, NEW p \in Processes, NEW half \in Halves, Touches(p, half), TypeOK', Hand(p)',
         \A n \in DOMAIN files' :
           n = Name(p, half) \/ (n \in DOMAIN files /\ files[n].by = p) => Origin(n)',
         pc[p] \notin {"ok", "failed"}, pc'[p] \in Picked => pc[p] \in Picked,
         \A t \in Stamps : t \in Taken => t \in Taken' \/ Abandoned(t)'
  PROVE  FilesInv'
  <1>1. \A q \in Processes : Hand(q)'
    BY OthersKeep
  <1>2. \A n \in DOMAIN files' : Origin(n)'
    BY OthersKeep DEF Touches
  <1>3. PICK where \in PCs : Goto(p, where)
    BY DEF Touches
  <1>4. pc'[p] = where
    BY <1>3 DEF FilesInv, TypeOK, Goto
  <1>5. StampInv'
    BY <1>3, <1>4, StampsKeep DEF Touches
  <1> QED BY <1>1, <1>2, <1>5 DEF FilesInv

\* The up file is created, or the invocation fails and has none.
LEMMA CreateUpKeeps ==
  ASSUME FilesInv, NEW p \in Processes, CreateUp(p)
  PROVE  FilesInv'
  <1>1. TypeOK /\ pc[p] = "createUp" /\ "up" \in Halves
    BY DEF FilesInv, CreateUp, Halves
  <1>2. CASE UNCHANGED <<clock, files, now, id, earlier>> /\ Goto(p, "failed")
    BY <1>1, <1>2, GiveUpKeeps DEF Running, PCs
  <1>3. CASE /\ Touches(p, "up") /\ Goto(p, "writeUp") /\ Has(p, "up", "empty")' /\ TypeOK'
             /\ DOMAIN files \subseteq DOMAIN files' /\ UNCHANGED id
    <2>1. pc'[p] = "writeUp" /\ Name(p, "up")' = Name(p, "up") /\ Name(p, "up").half = "up"
      BY <1>1, <1>3 DEF TypeOK, Goto, Name
    <2>2. Hand(p)'
      BY <1>3, <2>1 DEF Hand
    <2>3. Origin(Name(p, "up"))'
      BY <1>3, <2>1 DEF Has, Origin
    <2>4. \A n \in DOMAIN files : files[n].by # p
      BY <1>1 DEF FilesInv, Origin
    <2>5. \A n \in DOMAIN files' : n = Name(p, "up") => Origin(n)'
      BY <2>1, <2>3
    <2> QED BY <1>1, <1>3, <2>1, <2>2, <2>4, <2>5, TouchKeeps, TakenGrows DEF Picked
  <1> QED BY <1>1, <1>2, <1>3, OpenNewTouches DEF CreateUp, PCs, Halves

\* The up file gets its text, or the invocation fails and leaves it torn.
LEMMA WriteUpKeeps ==
  ASSUME FilesInv, NEW p \in Processes, WriteUp(p)
  PROVE  FilesInv'
  <1>1. TypeOK /\ pc[p] = "writeUp" /\ "up" \in Halves /\ Has(p, "up", "empty")
    BY DEF FilesInv, WriteUp, Halves, Hand
  <1>2. /\ Touches(p, "up")
        /\ \/ Has(p, "up", "whole")' /\ Goto(p, "createDown")
           \/ (Has(p, "up", "empty")' \/ Has(p, "up", "torn")') /\ Goto(p, "failed")
        /\ TypeOK' /\ UNCHANGED <<clock, now, id, earlier>>
        /\ DOMAIN files' = DOMAIN files
    BY <1>1, WriteTextTouches DEF WriteUp, PCs
  <1>3. /\ pc'[p] \in {"createDown", "failed"} /\ Name(p, "up")' = Name(p, "up")
        /\ Name(p, "up").half = "up"
        /\ pc'[p] = "createDown" => Has(p, "up", "whole")'
        /\ pc'[p] = "failed" => Has(p, "up", "empty")' \/ Has(p, "up", "torn")'
    BY <1>1, <1>2 DEF TypeOK, Goto, Name
  <1>4. Hand(p)'
    BY <1>3 DEF Hand
  <1>5. \A n \in DOMAIN files' : n = Name(p, "up") => Origin(n)'
    BY <1>3 DEF Has, Origin
  <1>6. \A n \in DOMAIN files : files[n].by = p => n = Name(p, "up")
    BY <1>1 DEF FilesInv, Origin
  <1> QED BY <1>1, <1>2, <1>3, <1>4, <1>5, <1>6, TouchKeeps, TakenGrows DEF Picked

\* The down file is created beside the whole up file, or that one has to go.
LEMMA CreateDownKeeps ==
  ASSUME FilesInv, NEW p \in Processes, CreateDown(p)
  PROVE  FilesInv'
  <1>1. TypeOK /\ pc[p] = "createDown" /\ "down" \in Halves /\ Has(p, "up", "whole")
    BY DEF FilesInv, CreateDown, Halves, Hand
  <1>2. CASE UNCHANGED <<clock, files, now, id, earlier>> /\ Goto(p, "removeUp")
    BY <1>1, <1>2, GiveUpKeeps DEF Running, PCs
  <1>3. CASE /\ Touches(p, "down") /\ Goto(p, "writeDown") /\ Has(p, "down", "empty")' /\ TypeOK'
             /\ DOMAIN files \subseteq DOMAIN files' /\ UNCHANGED id
    <2>1. /\ pc'[p] = "writeDown" /\ \A h : Name(p, h)' = Name(p, h) /\ Name(p, h).half = h
          /\ Name(p, "up") # Name(p, "down")
      BY <1>1, <1>3 DEF TypeOK, Goto, Name
    <2>2. Has(p, "up", "whole")'
      BY <1>1, <1>3, <2>1 DEF Has, Touches
    <2>3. Hand(p)'
      BY <1>3, <2>1, <2>2 DEF Hand
    <2>4. \A n \in DOMAIN files : files[n].by = p => n = Name(p, "up")
      BY <1>1 DEF FilesInv, Origin
    <2>5. \A n \in DOMAIN files' : n \in {Name(p, "up"), Name(p, "down")} => Origin(n)'
      BY <1>3, <2>1, <2>2 DEF Has, Origin
    <2> QED BY <1>1, <1>3, <2>1, <2>3, <2>4, <2>5, TouchKeeps, TakenGrows DEF Picked
  <1> QED BY <1>1, <1>2, <1>3, OpenNewTouches DEF CreateDown, PCs

\* The down file gets its text and the pair is reported, or the up file has to go.
LEMMA WriteDownKeeps ==
  ASSUME FilesInv, NEW p \in Processes, WriteDown(p)
  PROVE  FilesInv'
  <1>1. /\ TypeOK /\ pc[p] = "writeDown" /\ "down" \in Halves
        /\ Has(p, "up", "whole") /\ Has(p, "down", "empty")
    BY DEF FilesInv, WriteDown, Halves, Hand
  <1>2. /\ Touches(p, "down")
        /\ \/ Has(p, "down", "whole")' /\ Goto(p, "ok")
           \/ (Has(p, "down", "empty")' \/ Has(p, "down", "torn")') /\ Goto(p, "removeUp")
        /\ TypeOK' /\ UNCHANGED <<clock, now, id, earlier>>
        /\ DOMAIN files' = DOMAIN files
    BY <1>1, WriteTextTouches DEF WriteDown, PCs
  <1>3. /\ pc'[p] \in {"ok", "removeUp"} /\ \A h : Name(p, h)' = Name(p, h) /\ Name(p, h).half = h
        /\ Name(p, "up") # Name(p, "down")
        /\ pc'[p] = "ok" => Has(p, "down", "whole")'
        /\ pc'[p] = "removeUp" => Has(p, "down", "empty")' \/ Has(p, "down", "torn")'
    BY <1>1, <1>2 DEF TypeOK, Goto, Name
  <1>4. Has(p, "up", "whole")'
    BY <1>1, <1>2, <1>3 DEF Has, Touches
  <1>5. Hand(p)'
    BY <1>3, <1>4 DEF Hand
  <1>6. \A n \in DOMAIN files : files[n].by = p => n \in {Name(p, "up"), Name(p, "down")}
    BY <1>1 DEF FilesInv, TypeOK, Names, Halves, Origin
  <1>7. \A n \in DOMAIN files' : n \in {Name(p, "up"), Name(p, "down")} => Origin(n)'
    BY <1>3, <1>4 DEF Has, Origin
  <1> QED BY <1>1, <1>2, <1>3, <1>5, <1>6, <1>7, TouchKeeps, TakenGrows DEF Picked

\* The up file goes; what is left of the pair is a down file without its text, and
\* the second is free again.
LEMMA RemoveUpKeeps ==
  ASSUME FilesInv, NEW p \in Processes, RemoveUp(p)
  PROVE  FilesInv'
  <1>1. TypeOK /\ pc[p] = "removeUp" /\ "up" \in Halves /\ Has(p, "up", "whole")
    BY DEF FilesInv, RemoveUp, Halves, Hand
  <1>2. CASE UNCHANGED <<clock, files, now, id, earlier>> /\ Goto(p, "stuck")
    BY <1>1, <1>2, GiveUpKeeps DEF Running, PCs
  <1>3. CASE /\ files' = [n \in DOMAIN files \ {Name(p, "up")} |-> files[n]]
             /\ Goto(p, "failed") /\ UNCHANGED <<clock, now, id, earlier>>
    <2>1. pc'[p] = "failed" /\ Name(p, "up")' = Name(p, "up")
      BY <1>1, <1>3 DEF TypeOK, Goto, Name
    <2>2. Touches(p, "up")
      BY <1>1, <1>3 DEF Touches, Has, PCs
    <2>3. TypeOK'
      BY <1>1, <1>3 DEF TypeOK, Goto, PCs
    <2>4. Hand(p)'
      BY <2>1 DEF Hand
    <2>5. ASSUME NEW n \in DOMAIN files', files[n].by = p PROVE Origin(n)'
      <3>1. /\ n \in DOMAIN files /\ n # Name(p, "up") /\ files'[n] = files[n]
            /\ Name(p, n.half)' = Name(p, n.half)
        BY <1>3 DEF Name
      <3>2. n = Name(p, n.half) /\ n.half # "up" /\ files[n].text # "whole"
        BY <1>1, <2>5, <3>1 DEF FilesInv, Origin
      <3> QED BY <2>1, <2>5, <3>1, <3>2 DEF Origin
    <2>6. ASSUME NEW t \in Taken PROVE t \in Taken' \/ Abandoned(t)'
      <3>1. PICK n \in DOMAIN files : n.stamp = t
        BY DEF Taken
      <3>2. CASE n = Name(p, "up")
        <4>1. id'[p].stamp = t
          BY <1>1, <1>3, <3>1, <3>2, NameType
        <4> QED BY <2>1, <4>1 DEF Abandoned
      <3>3. CASE n # Name(p, "up")
        BY <1>3, <3>1, <3>3 DEF Taken
      <3> QED BY <3>2, <3>3
    <2>7. Name(p, "up") \notin DOMAIN files'
      BY <1>3
    <2> QED BY <1>1, <2>1, <2>2, <2>3, <2>4, <2>5, <2>6, <2>7, TouchKeeps DEF Picked
  <1> QED BY <1>2, <1>3 DEF RemoveUp

\* A dead invocation leaves what it had.
LEMMA CrashKeeps ==
  ASSUME FilesInv, NEW p \in Processes, Crash(p)
  PROVE  FilesInv'
  BY GiveUpKeeps DEF Crash

\* Whatever the next step is, the invariant survives it.
LEMMA NextKeeps == FilesInv /\ [Next]_vars => FilesInv'
  <1> SUFFICES ASSUME FilesInv, [Next]_vars PROVE FilesInv'
    OBVIOUS
  <1>1. ASSUME NEW p \in Processes,
               \/ Start(p) \/ AvailableTimestamp(p) \/ CreateUp(p) \/ WriteUp(p)
               \/ CreateDown(p) \/ WriteDown(p) \/ RemoveUp(p) \/ Crash(p)
        PROVE  FilesInv'
    BY <1>1, StartKeeps, AvailableTimestampKeeps, CreateUpKeeps, WriteUpKeeps,
       CreateDownKeeps, WriteDownKeeps, RemoveUpKeeps, CrashKeeps
  <1>2. CASE UNCHANGED vars
    BY <1>2 DEF vars, FilesInv, TypeOK, Hand, Has, Name, Origin, StampInv, Taken, Abandoned
  <1> QED BY <1>1, <1>2, TickKeeps DEF Next

\* The invariant holds in every state of every behaviour.
THEOREM FilesInvariant == Spec => []FilesInv
  BY FilesInit, NextKeeps, PTL DEF Spec

(***************************************************************************)
(* A pair that runNew reported stays in the directory, both halves as it   *)
(* wrote them, whatever other invocations do, fail to do, clean up with    *)
(* os.Remove or leave when they die: O_EXCL lets nobody in, and a clean-up *)
(* removes only the file the invocation made.                              *)
(***************************************************************************)
THEOREM ReportedPairIsKept == Spec => []ReportedPairStays
  <1>1. FilesInv => ReportedPairStays
    BY DEF FilesInv, Hand, Has, Halves, ReportedPairStays
  <1> QED BY <1>1, FilesInvariant, PTL

(***************************************************************************)
(* When the second file of a pair fails, the first is removed again: an    *)
(* invocation that reports an error leaves no whole script behind that it  *)
(* wrote and that has no other half, for any number of invocations.        *)
(***************************************************************************)
THEOREM FailureLeavesNoScript == Spec => []FailureLeavesNoHalf
  <1>1. FilesInv => FailureLeavesNoHalf
    BY DEF FilesInv, Origin, FailureLeavesNoHalf
  <1> QED BY <1>1, FilesInvariant, PTL

(***************************************************************************)
(* An invocation that began after another had succeeded gets the later     *)
(* timestamp from availableTimestamp, also in the same second and also     *)
(* when timestamps have run ahead of the clock, except for a second that a *)
(* failed invocation left free.                                            *)
(***************************************************************************)
THEOREM LaterMigrationSortsLater == Spec => []LaterSortsLater
  <1>1. FilesInv => LaterSortsLater
    BY DEF FilesInv, StampInv, Picked, Abandoned, LaterSortsLater
  <1> QED BY <1>1, FilesInvariant, PTL

\* What NewNeverClobbers says of one step.
OnlyItsCreator ==
  \A n \in DOMAIN files :
    n \notin DOMAIN files' \/ files'[n] # files[n] =>
      pc[files[n].by] \in Running /\ pc'[files[n].by] # pc[files[n].by]

\* A running invocation that touches a file is its creator.
LEMMA TouchesItsOwn ==
  ASSUME FilesInv, NEW p \in Processes, pc[p] \in Running, NEW half \in Halves,
         Touches(p, half)
  PROVE  OnlyItsCreator
  <1>1. pc'[p] # pc[p]
    BY DEF FilesInv, TypeOK, Touches, Goto
  <1> QED BY <1>1 DEF Touches, OnlyItsCreator

\* Only the creator of a file changes or removes it.
LEMMA NextTouchesItsOwn == FilesInv /\ Next => OnlyItsCreator
  <1> SUFFICES ASSUME FilesInv, Next PROVE OnlyItsCreator
    OBVIOUS
  <1> USE DEF Running, PCs, Halves
  <1>1. CASE UNCHANGED files
    BY <1>1 DEF OnlyItsCreator
  <1>2. ASSUME NEW p \in Processes, CreateUp(p) PROVE OnlyItsCreator
    BY <1>1, <1>2, OpenNewTouches, TouchesItsOwn DEF CreateUp
  <1>3. ASSUME NEW p \in Processes, CreateDown(p) PROVE OnlyItsCreator
    BY <1>1, <1>3, OpenNewTouches, TouchesItsOwn DEF CreateDown
  <1>4. ASSUME NEW p \in Processes, WriteUp(p) PROVE OnlyItsCreator
    <2>1. Has(p, "up", "empty") /\ pc[p] = "writeUp"
      BY <1>4 DEF FilesInv, Hand, WriteUp
    <2> QED BY <1>4, <2>1, WriteTextTouches, TouchesItsOwn DEF WriteUp
  <1>5. ASSUME NEW p \in Processes, WriteDown(p) PROVE OnlyItsCreator
    <2>1. Has(p, "down", "empty") /\ pc[p] = "writeDown"
      BY <1>5 DEF FilesInv, Hand, WriteDown
    <2> QED BY <1>5, <2>1, WriteTextTouches, TouchesItsOwn DEF WriteDown
  <1>6. ASSUME NEW p \in Processes, RemoveUp(p) PROVE OnlyItsCreator
    <2>1. CASE files' = [n \in DOMAIN files \ {Name(p, "up")} |-> files[n]] /\ Goto(p, "failed")
      <3>1. Has(p, "up", "whole") /\ pc[p] = "removeUp"
        BY <1>6 DEF FilesInv, Hand, RemoveUp
      <3>2. Touches(p, "up")
        BY <1>6, <2>1, <3>1 DEF Touches, Has, RemoveUp
      <3> QED BY <3>1, <3>2, TouchesItsOwn
    <2> QED BY <1>1, <1>6, <2>1 DEF RemoveUp
  <1> QED BY <1>1, <1>2, <1>3, <1>4, <1>5, <1>6
         DEF Next, Tick, Start, AvailableTimestamp, Crash

(***************************************************************************)
(* A file in the migrations directory changes or disappears only in a step *)
(* of the invocation that created it.                                      *)
(***************************************************************************)
THEOREM NobodyClobbers == Spec => NewNeverClobbers
  <1>1. FilesInv /\ [Next]_vars => [OnlyItsCreator]_vars
    BY NextTouchesItsOwn
  <1>2. Spec => [][OnlyItsCreator]_vars
    BY <1>1, FilesInvariant, PTL DEF Spec
  <1> QED BY <1>2 DEF NewNeverClobbers, OnlyItsCreator
=============================================================================
