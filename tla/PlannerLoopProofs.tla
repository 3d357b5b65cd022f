------------------------- MODULE PlannerLoopProofs -------------------------
(***************************************************************************)
(* The loops of BuildPlan (internal/migrator/planner.go), for every source *)
(* and every order in which the database may list its migrations: the plan *)
(* they leave is the one the set operators of Planner describe, in the     *)
(* order in which it has to be executed.                                   *)
(*                                                                         *)
(* The invariant is the loop invariant a reader of the code would write    *)
(* down: what each accumulator holds after the iterations done so far.     *)
(***************************************************************************)
EXTENDS PlannerLoop, FunctionTheorems, FiniteSetTheorems, SequenceTheorems, TLAPS

Injective(s) == \A j, k \in DOMAIN s : s[j] = s[k] => j = k

\* Neither argument changes, and neither lists an ID twice.
ArgsInv ==
  /\ fromFiles \in Seq(Ids) /\ Ascending(fromFiles)
  /\ fromDB \in Seq(Ids) /\ Injective(fromDB)
  /\ rollbackExtras \in BOOLEAN

\* The first loop skips an extra that is going to be rolled back.
Counts(m) == rollbackExtras => InFiles(m)

\* maxAppliedID, once the first n migrations of fromDB have been looked at.
HighestOf(n) ==
  /\ maxAppliedID \in Nat
  /\ \A k \in 1 .. n : Counts(fromDB[k]) => fromDB[k] <= maxAppliedID
  /\ maxAppliedID # NoID =>
       \E k \in 1 .. n : Counts(fromDB[k]) /\ fromDB[k] = maxAppliedID

\* ToRollback, once the migrations of fromDB after the n-th have been looked at.
ExtrasAfter(n) ==
  /\ ToRollback \in Seq(Ids)
  /\ \A m \in Ids : m \in ToSet(ToRollback) <=>
       \E k \in n+1 .. Len(fromDB) : fromDB[k] = m /\ ~InFiles(m)
  /\ \A j, k \in DOMAIN ToRollback : \A p, q \in DOMAIN fromDB :
       j < k /\ fromDB[p] = ToRollback[j] /\ fromDB[q] = ToRollback[k] => p > q

\* ToApply and Interleaved, once the first n files have been looked at.
PendingOf(n) ==
  /\ ToApply \in Seq(Ids) /\ Interleaved \in Seq(Ids)
  /\ \A m \in Ids : m \in ToSet(ToApply) <=>
       \E k \in 1 .. n : fromFiles[k] = m /\ ~InDB(m)
  /\ Ascending(ToApply)
  /\ \A m \in Ids : m \in ToSet(Interleaved) <=>
       m \in ToSet(ToApply) /\ maxAppliedID # NoID /\ m < maxAppliedID

NothingToApply == ToApply = <<>> /\ Interleaved = <<>>

\* What each loop has computed when it is at index i.
HighestInv ==
  i \in 1 .. Len(fromDB)+1 /\ HighestOf(i-1) /\ ToRollback = <<>> /\ NothingToApply
ExtrasInv ==
  i \in 0 .. Len(fromDB) /\ HighestOf(Len(fromDB)) /\ ExtrasAfter(i) /\ NothingToApply
PendingInv ==
  /\ i \in 1 .. Len(fromFiles)+1
  /\ HighestOf(Len(fromDB)) /\ ExtrasAfter(0) /\ PendingOf(i-1)
DoneInv == HighestOf(Len(fromDB)) /\ ExtrasAfter(0) /\ PendingOf(Len(fromFiles))

LoopInv ==
  /\ ArgsInv
  /\ loop \in {"highest", "extras", "pending", "done"}
  /\ loop = "highest" => HighestInv
  /\ loop = "extras" => ExtrasInv
  /\ loop = "pending" => PendingInv
  /\ loop = "done" => DoneInv

-----------------------------------------------------------------------------
\* Facts about slices of IDs.

\* The indices and elements of a slice of IDs.
LEMMA SliceFacts ==
  ASSUME NEW s \in Seq(Ids)
  PROVE  /\ Len(s) \in Nat /\ DOMAIN s = 1 .. Len(s)
         /\ \A k \in DOMAIN s : s[k] \in Ids /\ s[k] \in Nat /\ s[k] # NoID
         /\ \A k \in DOMAIN s : s[k] \in ToSet(s)
         /\ ToSet(s) \subseteq Ids
  <1>1. Len(s) \in Nat /\ DOMAIN s = 1 .. Len(s) /\ s \in [1 .. Len(s) -> Ids]
    BY LenProperties
  <1>2. \A m \in Ids : m \in Nat /\ m # NoID
    BY IdsAssumption DEF NoID
  <1> QED BY <1>1, <1>2 DEF ToSet

\* append adds one element, at the end.
LEMMA AppendFacts ==
  ASSUME NEW s \in Seq(Ids), NEW e \in Ids
  PROVE  /\ Append(s, e) \in Seq(Ids) /\ Len(Append(s, e)) = Len(s) + 1
         /\ DOMAIN Append(s, e) = 1 .. Len(s) + 1
         /\ \A k \in 1 .. Len(s) : Append(s, e)[k] = s[k]
         /\ Append(s, e)[Len(s) + 1] = e
         /\ \A m : m \in ToSet(Append(s, e)) <=> m \in ToSet(s) \/ m = e
  <1> DEFINE t == Append(s, e)
             n == Len(s)
  <1>1. /\ t \in Seq(Ids) /\ Len(t) = n + 1
        /\ \A k \in 1 .. n : t[k] = s[k]
        /\ t[n + 1] = e
    BY AppendProperties
  <1> HIDE DEF t
  <1>2. DOMAIN t = 1 .. n + 1
    BY <1>1, SliceFacts
  <1>3. n \in Nat /\ DOMAIN s = 1 .. n
    BY SliceFacts
  <1> HIDE DEF n
  <1>4. \A k \in 1 .. n + 1 : k \in 1 .. n \/ k = n + 1
    BY <1>3
  <1>5. 1 .. n \subseteq 1 .. n + 1 /\ n + 1 \in 1 .. n + 1
    BY <1>3
  <1>6. \A m : m \in ToSet(t) <=> \E k \in 1 .. n + 1 : t[k] = m
    BY <1>2 DEF ToSet
  <1>7. \A m : m \in ToSet(s) <=> \E k \in 1 .. n : s[k] = m
    BY <1>3 DEF ToSet
  <1>8. \A m : m \in ToSet(t) <=> m \in ToSet(s) \/ m = e
    BY <1>1, <1>4, <1>5, <1>6, <1>7
  <1> QED BY <1>1, <1>2, <1>8 DEF t, n

\* A slice that lists no ID twice is as long as its set is large.
LEMMA LengthIsCardinality ==
  ASSUME NEW s \in Seq(Ids), Injective(s)
  PROVE  Len(s) = Cardinality(ToSet(s))
  <1>1. Len(s) \in Nat /\ DOMAIN s = 1 .. Len(s) /\ s \in [1 .. Len(s) -> Ids]
    BY LenProperties
  <1>2. s \in [1 .. Len(s) -> ToSet(s)]
    BY <1>1 DEF ToSet
  <1>3. s \in Bijection(1 .. Len(s), ToSet(s))
    <2>1. s \in Injection(1 .. Len(s), ToSet(s))
      BY <1>1, <1>2 DEF Injection, IsInjective, Injective
    <2>2. s \in Surjection(1 .. Len(s), ToSet(s))
      BY <1>1, <1>2 DEF Surjection, ToSet
    <2> QED BY <2>1, <2>2 DEF Bijection
  <1>4. ExistsBijection(1 .. Len(s), ToSet(s))
    BY <1>3 DEF ExistsBijection
  <1> QED BY <1>1, <1>4, FS_CountingElements

\* The slices the arguments are drawn from.
LEMMA PermutationIsSlice ==
  ASSUME NEW s \in SetToAllKPermutations(Ids)
  PROVE  s \in Seq(Ids) /\ Injective(s)
  <1>1. PICK S \in SUBSET Ids : s \in SetToSeqs(S)
    BY DEF SetToAllKPermutations
  <1> DEFINE n == Cardinality(S)
  <1>2. n \in Nat
    BY IdsAssumption, FS_Subset, FS_CardinalityType
  <1>3. s \in [1 .. n -> S] /\ \A j, k \in 1 .. n : j # k => s[j] # s[k]
    BY <1>1 DEF SetToSeqs
  <1> HIDE DEF n
  <1>4. s \in [1 .. n -> Ids]
    BY <1>3
  <1>5. s \in Seq(Ids)
    BY <1>2, <1>4, SeqDef
  <1> QED BY <1>3, <1>5 DEF Injective

\* The empty plan BuildPlan starts from.
LEMMA EmptySlice ==
  <<>> \in Seq(Ids) /\ DOMAIN <<>> = {} /\ ToSet(<<>>) = {}
  <1>1. <<>> \in Seq(Ids) /\ Len(<<>>) = 0
    BY EmptySeq
  <1>2. DOMAIN <<>> = {}
    BY <1>1, SliceFacts
  <1> QED BY <1>1, <1>2 DEF ToSet

-----------------------------------------------------------------------------
\* The loop invariant.

\* BuildPlan starts with nothing collected.
LEMMA LoopInit == Init => LoopInv
  <1> SUFFICES ASSUME Init PROVE LoopInv
    OBVIOUS
  <1>1. ArgsInv
    BY PermutationIsSlice DEF Init, ArgsInv
  <1>2. HighestInv
    <2>1. Len(fromDB) \in Nat
      BY <1>1, SliceFacts DEF ArgsInv
    <2>2. i = 1 /\ i \in 1 .. Len(fromDB) + 1 /\ 1 .. i-1 = {}
      BY <2>1 DEF Init
    <2> QED BY <2>2 DEF Init, HighestInv, HighestOf, NothingToApply, NoID
  <1> QED BY <1>1, <1>2 DEF Init, LoopInv

\* One more migration has been compared with the highest so far.
LEMMA HighestKeeps ==
  ASSUME LoopInv, Highest
  PROVE  LoopInv'
  <1>1. /\ ArgsInv /\ loop = "highest" /\ HighestInv
        /\ UNCHANGED <<fromFiles, fromDB, rollbackExtras, loop,
                       ToRollback, ToApply, Interleaved>>
    BY DEF LoopInv, Highest, args
  <1>2. ArgsInv'
    BY <1>1 DEF ArgsInv, Ascending, Injective
  <1> DEFINE N == Len(fromDB)
             m == fromDB[i]
  <1>3. /\ N \in Nat /\ DOMAIN fromDB = 1 .. N
        /\ \A k \in 1 .. N : fromDB[k] \in Nat /\ fromDB[k] # NoID
    BY <1>1, SliceFacts DEF ArgsInv
  <1>4. /\ i' = i + 1 /\ i <= N
        /\ maxAppliedID' = IF Counts(m) /\ m > maxAppliedID THEN m ELSE maxAppliedID
    BY DEF Highest, Counts
  <1> HIDE DEF N
  <1>5. /\ i \in 1 .. N /\ i' \in 1 .. N + 1 /\ i' - 1 = i /\ i \in 1 .. i
        /\ \A k \in 1 .. i : k \in 1 .. N /\ (k \in 1 .. i - 1 \/ k = i)
        /\ 1 .. i - 1 \subseteq 1 .. i
    BY <1>1, <1>3, <1>4 DEF HighestInv, N
  <1>6. \A k : Counts(fromDB[k])' <=> Counts(fromDB[k])
    BY <1>1 DEF Counts, InFiles
  <1>7. /\ maxAppliedID \in Nat
        /\ \A k \in 1 .. i - 1 : Counts(fromDB[k]) => fromDB[k] <= maxAppliedID
        /\ maxAppliedID # NoID =>
             \E k \in 1 .. i - 1 : Counts(fromDB[k]) /\ fromDB[k] = maxAppliedID
    BY <1>1 DEF HighestInv, HighestOf
  <1>8. /\ maxAppliedID' \in Nat
        /\ \A k \in 1 .. i : Counts(fromDB[k]) => fromDB[k] <= maxAppliedID'
        /\ maxAppliedID' # NoID =>
             \E k \in 1 .. i : Counts(fromDB[k]) /\ fromDB[k] = maxAppliedID'
    <2> DEFINE C(k) == Counts(fromDB[k])
    <2>1. maxAppliedID' = IF C(i) /\ fromDB[i] > maxAppliedID THEN fromDB[i] ELSE maxAppliedID
      BY <1>4
    <2>2. /\ \A k \in 1 .. i - 1 : C(k) => fromDB[k] <= maxAppliedID
          /\ maxAppliedID # NoID => \E k \in 1 .. i - 1 : C(k) /\ fromDB[k] = maxAppliedID
      BY <1>7
    <2> HIDE DEF C
    <2>3. /\ maxAppliedID' \in Nat
          /\ \A k \in 1 .. i : C(k) => fromDB[k] <= maxAppliedID'
          /\ maxAppliedID' # NoID => \E k \in 1 .. i : C(k) /\ fromDB[k] = maxAppliedID'
      <3>1. CASE C(i) /\ fromDB[i] > maxAppliedID
        BY <1>3, <1>5, <1>7, <2>1, <2>2, <3>1
      <3>2. CASE ~(C(i) /\ fromDB[i] > maxAppliedID)
        BY <1>3, <1>5, <1>7, <2>1, <2>2, <3>2
      <3> QED BY <3>1, <3>2
    <2> QED BY <2>3 DEF C
  <1>9. HighestOf(i-1)'
    BY <1>1, <1>5, <1>6, <1>8 DEF HighestOf, NoID
  <1>10. HighestInv'
    BY <1>1, <1>5, <1>9 DEF HighestInv, NothingToApply, N
  <1> QED BY <1>1, <1>2, <1>10 DEF LoopInv

\* Every migration of the database has been looked at.
LEMMA HighestDoneKeeps ==
  ASSUME LoopInv, HighestDone
  PROVE  LoopInv'
  <1>1. /\ ArgsInv /\ loop = "highest" /\ HighestInv
        /\ loop' = "extras" /\ i' = Len(fromDB) /\ i > Len(fromDB)
        /\ UNCHANGED <<fromFiles, fromDB, rollbackExtras, maxAppliedID,
                       ToRollback, ToApply, Interleaved>>
    BY DEF LoopInv, HighestDone, args
  <1>2. ArgsInv'
    BY <1>1 DEF ArgsInv, Ascending, Injective
  <1>3. Len(fromDB) \in Nat
    BY <1>1, SliceFacts DEF ArgsInv
  <1>4. i - 1 = Len(fromDB) /\ Len(fromDB) \in 0 .. Len(fromDB) /\ Len(fromDB)+1 .. Len(fromDB) = {}
    BY <1>1, <1>3 DEF HighestInv
  <1>5. HighestOf(Len(fromDB))'
    BY <1>1, <1>4 DEF HighestInv, HighestOf, Counts, InFiles
  <1>6. ExtrasAfter(i)'
    BY <1>1, <1>4, EmptySlice DEF HighestInv, ExtrasAfter
  <1>7. ExtrasInv'
    BY <1>1, <1>4, <1>5, <1>6 DEF HighestInv, ExtrasInv, NothingToApply
  <1> QED BY <1>1, <1>2, <1>7 DEF LoopInv

\* One more migration has been looked at from the end of fromDB.
LEMMA ExtrasKeeps ==
  ASSUME LoopInv, Extras
  PROVE  LoopInv'
  <1>1. /\ ArgsInv /\ loop = "extras" /\ ExtrasInv /\ i' = i - 1 /\ i >= 1
        /\ ToRollback' = IF InFiles(fromDB[i]) THEN ToRollback ELSE Append(ToRollback, fromDB[i])
        /\ UNCHANGED <<fromFiles, fromDB, rollbackExtras, loop,
                       maxAppliedID, ToApply, Interleaved>>
    BY DEF LoopInv, Extras, args
  <1>2. ArgsInv'
    BY <1>1 DEF ArgsInv, Ascending, Injective
  <1> DEFINE N == Len(fromDB)
             e == fromDB[i]
  <1>3. /\ N \in Nat /\ DOMAIN fromDB = 1 .. N /\ \A k \in 1 .. N : fromDB[k] \in Ids
        /\ \A j, k \in 1 .. N : fromDB[j] = fromDB[k] => j = k
    BY <1>1, SliceFacts DEF ArgsInv, Injective
  <1>4. /\ i \in 1 .. N /\ i - 1 \in 0 .. N /\ (i - 1) + 1 = i
        /\ \A k \in i .. N : k = i \/ k \in i+1 .. N
        /\ i+1 .. N \subseteq i .. N /\ i \in i .. N /\ i+1 .. N \subseteq 1 .. N
        /\ \A k \in i+1 .. N : k > i
    BY <1>1, <1>3 DEF ExtrasInv
  <1>5. /\ ToRollback \in Seq(Ids)
        /\ \A m \in Ids : m \in ToSet(ToRollback) <=>
             \E k \in i+1 .. N : fromDB[k] = m /\ ~InFiles(m)
        /\ \A j, k \in DOMAIN ToRollback : \A p, q \in 1 .. N :
             j < k /\ fromDB[p] = ToRollback[j] /\ fromDB[q] = ToRollback[k] => p > q
    BY <1>1, <1>3 DEF ExtrasInv, ExtrasAfter
  <1>6. /\ ToRollback' \in Seq(Ids)
        /\ \A m \in Ids : m \in ToSet(ToRollback') <=>
             \E k \in i .. N : fromDB[k] = m /\ ~InFiles(m)
        /\ \A j, k \in DOMAIN ToRollback' : \A p, q \in 1 .. N :
             j < k /\ fromDB[p] = ToRollback'[j] /\ fromDB[q] = ToRollback'[k] => p > q
    <2>1. CASE InFiles(e)
      <3>1. ToRollback' = ToRollback
        BY <1>1, <2>1
      <3>2. \A m \in Ids : (\E k \in i .. N : fromDB[k] = m /\ ~InFiles(m))
                           <=> \E k \in i+1 .. N : fromDB[k] = m /\ ~InFiles(m)
        BY <1>4, <2>1
      <3> QED BY <1>5, <3>1, <3>2
    <2>2. CASE ~InFiles(e)
      <3> DEFINE L == Len(ToRollback)
      <3>1. e \in Ids /\ ToRollback' = Append(ToRollback, e)
        BY <1>1, <1>3, <1>4, <2>2
      <3>2. /\ ToRollback' \in Seq(Ids) /\ DOMAIN ToRollback' = 1 .. L + 1
            /\ \A k \in 1 .. L : ToRollback'[k] = ToRollback[k]
            /\ ToRollback'[L + 1] = e
            /\ \A m : m \in ToSet(ToRollback') <=> m \in ToSet(ToRollback) \/ m = e
        BY <1>5, <3>1, AppendFacts
      <3>3. L \in Nat /\ DOMAIN ToRollback = 1 .. L
            /\ \A k \in 1 .. L : ToRollback[k] \in Ids /\ ToRollback[k] \in ToSet(ToRollback)
        BY <1>5, SliceFacts
      <3> HIDE DEF L, e
      <3>4. ASSUME NEW m \in Ids
            PROVE  m \in ToSet(ToRollback') <=> \E k \in i .. N : fromDB[k] = m /\ ~InFiles(m)
        <4>1. m \in ToSet(ToRollback) => \E k \in i .. N : fromDB[k] = m /\ ~InFiles(m)
          BY <1>4, <1>5
        <4>2. m = e => \E k \in i .. N : fromDB[k] = m /\ ~InFiles(m)
          BY <1>4, <2>2 DEF e
        <4>3. (\E k \in i .. N : fromDB[k] = m /\ ~InFiles(m))
                => m \in ToSet(ToRollback) \/ m = e
          BY <1>4, <1>5 DEF e
        <4> QED BY <3>2, <4>1, <4>2, <4>3
      <3>5. ASSUME NEW j \in 1 .. L+1, NEW k \in 1 .. L+1, NEW p \in 1 .. N, NEW q \in 1 .. N,
                   j < k, fromDB[p] = ToRollback'[j], fromDB[q] = ToRollback'[k]
            PROVE  p > q
        <4>1. j \in 1 .. L /\ fromDB[p] = ToRollback[j]
          BY <3>2, <3>3, <3>5
        <4>2. CASE k \in 1 .. L
          BY <1>5, <3>2, <3>3, <3>5, <4>1, <4>2
        <4>3. CASE k = L + 1
          <5>1. fromDB[q] = fromDB[i]
            BY <3>2, <3>5, <4>3 DEF e
          <5>2. q = i
            BY <1>3, <1>4, <5>1
          <5>3. PICK h \in i+1 .. N : fromDB[h] = ToRollback[j]
            BY <1>5, <3>3, <4>1
          <5>4. p = h
            BY <1>3, <1>4, <4>1, <5>3
          <5> QED BY <1>4, <5>2, <5>3, <5>4
        <4> QED BY <3>3, <4>2, <4>3
      <3> QED BY <3>2, <3>4, <3>5
    <2> QED BY <2>1, <2>2
  <1>7. ExtrasAfter(i)'
    BY <1>1, <1>3, <1>4, <1>6 DEF ExtrasAfter, InFiles
  <1>8. HighestOf(Len(fromDB))'
    BY <1>1 DEF ExtrasInv, HighestOf, Counts, InFiles
  <1>9. ExtrasInv'
    BY <1>1, <1>4, <1>7, <1>8 DEF ExtrasInv, NothingToApply
  <1> QED BY <1>1, <1>2, <1>9 DEF LoopInv

\* Every extra has been collected.
LEMMA ExtrasDoneKeeps ==
  ASSUME LoopInv, ExtrasDone
  PROVE  LoopInv'
  <1>1. /\ ArgsInv /\ loop = "extras" /\ ExtrasInv /\ i < 1
        /\ loop' = "pending" /\ i' = 1
        /\ UNCHANGED <<fromFiles, fromDB, rollbackExtras, maxAppliedID,
                       ToRollback, ToApply, Interleaved>>
    BY DEF LoopInv, ExtrasDone, args
  <1>2. ArgsInv'
    BY <1>1 DEF ArgsInv, Ascending, Injective
  <1>3. Len(fromDB) \in Nat /\ Len(fromFiles) \in Nat
    BY <1>1, SliceFacts DEF ArgsInv
  <1>4. i = 0 /\ 1 \in 1 .. Len(fromFiles) + 1 /\ 1 .. 1-1 = {}
    BY <1>1, <1>3 DEF ExtrasInv
  <1>5. HighestOf(Len(fromDB))'
    BY <1>1 DEF ExtrasInv, HighestOf, Counts, InFiles
  <1>6. ExtrasAfter(0)'
    BY <1>1, <1>4 DEF ExtrasInv, ExtrasAfter, InFiles
  <1>7. PendingOf(i-1)'
    BY <1>1, <1>4, EmptySlice DEF ExtrasInv, NothingToApply, PendingOf, Ascending
  <1>8. PendingInv'
    BY <1>1, <1>4, <1>5, <1>6, <1>7 DEF PendingInv
  <1> QED BY <1>1, <1>2, <1>8 DEF LoopInv

\* One more file has been looked at.
LEMMA PendingKeeps ==
  ASSUME LoopInv, Pending
  PROVE  LoopInv'
  <1> DEFINE e == fromFiles[i]
             late == maxAppliedID # NoID /\ e < maxAppliedID
             M == Len(fromFiles)
  <1>1. /\ ArgsInv /\ loop = "pending" /\ PendingInv /\ i' = i + 1 /\ i <= M
        /\ ToApply' = IF InDB(e) THEN ToApply ELSE Append(ToApply, e)
        /\ Interleaved' = IF ~InDB(e) /\ late THEN Append(Interleaved, e) ELSE Interleaved
        /\ UNCHANGED <<fromFiles, fromDB, rollbackExtras, loop, maxAppliedID, ToRollback>>
    BY DEF LoopInv, Pending, args
  <1>2. ArgsInv'
    BY <1>1 DEF ArgsInv, Ascending, Injective
  <1>3. /\ M \in Nat /\ DOMAIN fromFiles = 1 .. M
        /\ \A k \in 1 .. M : fromFiles[k] \in Ids /\ fromFiles[k] \in Nat
        /\ \A j, k \in 1 .. M : j < k => fromFiles[j] < fromFiles[k]
    BY <1>1, SliceFacts DEF ArgsInv, Ascending
  <1>4. /\ i \in 1 .. M /\ i' \in 1 .. M + 1 /\ i' - 1 = i
        /\ \A k \in 1 .. i : k \in 1 .. i-1 \/ k = i
        /\ 1 .. i-1 \subseteq 1 .. i /\ i \in 1 .. i
        /\ \A k \in 1 .. i-1 : k < i /\ k \in 1 .. M
    BY <1>1, <1>3 DEF PendingInv
  <1>5. /\ ToApply \in Seq(Ids) /\ Interleaved \in Seq(Ids)
        /\ \A m \in Ids : m \in ToSet(ToApply) <=>
             \E k \in 1 .. i-1 : fromFiles[k] = m /\ ~InDB(m)
        /\ Ascending(ToApply)
        /\ \A m \in Ids : m \in ToSet(Interleaved) <=>
             m \in ToSet(ToApply) /\ maxAppliedID # NoID /\ m < maxAppliedID
    BY <1>1 DEF PendingInv, PendingOf
  <1>6. e \in Ids /\ e \in Nat
    BY <1>3, <1>4
  <1>7. /\ ToApply' \in Seq(Ids)
        /\ \A m \in Ids : m \in ToSet(ToApply') <=>
             \E k \in 1 .. i : fromFiles[k] = m /\ ~InDB(m)
        /\ Ascending(ToApply')
    <2>1. CASE InDB(e)
      <3>1. ToApply' = ToApply
        BY <1>1, <2>1
      <3>2. \A m \in Ids : (\E k \in 1 .. i : fromFiles[k] = m /\ ~InDB(m))
                           <=> \E k \in 1 .. i-1 : fromFiles[k] = m /\ ~InDB(m)
        BY <1>4, <2>1
      <3> QED BY <1>5, <3>1, <3>2
    <2>2. CASE ~InDB(e)
      <3> DEFINE L == Len(ToApply)
      <3>1. ToApply' = Append(ToApply, e)
        BY <1>1, <2>2
      <3>2. /\ ToApply' \in Seq(Ids) /\ DOMAIN ToApply' = 1 .. L + 1
            /\ \A k \in 1 .. L : ToApply'[k] = ToApply[k]
            /\ ToApply'[L + 1] = e
            /\ \A m : m \in ToSet(ToApply') <=> m \in ToSet(ToApply) \/ m = e
        BY <1>5, <1>6, <3>1, AppendFacts
      <3>3. L \in Nat /\ DOMAIN ToApply = 1 .. L
            /\ \A k \in 1 .. L : ToApply[k] \in Ids /\ ToApply[k] \in ToSet(ToApply)
        BY <1>5, SliceFacts
      <3> HIDE DEF L, e
      <3>4. ASSUME NEW m \in Ids
            PROVE  m \in ToSet(ToApply') <=> \E k \in 1 .. i : fromFiles[k] = m /\ ~InDB(m)
        <4>1. m \in ToSet(ToApply) => \E k \in 1 .. i : fromFiles[k] = m /\ ~InDB(m)
          BY <1>4, <1>5
        <4>2. m = e => \E k \in 1 .. i : fromFiles[k] = m /\ ~InDB(m)
          BY <1>4, <2>2 DEF e
        <4>3. (\E k \in 1 .. i : fromFiles[k] = m /\ ~InDB(m))
                => m \in ToSet(ToApply) \/ m = e
          BY <1>4, <1>5 DEF e
        <4> QED BY <3>2, <4>1, <4>2, <4>3
      <3>5. ASSUME NEW j \in 1 .. L+1, NEW k \in 1 .. L+1, j < k
            PROVE  ToApply'[j] < ToApply'[k]
        <4>1. j \in 1 .. L /\ ToApply'[j] = ToApply[j]
          BY <3>2, <3>3, <3>5
        <4>2. CASE k \in 1 .. L
          BY <1>5, <3>2, <3>3, <3>5, <4>1, <4>2 DEF Ascending
        <4>3. CASE k = L + 1
          <5>1. PICK h \in 1 .. i-1 : fromFiles[h] = ToApply[j]
            BY <1>5, <3>3, <4>1
          <5>2. fromFiles[h] < fromFiles[i]
            BY <1>3, <1>4, <5>1
          <5> QED BY <3>2, <4>1, <4>3, <5>1, <5>2 DEF e
        <4> QED BY <3>3, <4>2, <4>3
      <3>6. Ascending(ToApply')
        BY <3>2, <3>5 DEF Ascending
      <3> QED BY <3>2, <3>4, <3>6
    <2> QED BY <2>1, <2>2
  <1>8. \A m : m \in ToSet(ToApply') <=> m \in ToSet(ToApply) \/ (m = e /\ ~InDB(e))
    BY <1>1, <1>5, <1>6, AppendFacts
  <1>9. /\ Interleaved' \in Seq(Ids)
        /\ \A m : m \in ToSet(Interleaved') <=>
             m \in ToSet(Interleaved) \/ (m = e /\ ~InDB(e) /\ late)
    BY <1>1, <1>5, <1>6, AppendFacts
  <1>10. \A m \in Ids : m \in ToSet(Interleaved') <=>
           m \in ToSet(ToApply') /\ maxAppliedID # NoID /\ m < maxAppliedID
    BY <1>5, <1>8, <1>9
  <1>11. PendingOf(i-1)'
    BY <1>1, <1>4, <1>7, <1>9, <1>10 DEF PendingOf, InDB, NoID
  <1>12. HighestOf(Len(fromDB))' /\ ExtrasAfter(0)'
    BY <1>1 DEF PendingInv, HighestOf, ExtrasAfter, Counts, InFiles
  <1>13. PendingInv'
    BY <1>1, <1>4, <1>11, <1>12 DEF PendingInv
  <1> QED BY <1>1, <1>2, <1>13 DEF LoopInv

\* Every file has been looked at: the plan is returned.
LEMMA PendingDoneKeeps ==
  ASSUME LoopInv, PendingDone
  PROVE  LoopInv'
  <1>1. /\ ArgsInv /\ loop = "pending" /\ PendingInv /\ i > Len(fromFiles) /\ loop' = "done"
        /\ UNCHANGED <<fromFiles, fromDB, rollbackExtras, maxAppliedID,
                       ToRollback, ToApply, Interleaved>>
    BY DEF LoopInv, PendingDone, args
  <1>2. ArgsInv'
    BY <1>1 DEF ArgsInv, Ascending, Injective
  <1>3. Len(fromFiles) \in Nat
    BY <1>1, SliceFacts DEF ArgsInv
  <1>4. i - 1 = Len(fromFiles)
    BY <1>1, <1>3 DEF PendingInv
  <1>5. PendingOf(Len(fromFiles))'
    BY <1>1, <1>4 DEF PendingInv, PendingOf, Ascending, InDB
  <1>6. HighestOf(Len(fromDB))' /\ ExtrasAfter(0)'
    BY <1>1 DEF PendingInv, HighestOf, ExtrasAfter, Counts, InFiles
  <1> QED BY <1>1, <1>2, <1>5, <1>6 DEF LoopInv, DoneInv

\* A step that changes nothing.
LEMMA StutterKeeps ==
  ASSUME LoopInv, UNCHANGED vars
  PROVE  LoopInv'
  <1>1. UNCHANGED <<fromFiles, fromDB, rollbackExtras, loop, i, maxAppliedID,
                    ToRollback, ToApply, Interleaved>>
    BY DEF vars, args
  <1> QED BY <1>1 DEF LoopInv, ArgsInv, HighestInv, ExtrasInv, PendingInv, DoneInv, HighestOf,
               ExtrasAfter, PendingOf, NothingToApply, Ascending, Injective, Counts, InFiles, InDB

\* The loop invariant holds throughout BuildPlan.
LEMMA LoopInvariant == Spec => []LoopInv
  <1>1. LoopInv /\ [Next]_vars => LoopInv'
    BY HighestKeeps, HighestDoneKeeps, ExtrasKeeps, ExtrasDoneKeeps, PendingKeeps,
       PendingDoneKeeps, StutterKeeps DEF Next
  <1> QED BY LoopInit, <1>1, PTL DEF Spec

-----------------------------------------------------------------------------
\* What BuildPlan returns.

\* The sets of a finished plan.
LEMMA FinishedPlan ==
  ASSUME LoopInv, loop = "done"
  PROVE  /\ ToSet(ToRollback) = ToSet(fromDB) \ ToSet(fromFiles)
         /\ ToSet(ToApply) = ToSet(fromFiles) \ ToSet(fromDB)
         /\ \A m \in ToSet(fromDB) : Counts(m) => m <= maxAppliedID
         /\ maxAppliedID # NoID => maxAppliedID \in ToSet(fromDB) /\ Counts(maxAppliedID)
         /\ ToSet(Interleaved) = {m \in ToSet(ToApply) : maxAppliedID # NoID /\ m < maxAppliedID}
  <1>1. ArgsInv /\ HighestOf(Len(fromDB)) /\ ExtrasAfter(0) /\ PendingOf(Len(fromFiles))
    BY DEF LoopInv, DoneInv
  <1> DEFINE N == Len(fromDB)
             M == Len(fromFiles)
  <1>2. /\ \A m : m \in ToSet(fromDB) <=> \E k \in 1 .. N : fromDB[k] = m
        /\ \A m : m \in ToSet(fromFiles) <=> \E k \in 1 .. M : fromFiles[k] = m
    BY <1>1, SliceFacts DEF ArgsInv, ToSet
  <1>3. /\ ToSet(fromDB) \subseteq Ids /\ ToSet(fromFiles) \subseteq Ids
        /\ ToSet(ToRollback) \subseteq Ids /\ ToSet(ToApply) \subseteq Ids
        /\ ToSet(Interleaved) \subseteq Ids
    BY <1>1, SliceFacts DEF ArgsInv, ExtrasAfter, PendingOf
  <1>4. ToSet(ToRollback) = ToSet(fromDB) \ ToSet(fromFiles)
    <2>1. \A m \in Ids : m \in ToSet(ToRollback) <=>
            \E k \in 1 .. N : fromDB[k] = m /\ ~InFiles(m)
      BY <1>1 DEF ExtrasAfter
    <2> QED BY <1>2, <1>3, <2>1 DEF InFiles
  <1>5. ToSet(ToApply) = ToSet(fromFiles) \ ToSet(fromDB)
    <2>1. \A m \in Ids : m \in ToSet(ToApply) <=>
            \E k \in 1 .. M : fromFiles[k] = m /\ ~InDB(m)
      BY <1>1 DEF PendingOf
    <2> QED BY <1>2, <1>3, <2>1 DEF InDB
  <1>6. ToSet(Interleaved) = {m \in ToSet(ToApply) : maxAppliedID # NoID /\ m < maxAppliedID}
    BY <1>1, <1>3 DEF PendingOf
  <1>7. /\ \A m \in ToSet(fromDB) : Counts(m) => m <= maxAppliedID
        /\ maxAppliedID # NoID => maxAppliedID \in ToSet(fromDB) /\ Counts(maxAppliedID)
    BY <1>1, <1>2 DEF HighestOf
  <1> QED BY <1>4, <1>5, <1>6, <1>7

\* A finished plan lists no migration twice.
LEMMA PlanListsOnce ==
  ASSUME LoopInv, loop = "done"
  PROVE  Injective(ToRollback) /\ Injective(ToApply)
  <1>1. ArgsInv /\ ExtrasAfter(0) /\ PendingOf(Len(fromFiles))
    BY DEF LoopInv, DoneInv
  <1>2. /\ DOMAIN ToRollback = 1 .. Len(ToRollback) /\ Len(ToRollback) \in Nat
        /\ DOMAIN ToApply = 1 .. Len(ToApply) /\ Len(ToApply) \in Nat
        /\ \A k \in DOMAIN ToRollback : ToRollback[k] \in ToSet(ToRollback)
        /\ \A k \in DOMAIN ToApply : ToApply[k] \in Nat
    BY <1>1, SliceFacts DEF ExtrasAfter, PendingOf
  <1>3. \A j, k \in DOMAIN ToApply : j < k => ToApply[j] < ToApply[k]
    BY <1>1 DEF PendingOf, Ascending
  <1>4. Injective(ToApply)
    BY <1>2, <1>3 DEF Injective
  <1>5. ASSUME NEW j \in DOMAIN ToRollback, NEW k \in DOMAIN ToRollback,
               j < k, ToRollback[j] = ToRollback[k]
        PROVE  FALSE
    <2>1. PICK p \in DOMAIN fromDB : fromDB[p] = ToRollback[j]
      BY <1>2, FinishedPlan DEF ToSet
    <2>2. p > p
      BY <1>1, <1>5, <2>1 DEF ExtrasAfter
    <2>3. p \in Nat
      BY <1>1, SliceFacts DEF ArgsInv
    <2> QED BY <2>2, <2>3
  <1>6. Injective(ToRollback)
    BY <1>2, <1>5 DEF Injective
  <1> QED BY <1>4, <1>6

(***************************************************************************)
(* The loops of BuildPlan compute its set-level reading, for every source  *)
(* and every application order: the service, which is modelled with the    *)
(* sets, works with the plan the code builds, and no migration is in a     *)
(* plan twice, to be executed twice.                                       *)
(***************************************************************************)
THEOREM LoopsComputePlan == Spec => []LoopsComputeBuildPlan
  <1>1. LoopInv => LoopsComputeBuildPlan
    <2> SUFFICES ASSUME LoopInv, loop = "done"
                 PROVE  LET plan == BuildPlan(ToSet(fromFiles), ToSet(fromDB), rollbackExtras)
                        IN  /\ ToSet(ToRollback) = plan.toRollback
                            /\ ToSet(ToApply) = plan.toApply
                            /\ ToSet(Interleaved) = plan.interleaved
                            /\ Len(ToRollback) = Cardinality(plan.toRollback)
                            /\ Len(ToApply) = Cardinality(plan.toApply)
      BY DEF LoopsComputeBuildPlan
    <2> DEFINE F == ToSet(fromFiles)
               D == ToSet(fromDB)
               stays == IF rollbackExtras THEN D \cap F ELSE D
               plan == BuildPlan(F, D, rollbackExtras)
    <2>1. /\ plan.toRollback = D \ F /\ plan.toApply = F \ D
          /\ plan.interleaved = {m \in F \ D : \E k \in stays : m < k}
      BY DEF BuildPlan
    <2>2. ToSet(ToRollback) = D \ F /\ ToSet(ToApply) = F \ D
      BY FinishedPlan
    <2>3. \A m : m \in stays <=> m \in D /\ Counts(m)
      BY DEF Counts, InFiles, LoopInv, ArgsInv
    <2>4. /\ maxAppliedID \in Nat /\ F \subseteq Nat /\ D \subseteq Nat
          /\ \A m \in D : m # NoID
      <3>1. F \subseteq Ids /\ D \subseteq Ids
        BY SliceFacts DEF LoopInv, ArgsInv
      <3> QED BY <3>1, IdsAssumption DEF LoopInv, DoneInv, HighestOf, NoID
    <2>5. ASSUME NEW m \in F
          PROVE  (\E k \in stays : m < k) <=> maxAppliedID # NoID /\ m < maxAppliedID
      <3>1. ASSUME NEW k \in stays, m < k PROVE maxAppliedID # NoID /\ m < maxAppliedID
        <4>1. k \in D /\ Counts(k)
          BY <2>3
        <4>2. k <= maxAppliedID
          BY <4>1, FinishedPlan
        <4> QED BY <2>4, <3>1, <4>1, <4>2 DEF NoID
      <3>2. ASSUME maxAppliedID # NoID PROVE maxAppliedID \in stays
        BY <2>3, <3>2, FinishedPlan
      <3> HIDE DEF stays
      <3> QED BY <3>1, <3>2
    <2>6. ToSet(Interleaved) = {m \in F \ D : maxAppliedID # NoID /\ m < maxAppliedID}
      BY <2>2, FinishedPlan
    <2> HIDE DEF stays
    <2>7. ToSet(Interleaved) = plan.interleaved
      BY <2>1, <2>5, <2>6
    <2>8. ToRollback \in Seq(Ids) /\ ToApply \in Seq(Ids)
      BY DEF LoopInv, DoneInv, ExtrasAfter, PendingOf
    <2>9. /\ Len(ToRollback) = Cardinality(ToSet(ToRollback))
          /\ Len(ToApply) = Cardinality(ToSet(ToApply))
      BY <2>8, PlanListsOnce, LengthIsCardinality
    <2> QED BY <2>1, <2>2, <2>7, <2>9
  <1> QED BY LoopInvariant, <1>1, PTL

(***************************************************************************)
(* Executing a plan undoes, at every rollback, the extra that was applied  *)
(* last among those still there: slices.Backward(fromDB) follows the       *)
(* application order, whatever the IDs.                                    *)
(***************************************************************************)
THEOREM PlanRollsBackLatestFirst == Spec => []RollsBackLatestFirst
  <1>1. LoopInv => RollsBackLatestFirst
    <2> DEFINE at(m) == CHOOSE p \in DOMAIN fromDB : fromDB[p] = m
    <2> SUFFICES ASSUME LoopInv, loop = "done",
                        NEW k \in DOMAIN ToRollback, NEW later \in k+1 .. Len(ToRollback)
                 PROVE  at(ToRollback[k]) > at(ToRollback[later])
      BY DEF RollsBackLatestFirst
    <2>1. ExtrasAfter(0)
      BY DEF LoopInv, DoneInv
    <2>2. /\ DOMAIN ToRollback = 1 .. Len(ToRollback) /\ Len(ToRollback) \in Nat
          /\ \A h \in DOMAIN ToRollback : ToRollback[h] \in ToSet(ToRollback)
      BY <2>1, SliceFacts DEF ExtrasAfter
    <2>3. later \in DOMAIN ToRollback /\ k < later
      BY <2>2
    <2>4. \A h \in DOMAIN ToRollback : \E p \in DOMAIN fromDB : fromDB[p] = ToRollback[h]
      BY <2>2, FinishedPlan DEF ToSet
    <2>5. \A h \in DOMAIN ToRollback :
            at(ToRollback[h]) \in DOMAIN fromDB /\ fromDB[at(ToRollback[h])] = ToRollback[h]
      BY <2>4
    <2> HIDE DEF at
    <2> QED BY <2>1, <2>3, <2>5 DEF ExtrasAfter
  <1> QED BY LoopInvariant, <1>1, PTL

(***************************************************************************)
(* The flag that makes Reconcile refuse an out-of-order plan is raised     *)
(* exactly when executing the plan would leave the migrations applied out  *)
(* of ID order, whether or not the extras are rolled back first.           *)
(***************************************************************************)
THEOREM InterleavedMeansOutOfOrder == Spec => []InterleavedIffOutOfOrder
  <1>1. LoopInv => InterleavedIffOutOfOrder
    <2> SUFFICES ASSUME LoopInv, loop = "done",
                        \A m, n \in Ids : RemainsBefore(m, n) => m < n
                 PROVE  Interleaved = <<>> <=> \A m, n \in Ids : EndsUpBefore(m, n) => m < n
      BY DEF InterleavedIffOutOfOrder
    <2>1. ArgsInv /\ HighestOf(Len(fromDB)) /\ PendingOf(Len(fromFiles))
      BY DEF LoopInv, DoneInv
    <2>2. maxAppliedID \in Nat /\ \A m \in Ids : m \in Nat /\ m # NoID
      BY <2>1, IdsAssumption DEF HighestOf, NoID
    <2>3. ToSet(fromDB) \subseteq Ids /\ ToSet(ToApply) \subseteq Ids /\ ToSet(Interleaved) \subseteq Ids
      BY <2>1, SliceFacts DEF ArgsInv, PendingOf
    <2>4. \A m : StaysApplied(m) <=> m \in ToSet(fromDB) /\ Counts(m)
      BY FinishedPlan DEF StaysApplied, InDB, Counts, InFiles
    <2>5. ASSUME Interleaved = <<>>, NEW m \in Ids, NEW n \in Ids, EndsUpBefore(m, n)
          PROVE  m < n
      <3>1. CASE RemainsBefore(m, n)
        BY <3>1
      <3>2. CASE StaysApplied(m) /\ n \in ToSet(ToApply)
        <4>1. m \in ToSet(fromDB) /\ m <= maxAppliedID
          BY <2>4, <3>2, FinishedPlan
        <4>2. n \notin ToSet(Interleaved)
          BY <2>5, EmptySlice
        <4>3. ~(maxAppliedID # NoID /\ n < maxAppliedID)
          BY <3>2, <4>2, FinishedPlan
        <4>4. n # m
          BY <3>2, <4>1, FinishedPlan
        <4> QED BY <2>2, <4>1, <4>3, <4>4 DEF NoID
      <3>3. CASE Lists(ToApply, m, n)
        BY <2>1, <3>3 DEF Lists, PendingOf, Ascending
      <3> QED BY <2>5, <3>1, <3>2, <3>3 DEF EndsUpBefore
    <2>6. ASSUME Interleaved # <<>>
          PROVE  \E m, n \in Ids : EndsUpBefore(m, n) /\ ~(m < n)
      <3>1. PICK n \in ToSet(Interleaved) : TRUE
        <4>1. Interleaved \in Seq(Ids)
          BY <2>1 DEF PendingOf
        <4>2. Len(Interleaved) \in Nat \ {0}
          BY <2>6, <4>1, EmptySeq
        <4>3. 1 \in DOMAIN Interleaved
          BY <4>1, <4>2, SliceFacts
        <4> QED BY <4>3 DEF ToSet
      <3>2. n \in ToSet(ToApply) /\ maxAppliedID # NoID /\ n < maxAppliedID
        BY <3>1, FinishedPlan
      <3>3. StaysApplied(maxAppliedID) /\ maxAppliedID \in Ids /\ n \in Ids
        BY <2>3, <2>4, <3>1, <3>2, FinishedPlan
      <3>4. EndsUpBefore(maxAppliedID, n)
        BY <3>2, <3>3 DEF EndsUpBefore
      <3>5. ~(maxAppliedID < n)
        BY <2>2, <3>2, <3>3
      <3> QED BY <3>3, <3>4, <3>5
    <2> QED BY <2>5, <2>6
  <1> QED BY LoopInvariant, <1>1, PTL
=============================================================================
