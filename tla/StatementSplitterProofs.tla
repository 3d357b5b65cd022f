----------------------- MODULE StatementSplitterProofs -----------------------
(***************************************************************************)
(* splitSQLStatements cuts every script where the reference does.  The     *)
(* scanner goes from unit to unit: in a literal, a comment or a            *)
(* dollar-quoted text its state says how much of the unit lies behind it,  *)
(* in the terms in which the reference says where the unit ends.           *)
(*                                                                         *)
(* The facts about all scripts rest on the well-foundedness of the natural *)
(* numbers: a set of places that is not empty has a least element.         *)
(***************************************************************************)
EXTENDS StatementSplitter, SequenceTheorems, FiniteSetTheorems, WellFoundedInduction, TLAPS

\* A set of numbers that is not empty has a least one.  This is what induction
\* over the places of a script comes down to here.
LEMMA Least ==
  ASSUME NEW T \in SUBSET Nat, T # {}
  PROVE  \E k \in T : \A j \in T : k <= j
  <1>1. PICK k \in T : \A j \in T : ~(<<j, k>> \in OpToRel(<, Nat))
    BY NatLessThanWellFounded, WFMin
  <1>2. \A j \in T : ~(j < k)
    BY <1>1 DEF OpToRel
  <1> QED BY <1>2

\* So Min picks it,
LEMMA MinFacts ==
  ASSUME NEW T \in SUBSET Nat, T # {}
  PROVE  Min(T) \in T /\ Min(T) \in Nat /\ \A j \in T : Min(T) <= j
  BY Least DEF Min

\* and there is only one.
LEMMA MinIs ==
  ASSUME NEW T \in SUBSET Nat, NEW m \in T, \A j \in T : m <= j
  PROVE  Min(T) = m
  <1>1. Min(T) \in T /\ Min(T) \in Nat /\ Min(T) <= m /\ m <= Min(T) /\ m \in Nat
    BY MinFacts
  <1> QED BY <1>1

\* A bounded set of numbers that is not empty has a greatest one,
LEMMA MaxFacts ==
  ASSUME NEW n \in Nat, NEW T \in SUBSET (0 .. n), T # {}
  PROVE  Max(T) \in T /\ \A j \in T : j <= Max(T)
  <1> DEFINE U == {n - k : k \in T}
  <1>1. U \in SUBSET Nat /\ U # {}
    <2>1. \A k \in T : n - k \in Nat
      OBVIOUS
    <2>2. PICK k \in T : TRUE
      OBVIOUS
    <2>3. n - k \in U
      OBVIOUS
    <2> QED BY <2>1, <2>3
  <1>2. PICK t \in U : \A j \in U : t <= j
    BY <1>1, Least
  <1>3. PICK k \in T : t = n - k
    BY <1>2
  <1>4. \A j \in T : n - k <= n - j
    BY <1>2, <1>3
  <1>5. \A j \in T : k >= j
    BY <1>4
  <1>6. Max(T) \in T /\ \A j \in T : Max(T) >= j
    BY <1>5 DEF Max
  <1> QED BY <1>6

\* and only one.
LEMMA MaxIs ==
  ASSUME NEW n \in Nat, NEW T \in SUBSET (0 .. n), NEW m \in T, \A j \in T : j <= m
  PROVE  Max(T) = m
  <1>1. Max(T) \in T /\ m <= Max(T)
    BY MaxFacts
  <1>2. Max(T) \in Nat /\ m \in Nat /\ Max(T) <= m
    <2>1. \A j \in T : j \in Nat /\ j <= m
      OBVIOUS
    <2> QED BY <1>1, <2>1
  <1> QED BY <1>1, <1>2

\* The first element, if there is one.
LEMMA FirstOrFacts ==
  ASSUME NEW T \in SUBSET Nat, NEW x
  PROVE  /\ T = {} => FirstOr(T, x) = x
         /\ T # {} => FirstOr(T, x) \in T /\ \A j \in T : FirstOr(T, x) <= j
         /\ \A m \in T : (\A j \in T : m <= j) => FirstOr(T, x) = m
  BY MinFacts, MinIs DEF FirstOr

\* What FirstOr is, once a first element is known.
LEMMA FirstOrIs ==
  ASSUME NEW T \in SUBSET Nat, NEW x, NEW m \in T, \A j \in T : m <= j
  PROVE  FirstOr(T, x) = m
  BY MinIs DEF FirstOr

\* A run before k grows with a place of S at k, and ends with any other.
LEMMA RunFacts ==
  ASSUME NEW S, NEW i \in Nat, NEW k \in Nat, i <= k
  PROVE  /\ Run(S, i, k) \in Nat
         /\ Run(S, i, i) = 0
         /\ k \in S => Run(S, i, k + 1) = Run(S, i, k) + 1
         /\ k \notin S => Run(S, i, k + 1) = 0
  <1> DEFINE T(n) == {j \in i .. n : j = i \/ j - 1 \notin S}
  <1>1. T(k) \in SUBSET (0 .. k) /\ i \in T(k)
    OBVIOUS
  <1>2. Max(T(k)) \in T(k) /\ \A j \in T(k) : j <= Max(T(k))
    BY <1>1, MaxFacts
  <1>3. Run(S, i, k) \in Nat
    BY <1>1, <1>2 DEF Run
  <1>4. Run(S, i, i) = 0
    <2>1. T(i) \in SUBSET (0 .. i) /\ i \in T(i) /\ \A j \in T(i) : j <= i
      OBVIOUS
    <2>2. Max(T(i)) = i
      BY <2>1, MaxIs
    <2> QED BY <2>2 DEF Run
  <1>5. T(k + 1) \in SUBSET (0 .. k + 1)
    OBVIOUS
  <1>6. ASSUME k \in S PROVE Run(S, i, k + 1) = Run(S, i, k) + 1
    <2>1. T(k + 1) = T(k)
      <3>1. ASSUME NEW j \in T(k + 1) PROVE j \in T(k)
        <4>1. j # k + 1
          BY <1>6
        <4> QED BY <4>1
      <3> QED BY <3>1
    <2> QED BY <1>1, <1>2, <2>1 DEF Run
  <1>7. ASSUME k \notin S PROVE Run(S, i, k + 1) = 0
    <2>1. k + 1 \in T(k + 1) /\ \A j \in T(k + 1) : j <= k + 1
      BY <1>7
    <2>2. Max(T(k + 1)) = k + 1
      <3> DEFINE n == k + 1
                 U == T(n)
      <3>1. n \in Nat /\ U \in SUBSET (0 .. n) /\ n \in U /\ \A j \in U : j <= n
        BY <1>5, <2>1
      <3> HIDE DEF n, U
      <3>2. Max(U) = n
        BY <3>1, MaxIs
      <3> QED BY <3>2 DEF n, U
    <2> QED BY <2>2 DEF Run
  <1> QED BY <1>3, <1>4, <1>6, <1>7

\* A scanner that takes the places of S two at a time sees the ones with an even
\* run before them.
LEMMA EvenRuns ==
  ASSUME NEW S, NEW i \in Nat, NEW k \in Nat, i <= k, Run(S, i, k) % 2 = 0
  PROVE  /\ k \notin S => Run(S, i, k + 1) % 2 = 0
         /\ k \in S => Run(S, i, k + 1) % 2 # 0 /\ Run(S, i, k + 2) % 2 = 0
  <1>1. Run(S, i, k) \in Nat
    BY RunFacts
  <1>2. k \notin S => Run(S, i, k + 1) % 2 = 0
    <2>1. k \notin S => Run(S, i, k + 1) = 0
      BY RunFacts
    <2> QED BY <2>1
  <1>3. ASSUME k \in S PROVE Run(S, i, k + 1) % 2 # 0 /\ Run(S, i, k + 2) % 2 = 0
    <2> DEFINE n == k + 1
    <2>1. Run(S, i, n) = Run(S, i, k) + 1
      BY <1>3, RunFacts
    <2>2. n \in Nat /\ i <= n /\ n + 1 = k + 2
      OBVIOUS
    <2> HIDE DEF n
    <2>3. /\ n \in S => Run(S, i, n + 1) = Run(S, i, n) + 1
          /\ n \notin S => Run(S, i, n + 1) = 0
      BY <2>2, RunFacts
    <2>4. Run(S, i, n) % 2 # 0 /\ Run(S, i, n + 1) % 2 = 0
      <3>1. CASE n \in S
        BY <1>1, <2>1, <2>3, <3>1
      <3>2. CASE n \notin S
        BY <1>1, <2>1, <2>3, <3>2
      <3> QED BY <3>1, <3>2
    <2> QED BY <2>2, <2>4 DEF n
  <1> QED BY <1>2, <1>3

\* The script is a text over the characters the scanner tells apart.
Text == script \in Seq(Chars)

\* What a script has at a place, and past its end.
LEMMA TextFacts ==
  ASSUME Text
  PROVE  /\ Len(script) \in Nat /\ DOMAIN script = 1 .. Len(script)
         /\ \A k \in 1 .. Len(script) : At(k) = script[k] /\ At(k) \in Chars
         /\ \A k : k \notin 1 .. Len(script) => At(k) = "\n"
         /\ \A k : At(k) # "\n" => k \in 1 .. Len(script)
  <1>1. Len(script) \in Nat /\ DOMAIN script = 1 .. Len(script)
    BY LenProperties DEF Text
  <1>2. \A k \in 1 .. Len(script) : script[k] \in Chars
    BY ElementOfSeq DEF Text
  <1> QED BY <1>1, <1>2 DEF At

\* A line ends at the first line end.
LEMMA LineEndFacts ==
  ASSUME Text, NEW k \in Nat \ {0}, k <= Len(script) + 1
  PROVE  /\ LineEnd(k) \in k .. Len(script) + 1 /\ At(LineEnd(k)) = "\n"
         /\ \A j \in k .. LineEnd(k) - 1 : At(j) # "\n"
         /\ At(k) # "\n" => LineEnd(k) > k
  <1> DEFINE T == {j \in k .. Len(script) + 1 : At(j) = "\n"}
  <1>1. Len(script) \in Nat /\ At(Len(script) + 1) = "\n"
    BY TextFacts
  <1>2. T \in SUBSET Nat /\ Len(script) + 1 \in T
    BY <1>1
  <1>3. Min(T) \in T /\ \A j \in T : Min(T) <= j
    BY <1>2, MinFacts
  <1>4. LineEnd(k) = Min(T)
    BY DEF LineEnd
  <1>5. \A j \in k .. LineEnd(k) - 1 : At(j) # "\n"
    <2> SUFFICES ASSUME NEW j \in k .. LineEnd(k) - 1, At(j) = "\n" PROVE FALSE
      OBVIOUS
    <2>1. LineEnd(k) \in k .. Len(script) + 1
      BY <1>3, <1>4
    <2>2. j \in T /\ ~(LineEnd(k) <= j)
      BY <1>1, <2>1
    <2> QED BY <1>3, <1>4, <2>2
  <1>6. LineEnd(k) \in k .. Len(script) + 1 /\ At(LineEnd(k)) = "\n"
    BY <1>3, <1>4
  <1>7. At(k) # "\n" => LineEnd(k) > k
    BY <1>1, <1>6
  <1> QED BY <1>5, <1>6, <1>7

\* A delimiter is a part of the script, at least two characters long.
LEMMA TagFacts ==
  ASSUME Text, NEW u \in 1 .. Len(script), matchDollarTag(u) # << >>
  PROVE  LET n == Len(matchDollarTag(u)) IN
         /\ n \in Nat /\ n >= 2 /\ u + n - 1 <= Len(script)
         /\ matchDollarTag(u) = SubSeq(script, u, u + n - 1)
  <1> DEFINE T == {i \in u + 1 .. Len(script) + 1 : At(i) \notin Identifier}
             j == Min(T)
  <1>1. Len(script) \in Nat /\ At(Len(script) + 1) = "\n"
    BY TextFacts
  <1>2. T \in SUBSET Nat /\ Len(script) + 1 \in T
    BY <1>1 DEF Identifier, Letters, Digits
  <1>3. j \in T
    BY <1>2, MinFacts
  <1>4. matchDollarTag(u) = SubSeq(script, u, j) /\ At(j) = "$"
    BY DEF matchDollarTag
  <1>5. j \in u + 1 .. Len(script)
    <2>1. j \in 1 .. Len(script)
      BY <1>4, TextFacts
    <2> QED BY <1>1, <1>3, <2>1
  <1> HIDE DEF j
  <1>6. Len(SubSeq(script, u, j)) = j - u + 1
    BY <1>1, <1>5, SubSeqProperties DEF Text
  <1> QED BY <1>1, <1>4, <1>5, <1>6

\* The double quote is none of the other characters.
LEMMA DoubleQuoteDiffers ==
  DoubleQuote \notin {"'", "$", "-", "/", "*", ";", "\n", "Begin", "End"}
  BY Zenon DEF DoubleQuote

\* The cases of UnitEnd exclude each other.
LEMMA UnitEndIs ==
  ASSUME Text, NEW i \in 1 .. Len(script)
  PROVE  /\ MarkerLine(i, "Begin") => UnitEnd(i) = FirstOr(BlockEnds(i), Len(script)) + 1
         /\ At(i) = "'" => UnitEnd(i) = QuotedEnd(i, "'", Escapes(i))
         /\ At(i) = DoubleQuote => UnitEnd(i) = QuotedEnd(i, DoubleQuote, {})
         /\ At(i) = "$" /\ matchDollarTag(i) # << >> => UnitEnd(i) = DollarEnd(i)
         /\ Dashes(i) /\ ~MarkerLine(i, "Begin") => UnitEnd(i) = LineEnd(i) - 1
         /\ Pair(i) = <<"/", "*">> => UnitEnd(i) = CommentEnd(i)
         /\ At(i) \notin {"'", DoubleQuote} /\ ~(At(i) = "$" /\ matchDollarTag(i) # << >>)
            /\ ~Dashes(i) /\ Pair(i) # <<"/", "*">> => UnitEnd(i) = i
  <1>1. MarkerLine(i, "Begin") => At(i) = "Begin"
    BY DEF MarkerLine
  <1>2. Dashes(i) => At(i) \in {"Begin", "End", "-"}
    BY DEF Dashes, Markers
  <1>3. At(i) = "Begin" => Dashes(i)
    BY DEF Dashes, Markers
  <1>4. Pair(i) = <<"/", "*">> => At(i) = "/"
    BY DEF Pair
  <1>5. CASE MarkerLine(i, "Begin")
    BY <1>1, <1>3, <1>4, <1>5, DoubleQuoteDiffers DEF UnitEnd
  <1>6. CASE At(i) = "'"
    BY <1>1, <1>2, <1>4, <1>6, DoubleQuoteDiffers DEF UnitEnd
  <1>7. CASE At(i) = DoubleQuote
    BY <1>1, <1>2, <1>4, <1>7, DoubleQuoteDiffers DEF UnitEnd
  <1>8. CASE At(i) = "$" /\ matchDollarTag(i) # << >>
    BY <1>1, <1>2, <1>4, <1>8, DoubleQuoteDiffers DEF UnitEnd
  <1>9. CASE Dashes(i) /\ ~MarkerLine(i, "Begin")
    BY <1>1, <1>2, <1>4, <1>9, DoubleQuoteDiffers DEF UnitEnd
  <1>10. CASE Pair(i) = <<"/", "*">>
    BY <1>1, <1>2, <1>4, <1>10, DoubleQuoteDiffers DEF UnitEnd
  <1>11. CASE At(i) \notin {"'", DoubleQuote} /\ ~(At(i) = "$" /\ matchDollarTag(i) # << >>)
              /\ ~Dashes(i) /\ Pair(i) # <<"/", "*">>
    BY <1>1, <1>3, <1>11, DoubleQuoteDiffers DEF UnitEnd
  <1> QED BY <1>5, <1>6, <1>7, <1>8, <1>9, <1>10, <1>11

\* A unit has at least the character it starts with.
LEMMA UnitEndType ==
  ASSUME Text, NEW i \in 1 .. Len(script)
  PROVE  UnitEnd(i) \in Nat /\ i <= UnitEnd(i)
  <1>1. Len(script) \in Nat /\ i \in Nat /\ i <= Len(script) /\ i >= 1
    BY TextFacts
  <1>2. ASSUME NEW T \in SUBSET (i .. Len(script)), NEW x \in i - 1 .. Len(script)
        PROVE  FirstOr(T, x) \in Nat /\ FirstOr(T, x) >= i - 1 /\ (x >= i => FirstOr(T, x) >= i)
    <2>1. T \in SUBSET Nat
      BY <1>1
    <2>2. CASE T = {}
      BY <1>1, <2>2 DEF FirstOr
    <2>3. CASE T # {}
      <3>1. FirstOr(T, x) \in T
        BY <2>1, <2>3, FirstOrFacts
      <3>2. FirstOr(T, x) \in i .. Len(script)
        BY <3>1
      <3> QED BY <1>1, <3>2
    <2> QED BY <2>2, <2>3
  <1>3. CASE MarkerLine(i, "Begin")
    <2>1. BlockEnds(i) \in SUBSET (i .. Len(script))
      BY <1>1 DEF BlockEnds
    <2>2. UnitEnd(i) = FirstOr(BlockEnds(i), Len(script)) + 1
      BY <1>3, UnitEndIs
    <2> QED BY <1>1, <1>2, <2>1, <2>2
  <1>4. ASSUME NEW q, NEW e PROVE QuotedEnd(i, q, e) \in Nat /\ i <= QuotedEnd(i, q, e)
    <2> DEFINE T == {k \in Quotes(i, q, e) : At(k + 1) # q /\ Cardinality(UpTo(Quotes(i, q, e), k)) % 2 = 1}
    <2>1. T \in SUBSET (i .. Len(script))
      BY <1>1 DEF Quotes
    <2>2. QuotedEnd(i, q, e) = FirstOr(T, Len(script))
      BY DEF QuotedEnd
    <2> HIDE DEF T
    <2> QED BY <1>1, <1>2, <2>1, <2>2
  <1>5. CASE At(i) = "'"
    <2>1. UnitEnd(i) = QuotedEnd(i, "'", Escapes(i))
      BY <1>5, UnitEndIs
    <2> QED BY <1>4, <2>1
  <1>6. CASE At(i) = DoubleQuote
    <2>1. UnitEnd(i) = QuotedEnd(i, DoubleQuote, {})
      BY <1>6, UnitEndIs
    <2> QED BY <1>4, <2>1
  <1>7. CASE At(i) = "$" /\ matchDollarTag(i) # << >>
    <2> DEFINE n == Len(matchDollarTag(i))
               T == {k \in i + 2 * n - 1 .. Len(script) : SubSeq(script, k - n + 1, k) = matchDollarTag(i)}
    <2>1. n \in Nat /\ n >= 2
      BY <1>7, TagFacts
    <2> HIDE DEF n
    <2>2. T \in SUBSET (i .. Len(script))
      BY <1>1, <2>1
    <2>3. UnitEnd(i) = FirstOr(T, Len(script))
      BY <1>7, UnitEndIs DEF DollarEnd, n
    <2> HIDE DEF T
    <2> QED BY <1>1, <1>2, <2>2, <2>3
  <1>8. CASE Dashes(i) /\ ~MarkerLine(i, "Begin")
    <2>1. UnitEnd(i) = LineEnd(i) - 1
      BY <1>8, UnitEndIs
    <2>2. At(i) # "\n"
      BY <1>8 DEF Dashes, Markers
    <2>3. LineEnd(i) \in i .. Len(script) + 1 /\ LineEnd(i) > i
      BY <1>1, <2>2, LineEndFacts
    <2> QED BY <1>1, <2>1, <2>3
  <1>9. CASE Pair(i) = <<"/", "*">>
    <2> DEFINE T == {k \in Brackets(i, "*") :
                       Cardinality(UpTo(Brackets(i, "/"), k)) = Cardinality(UpTo(Brackets(i, "*"), k))}
    <2>1. T \in SUBSET (i .. Len(script))
      BY <1>1, TextFacts DEF Brackets, BracketPairs
    <2>2. UnitEnd(i) = 1 + FirstOr(T, Len(script) - 1)
      BY <1>9, UnitEndIs DEF CommentEnd
    <2> HIDE DEF T
    <2> QED BY <1>1, <1>2, <2>1, <2>2
  <1>10. CASE At(i) \notin {"'", DoubleQuote} /\ ~(At(i) = "$" /\ matchDollarTag(i) # << >>)
              /\ ~Dashes(i) /\ Pair(i) # <<"/", "*">>
    <2>1. UnitEnd(i) = i
      BY <1>10, UnitEndIs
    <2> QED BY <1>1, <2>1
  <1> QED BY <1>3, <1>5, <1>6, <1>7, <1>8, <1>9, <1>10

\* UnitOf satisfies its recursive definition: by induction on the length of the
\* prefix up to which such a function exists.
LEMMA UnitOfDef ==
  ASSUME Text
  PROVE  UnitOf = [k \in DOMAIN script |->
                     IF k = 1 THEN 1
                     ELSE IF k = UnitEnd(UnitOf[k - 1]) + 1 THEN k ELSE UnitOf[k - 1]]
  <1> DEFINE Is(f, n) == f = [k \in 1 .. n |->
                     IF k = 1 THEN 1 ELSE IF k = UnitEnd(f[k - 1]) + 1 THEN k ELSE f[k - 1]]
             None == {n \in Nat : ~ \E f : Is(f, n)}
  <1>1. None = {}
    <2> SUFFICES ASSUME None # {} PROVE FALSE
      OBVIOUS
    <2>1. PICK n \in None : \A j \in None : n <= j
      BY Least
    <2>a. n \in Nat
      BY <2>1
    <2>2. n # 0
      <3> DEFINE f == [k \in 1 .. 0 |-> 0]
      <3>1. Is(f, 0)
        OBVIOUS
      <3> QED BY <2>1, <3>1
    <2>3. n - 1 \in Nat /\ n - 1 \notin None
      <3>1. n - 1 \in Nat /\ ~(n <= n - 1)
        BY <2>a, <2>2
      <3> QED BY <2>1, <3>1
    <2>4. PICK f : Is(f, n - 1)
      BY <2>3
    <2> DEFINE g == [k \in 1 .. n |-> IF k < n THEN f[k] ELSE
                       IF k = 1 THEN 1 ELSE IF k = UnitEnd(f[k - 1]) + 1 THEN k ELSE f[k - 1]]
    <2> HIDE DEF None
    <2>5. Is(g, n)
      <3>1. \A k \in 1 .. n : k # 1 => g[k - 1] = f[k - 1]
        BY <2>a
      <3>2. \A k \in 1 .. n : g[k] =
              IF k = 1 THEN 1 ELSE IF k = UnitEnd(g[k - 1]) + 1 THEN k ELSE g[k - 1]
        <4> SUFFICES ASSUME NEW k \in 1 .. n
                     PROVE g[k] = IF k = 1 THEN 1 ELSE IF k = UnitEnd(g[k - 1]) + 1 THEN k ELSE g[k - 1]
          OBVIOUS
        <4>1. CASE k < n
          <5>1. k \in 1 .. n - 1
            BY <2>a, <4>1
          <5>2. f[k] = IF k = 1 THEN 1 ELSE IF k = UnitEnd(f[k - 1]) + 1 THEN k ELSE f[k - 1]
            BY <2>4, <5>1
          <5> QED BY <3>1, <4>1, <5>2
        <4>2. CASE ~(k < n)
          BY <3>1, <4>2
        <4> QED BY <4>1, <4>2
      <3> QED BY <3>2
    <2> QED BY <2>1, <2>5 DEF None
  <1>2. Len(script) \in Nat /\ DOMAIN script = 1 .. Len(script)
    BY TextFacts
  <1>3. \E f : Is(f, Len(script))
    BY <1>1, <1>2
  <1>4. \E f : f = [k \in DOMAIN script |->
                     IF k = 1 THEN 1 ELSE IF k = UnitEnd(f[k - 1]) + 1 THEN k ELSE f[k - 1]]
    BY <1>2, <1>3
  <1> QED BY <1>4 DEF UnitOf

\* A place within a unit belongs to it.
LEMMA UnitSpan ==
  ASSUME Text, NEW u \in Units
  PROVE  \A k \in u .. Len(script) : k <= UnitEnd(u) => UnitOf[k] = u
  <1> DEFINE T == {k \in u .. Len(script) : k <= UnitEnd(u) /\ UnitOf[k] # u}
  <1>1. Len(script) \in Nat /\ u \in 1 .. Len(script) /\ UnitOf[u] = u
    BY TextFacts DEF Units
  <1>2. UnitEnd(u) \in Nat /\ u <= UnitEnd(u)
    BY <1>1, UnitEndType
  <1>3. SUFFICES ASSUME T # {} PROVE FALSE
    OBVIOUS
  <1>4. T \in SUBSET Nat
    BY <1>1
  <1>5. PICK k \in T : \A j \in T : k <= j
    BY <1>3, <1>4, Least
  <1>6. k \in u .. Len(script) /\ k <= UnitEnd(u) /\ UnitOf[k] # u /\ k \in Nat
    BY <1>1, <1>5
  <1>7. k # u
    BY <1>1, <1>6
  <1>8. k - 1 \notin T /\ k - 1 \in u .. Len(script) /\ k - 1 <= UnitEnd(u)
    <2>1. ~(k <= k - 1) /\ k - 1 \in u .. Len(script) /\ k - 1 <= UnitEnd(u)
      BY <1>1, <1>2, <1>6, <1>7
    <2> QED BY <1>5, <2>1
  <1>9. UnitOf[k - 1] = u
    BY <1>8
  <1>10. k \in DOMAIN script /\ k # 1
    BY <1>1, <1>6, <1>7, TextFacts
  <1>11. UnitOf[k] = IF k = UnitEnd(u) + 1 THEN k ELSE u
    BY <1>9, <1>10, UnitOfDef
  <1> QED BY <1>2, <1>6, <1>11

\* The first unit, and the one behind a unit; there is none within it.
LEMMA UnitFacts ==
  ASSUME Text
  PROVE  /\ Units \in SUBSET (1 .. Len(script))
         /\ Len(script) >= 1 => 1 \in Units
         /\ \A u \in Units : /\ UnitEnd(u) \in Nat /\ u <= UnitEnd(u)
                             /\ UnitEnd(u) + 1 <= Len(script) => UnitEnd(u) + 1 \in Units
                             /\ \A k \in Units : k > u => k > UnitEnd(u)
  <1>1. Len(script) \in Nat /\ Units \in SUBSET (1 .. Len(script))
    BY TextFacts DEF Units
  <1>2. Len(script) >= 1 => 1 \in Units
    <2> SUFFICES ASSUME Len(script) >= 1 PROVE 1 \in Units
      OBVIOUS
    <2>1. 1 \in DOMAIN script
      BY <1>1, TextFacts
    <2>2. UnitOf[1] = 1
      BY <2>1, UnitOfDef
    <2> QED BY <2>1, <2>2 DEF Units
  <1>3. ASSUME NEW u \in Units
        PROVE  /\ UnitEnd(u) \in Nat /\ u <= UnitEnd(u)
               /\ UnitEnd(u) + 1 <= Len(script) => UnitEnd(u) + 1 \in Units
               /\ \A k \in Units : k > u => k > UnitEnd(u)
    <2>1. UnitEnd(u) \in Nat /\ u <= UnitEnd(u) /\ u \in Nat /\ u >= 1
      BY <1>1, UnitEndType
    <2>2. ASSUME UnitEnd(u) + 1 <= Len(script) PROVE UnitEnd(u) + 1 \in Units
      <3> DEFINE k == UnitEnd(u) + 1
      <3>1. k \in DOMAIN script /\ k # 1 /\ k - 1 = UnitEnd(u) /\ k - 1 \in u .. Len(script)
        BY <1>1, <2>1, <2>2, TextFacts
      <3>2. UnitOf[k - 1] = u
        BY <2>1, <3>1, UnitSpan
      <3>3. UnitOf[k] = k
        BY <3>1, <3>2, UnitOfDef
      <3> QED BY <3>1, <3>3 DEF Units
    <2>3. ASSUME NEW k \in Units, k > u PROVE k > UnitEnd(u)
      <3>1. SUFFICES ASSUME k <= UnitEnd(u) PROVE FALSE
        BY <1>1, <2>1
      <3>2. UnitOf[k] = k /\ k \in u .. Len(script)
        BY <1>1, <2>1, <2>3 DEF Units
      <3>3. UnitOf[k] = u
        BY <3>1, <3>2, UnitSpan
      <3> QED BY <2>1, <2>3, <3>2, <3>3
    <2> QED BY <2>1, <2>2, <2>3
  <1> QED BY <1>1, <1>2, <1>3

-----------------------------------------------------------------------------
(***************************************************************************)
(* Inside a unit: where in it the scanner is, and where it ends.           *)
(***************************************************************************)

\* How the number of elements up to a place grows.
LEMMA CountFacts ==
  ASSUME NEW n \in Nat, NEW S \in SUBSET (1 .. n), NEW k \in Nat
  PROVE  /\ Cardinality(UpTo(S, k)) \in Nat
         /\ k + 1 \in S => Cardinality(UpTo(S, k + 1)) = Cardinality(UpTo(S, k)) + 1
         /\ k + 1 \notin S => UpTo(S, k + 1) = UpTo(S, k)
  <1>1. UpTo(S, k) \in SUBSET (1 .. n)
    BY DEF UpTo
  <1>2. IsFiniteSet(UpTo(S, k))
    <2>1. 1 \in Int /\ n \in Int
      OBVIOUS
    <2>2. IsFiniteSet(1 .. n)
      BY <2>1, FS_Interval
    <2> QED BY <1>1, <2>2, FS_Subset
  <1>a. \A j \in S : j \in Nat /\ (j <= k + 1 <=> j <= k \/ j = k + 1) /\ ~(k + 1 <= k)
    OBVIOUS
  <1>3. k + 1 \in S => UpTo(S, k + 1) = UpTo(S, k) \cup {k + 1} /\ k + 1 \notin UpTo(S, k)
    BY <1>a DEF UpTo
  <1>4. k + 1 \notin S => UpTo(S, k + 1) = UpTo(S, k)
    BY <1>a DEF UpTo
  <1>5. Cardinality(UpTo(S, k)) \in Nat
    BY <1>2, FS_CardinalityType
  <1>6. k + 1 \in S => Cardinality(UpTo(S, k + 1)) = Cardinality(UpTo(S, k)) + 1
    BY <1>2, <1>3, FS_AddElement
  <1> QED BY <1>4, <1>5, <1>6

\* The quote at k ends the literal that opens at u.
Closing(u, q, e, k) == At(k + 1) # q /\ Cardinality(UpTo(Quotes(u, q, e), k)) % 2 = 1

\* The scanner is at p, in the literal that opens at u.
InQuote(u, q, e, p) ==
  /\ p \in Nat /\ p > u
  /\ Run(e, u + 1, p) % 2 = 0
  /\ Cardinality(UpTo(Quotes(u, q, e), p - 1)) % 2 = 0
  /\ \A k \in Quotes(u, q, e) : k < p => ~Closing(u, q, e, k)

\* Quotes are places of the script.
LEMMA QuotesType ==
  ASSUME Text, NEW u \in 1 .. Len(script), NEW q, NEW e
  PROVE  Quotes(u, q, e) \in SUBSET (1 .. Len(script)) /\ Quotes(u, q, e) \in SUBSET Nat
  BY TextFacts DEF Quotes

\* Behind the opening quote the scanner is in the literal.
LEMMA QuoteOpens ==
  ASSUME Text, NEW u \in 1 .. Len(script), NEW q, NEW e
  PROVE  InQuote(u, q, e, u + 1)
  <1>1. Len(script) \in Nat /\ u \in Nat
    BY TextFacts
  <1>2. Run(e, u + 1, u + 1) = 0
    <2> DEFINE i == u + 1
    <2>1. i \in Nat /\ i <= i
      BY <1>1
    <2> HIDE DEF i
    <2>2. Run(e, i, i) = 0
      BY <2>1, RunFacts
    <2> QED BY <2>2 DEF i
  <1>3. \A k \in Quotes(u, q, e) : k > u
    BY <1>1 DEF Quotes
  <1>4. UpTo(Quotes(u, q, e), u) = {}
    BY <1>1, <1>3, QuotesType DEF UpTo
  <1>5. Cardinality(UpTo(Quotes(u, q, e), u + 1 - 1)) = 0
    BY <1>1, <1>4, FS_EmptySet
  <1>6. \A k \in Quotes(u, q, e) : ~(k < u + 1)
    BY <1>1, <1>3, QuotesType
  <1> QED BY <1>1, <1>2, <1>5, <1>6 DEF InQuote

\* One step in a literal: an escape and a doubled quote take two places, another
\* character one, and a lone quote is where the reference ends the literal.
LEMMA QuoteStep ==
  ASSUME Text, NEW u \in 1 .. Len(script), NEW q, q # "\n", NEW e,
         \A k \in e : At(k) # q,
         NEW p \in Nat, p <= Len(script), InQuote(u, q, e, p)
  PROVE  /\ p \in e => InQuote(u, q, e, p + 2)
         /\ p \notin e /\ At(p) # q => InQuote(u, q, e, p + 1)
         /\ Pair(p) = <<q, q>> => InQuote(u, q, e, p + 2)
         /\ At(p) = q /\ At(p + 1) # q => QuotedEnd(u, q, e) = p
  <1> DEFINE Q == Quotes(u, q, e)
             C(k) == Cardinality(UpTo(Q, k))
             run(k) == Run(e, u + 1, k)
  <1>1. /\ Len(script) \in Nat /\ u \in Nat /\ p \in Nat /\ p > u /\ u >= 1 /\ p \in DOMAIN script
        /\ p - 1 \in Nat /\ (p - 1) + 1 = p /\ u + 1 \in Nat /\ u + 1 <= p
    BY TextFacts DEF InQuote
  <1>2. /\ run(p) % 2 = 0
        /\ C(p - 1) % 2 = 0
        /\ \A k \in Q : k < p => ~Closing(u, q, e, k)
    BY DEF InQuote
  <1>4. \A k : k \in Q <=> k \in u + 1 .. Len(script) /\ At(k) = q /\ run(k) % 2 = 0
    BY DEF Quotes
  <1>5. Q \in SUBSET (1 .. Len(script)) /\ Q \in SUBSET Nat
    BY QuotesType
  <1>6. ASSUME NEW k \in Nat
        PROVE  /\ C(k) \in Nat
               /\ k + 1 \in Q => C(k + 1) = C(k) + 1
               /\ k + 1 \notin Q => C(k + 1) = C(k)
    BY <1>1, <1>5, CountFacts
  <1>7. /\ C(p - 1) \in Nat
        /\ p \in Q => C(p) = C(p - 1) + 1
        /\ p \notin Q => C(p) = C(p - 1)
    BY <1>1, <1>6
  <1>8. /\ p \notin e => run(p + 1) % 2 = 0
        /\ p \in e => run(p + 1) % 2 # 0 /\ run(p + 2) % 2 = 0
    BY <1>1, <1>2, EvenRuns
  <1> HIDE DEF Q, C, run
  <1>9. ASSUME p \in e PROVE InQuote(u, q, e, p + 2)
    <2>1. p \notin Q
      BY <1>4, <1>9
    <2>2. p + 1 \notin Q /\ run(p + 2) % 2 = 0
      BY <1>4, <1>8, <1>9
    <2>3. C(p + 1) = C(p - 1)
      BY <1>1, <1>6, <1>7, <2>1, <2>2
    <2>4. \A k \in Q : k < p + 2 => k < p
      BY <1>1, <1>5, <2>1, <2>2
    <2>5. p + 2 \in Nat /\ p + 2 > u /\ (p + 2) - 1 = p + 1
      BY <1>1
    <2> QED BY <1>2, <2>2, <2>3, <2>4, <2>5 DEF InQuote, Q, C, run
  <1>10. ASSUME p \notin e, At(p) # q PROVE InQuote(u, q, e, p + 1)
    <2>1. p \notin Q
      BY <1>4, <1>10
    <2>2. run(p + 1) % 2 = 0
      BY <1>8, <1>10
    <2>3. \A k \in Q : k < p + 1 => k < p
      BY <1>1, <1>5, <2>1
    <2>4. p + 1 \in Nat /\ p + 1 > u /\ (p + 1) - 1 = p
      BY <1>1
    <2> QED BY <1>2, <1>7, <2>1, <2>2, <2>3, <2>4 DEF InQuote, Q, C, run
  <1>11. ASSUME At(p) = q PROVE p \in Q /\ C(p) % 2 = 1 /\ run(p + 1) % 2 = 0
    <2>1. p \in Q
      BY <1>1, <1>2, <1>4, <1>11
    <2>2. p \notin e
      BY <1>11
    <2> QED BY <1>2, <1>7, <1>8, <2>1, <2>2
  <1>12. ASSUME Pair(p) = <<q, q>> PROVE InQuote(u, q, e, p + 2)
    <2>1. At(p) = q /\ At(p + 1) = q
      BY <1>12 DEF Pair
    <2>2. p + 1 \in u + 1 .. Len(script)
      <3>1. p + 1 \in 1 .. Len(script)
        BY <2>1, TextFacts
      <3> QED BY <1>1, <3>1
    <2>3. p \in Q /\ p + 1 \in Q /\ C(p) % 2 = 1
      BY <1>4, <1>11, <2>1, <2>2
    <2>4. C(p + 1) = C(p) + 1 /\ C(p) \in Nat
      BY <1>1, <1>6, <2>3
    <2>5. C(p + 1) % 2 = 0
      BY <2>3, <2>4
    <2>6. ~Closing(u, q, e, p) /\ ~Closing(u, q, e, p + 1)
      BY <2>1, <2>5 DEF Closing, C, Q
    <2>7. \A k \in Q : k < p + 2 => k < p \/ k = p \/ k = p + 1
      BY <1>1, <1>5
    <2>8. run(p + 2) % 2 = 0
      <3> DEFINE m == p + 1
      <3>1. run(m) % 2 = 0 /\ m \notin e /\ m \in Nat /\ u + 1 <= m
        BY <1>1, <1>11, <2>1
      <3> HIDE DEF m
      <3>2. run(m + 1) % 2 = 0
        BY <1>1, <3>1, EvenRuns DEF run
      <3>3. m + 1 = p + 2
        BY <1>1 DEF m
      <3> QED BY <3>2, <3>3
    <2>9. p + 2 \in Nat /\ p + 2 > u /\ (p + 2) - 1 = p + 1
      BY <1>1
    <2> QED BY <1>2, <2>5, <2>6, <2>7, <2>8, <2>9 DEF InQuote, Q, C, run
  <1>13. ASSUME At(p) = q, At(p + 1) # q PROVE QuotedEnd(u, q, e) = p
    <2> DEFINE T == {k \in Q : At(k + 1) # q /\ Cardinality(UpTo(Q, k)) % 2 = 1}
    <2>1. \A k : k \in T <=> k \in Q /\ Closing(u, q, e, k)
      BY DEF Closing, Q
    <2>2. p \in T
      BY <1>11, <1>13 DEF C
    <2>3. T \in SUBSET Nat
      BY <1>5
    <2>4. QuotedEnd(u, q, e) = FirstOr(T, Len(script))
      BY DEF QuotedEnd, Q
    <2> HIDE DEF T
    <2>5. \A k \in T : p <= k
      BY <1>1, <1>2, <2>1, <2>3
    <2> QED BY <2>2, <2>3, <2>4, <2>5, FirstOrFacts
  <1> QED BY <1>9, <1>10, <1>12, <1>13

\* The script ends in the literal.
LEMMA QuoteStays ==
  ASSUME Text, NEW u \in 1 .. Len(script), NEW q, NEW e,
         NEW p \in Nat, p > Len(script), InQuote(u, q, e, p)
  PROVE  QuotedEnd(u, q, e) = Len(script)
  <1> DEFINE Q == Quotes(u, q, e)
             T == {k \in Q : At(k + 1) # q /\ Cardinality(UpTo(Q, k)) % 2 = 1}
  <1>1. Q \in SUBSET (1 .. Len(script)) /\ Len(script) \in Nat /\ p \in Nat
    BY QuotesType, TextFacts DEF InQuote
  <1>2. \A k \in Q : k < p
    BY <1>1
  <1>3. T = {}
    BY <1>2 DEF InQuote, Closing
  <1>4. QuotedEnd(u, q, e) = FirstOr(T, Len(script))
    BY DEF QuotedEnd
  <1> QED BY <1>3, <1>4 DEF FirstOr

\* The scanner is at p, d comments deep in the one that opens at u.
InComment(u, p, d) ==
  /\ p \in Nat /\ p > u /\ d \in Nat /\ d >= 1
  /\ Run(BracketPairs, u, p) % 2 = 0
  /\ Cardinality(UpTo(Brackets(u, "/"), p - 1)) = Cardinality(UpTo(Brackets(u, "*"), p - 1)) + d
  /\ \A k \in Brackets(u, "*") :
       k < p => Cardinality(UpTo(Brackets(u, "/"), k)) # Cardinality(UpTo(Brackets(u, "*"), k))

\* What brackets are, character by character.
LEMMA BracketFacts ==
  ASSUME Text, NEW u \in 1 .. Len(script)
  PROVE  /\ Brackets(u, "/") \in SUBSET (1 .. Len(script)) /\ Brackets(u, "*") \in SUBSET (1 .. Len(script))
         /\ \A k : k \in BracketPairs <=> \/ At(k) = "/" /\ At(k + 1) = "*"
                                          \/ At(k) = "*" /\ At(k + 1) = "/"
         /\ \A k, c : k \in Brackets(u, c) <=>
              k \in BracketPairs /\ k >= u /\ At(k) = c /\ Run(BracketPairs, u, k) % 2 = 0
  <1>1. \A k : k \in BracketPairs <=> \/ At(k) = "/" /\ At(k + 1) = "*"
                                      \/ At(k) = "*" /\ At(k + 1) = "/"
    BY TextFacts DEF BracketPairs, Pair
  <1>2. \A k, c : k \in Brackets(u, c) <=>
          k \in BracketPairs /\ k >= u /\ At(k) = c /\ Run(BracketPairs, u, k) % 2 = 0
    BY DEF Brackets
  <1>3. BracketPairs \in SUBSET (1 .. Len(script))
    BY TextFacts DEF BracketPairs
  <1> QED BY <1>1, <1>2, <1>3

\* Behind the opening bracket the scanner is in the comment, one deep.
LEMMA CommentOpens ==
  ASSUME Text, NEW u \in 1 .. Len(script), Pair(u) = <<"/", "*">>
  PROVE  InComment(u, u + 2, 1)
  <1> DEFINE O == Brackets(u, "/")
             C == Brackets(u, "*")
             run(k) == Run(BracketPairs, u, k)
  <1>1. Len(script) \in Nat /\ u \in Nat /\ u >= 1 /\ u - 1 \in Nat /\ (u - 1) + 1 = u
    BY TextFacts
  <1>2. At(u) = "/" /\ At(u + 1) = "*"
    BY DEF Pair
  <1>3. O \in SUBSET (1 .. Len(script)) /\ C \in SUBSET (1 .. Len(script))
    BY BracketFacts
  <1>4. u \in BracketPairs /\ run(u) = 0
    BY <1>1, <1>2, BracketFacts, RunFacts
  <1>5. run(u + 1) % 2 # 0 /\ run(u + 2) % 2 = 0
    <2>1. run(u) % 2 = 0 /\ u <= u
      BY <1>1, <1>4
    <2> QED BY <1>1, <1>4, <2>1, EvenRuns
  <1>6. u \in O /\ u \notin C /\ u + 1 \notin O /\ u + 1 \notin C
    <2>1. run(u) % 2 = 0 /\ u >= u
      BY <1>1, <1>4
    <2> QED BY <1>2, <1>4, <1>5, <2>1, BracketFacts
  <1>7. \A k : k \in O \/ k \in C => k >= u
    BY BracketFacts
  <1> HIDE DEF O, C, run
  <1>8. UpTo(O, u - 1) = {} /\ UpTo(C, u - 1) = {}
    <2>1. \A k \in O : k \in Nat /\ k >= u
      BY <1>1, <1>3, <1>7
    <2>2. \A k \in C : k \in Nat /\ k >= u
      BY <1>1, <1>3, <1>7
    <2> QED BY <1>1, <2>1, <2>2 DEF UpTo
  <1>9. /\ Cardinality(UpTo(O, (u - 1) + 1)) = Cardinality(UpTo(O, u - 1)) + 1
        /\ UpTo(C, (u - 1) + 1) = UpTo(C, u - 1)
    BY <1>1, <1>3, <1>6, CountFacts
  <1>10. UpTo(O, u + 1) = UpTo(O, u) /\ UpTo(C, u + 1) = UpTo(C, u)
    BY <1>1, <1>3, <1>6, CountFacts
  <1>11. Cardinality(UpTo(O, u + 1)) = 1 /\ Cardinality(UpTo(C, u + 1)) = 0
    <2>1. Cardinality({}) = 0
      BY FS_EmptySet
    <2>2. Cardinality(UpTo(O, u)) = Cardinality({}) + 1 /\ UpTo(C, u) = {}
      BY <1>1, <1>8, <1>9
    <2>3. Cardinality(UpTo(O, u)) = 1
      BY <2>1, <2>2
    <2> QED BY <1>10, <2>1, <2>2, <2>3
  <1>12. \A k \in C : ~(k < u + 2)
    BY <1>1, <1>3, <1>6, <1>7
  <1>13. u + 2 \in Nat /\ u + 2 > u /\ (u + 2) - 1 = u + 1
    BY <1>1
  <1> QED BY <1>5, <1>11, <1>12, <1>13 DEF InComment, O, C, run

\* One step in a comment: the depth is how many more brackets open than close.
LEMMA CommentStep ==
  ASSUME Text, NEW u \in 1 .. Len(script), NEW p \in Nat, p <= Len(script), NEW d \in Nat,
         InComment(u, p, d)
  PROVE  /\ Pair(p) = <<"*", "/">> /\ d = 1 => CommentEnd(u) = p + 1
         /\ Pair(p) = <<"*", "/">> /\ d # 1 => InComment(u, p + 2, d - 1)
         /\ Pair(p) = <<"/", "*">> => InComment(u, p + 2, d + 1)
         /\ Pair(p) # <<"*", "/">> /\ Pair(p) # <<"/", "*">> => InComment(u, p + 1, d)
  <1> DEFINE O == Brackets(u, "/")
             C == Brackets(u, "*")
             o(k) == Cardinality(UpTo(O, k))
             c(k) == Cardinality(UpTo(C, k))
             run(k) == Run(BracketPairs, u, k)
  <1>1. /\ Len(script) \in Nat /\ u \in Nat /\ u >= 1 /\ p > u /\ u <= p
        /\ p - 1 \in Nat /\ (p - 1) + 1 = p /\ (p + 2) - 1 = p + 1 /\ d >= 1
    BY TextFacts DEF InComment
  <1>2. /\ run(p) % 2 = 0
        /\ o(p - 1) = c(p - 1) + d
        /\ \A k \in C : k < p => o(k) # c(k)
    BY DEF InComment
  <1>3. O \in SUBSET (1 .. Len(script)) /\ C \in SUBSET (1 .. Len(script))
    BY BracketFacts
  <1>4. /\ Pair(p) = <<"*", "/">> <=> At(p) = "*" /\ At(p + 1) = "/"
        /\ Pair(p) = <<"/", "*">> <=> At(p) = "/" /\ At(p + 1) = "*"
    BY DEF Pair
  <1>5. /\ p \notin BracketPairs => run(p + 1) % 2 = 0
        /\ p \in BracketPairs => run(p + 1) % 2 # 0 /\ run(p + 2) % 2 = 0
    BY <1>1, <1>2, EvenRuns
  <1>6. /\ p \in O <=> Pair(p) = <<"/", "*">>
        /\ p \in C <=> Pair(p) = <<"*", "/">>
        /\ p \in BracketPairs <=> Pair(p) \in {<<"/", "*">>, <<"*", "/">>}
    BY <1>1, <1>2, <1>4, BracketFacts
  <1>7. p \in BracketPairs => p + 1 \notin O /\ p + 1 \notin C
    BY <1>5, BracketFacts
  <1>8. ASSUME NEW k \in Nat
        PROVE  /\ o(k) \in Nat /\ c(k) \in Nat
               /\ k + 1 \in O => o(k + 1) = o(k) + 1
               /\ k + 1 \notin O => o(k + 1) = o(k)
               /\ k + 1 \in C => c(k + 1) = c(k) + 1
               /\ k + 1 \notin C => c(k + 1) = c(k)
    BY <1>1, <1>3, CountFacts
  <1>9. p \notin O \/ p \notin C
    BY <1>4, <1>6
  <1> HIDE DEF O, C, o, c, run
  <1>10. /\ o(p - 1) \in Nat /\ c(p - 1) \in Nat
         /\ p \in O => o(p) = o(p - 1) + 1
         /\ p \notin O => o(p) = o(p - 1)
         /\ p \in C => c(p) = c(p - 1) + 1
         /\ p \notin C => c(p) = c(p - 1)
    BY <1>1, <1>8
  <1>11. p \in BracketPairs => o(p + 1) = o(p) /\ c(p + 1) = c(p)
    BY <1>7, <1>8
  <1>12. p \in BracketPairs => \A k \in C : k < p + 2 => k < p \/ k = p
    BY <1>1, <1>3, <1>7
  <1>13. ASSUME p \in C, d = 1 PROVE CommentEnd(u) = p + 1
    <2> DEFINE T == {k \in C : Cardinality(UpTo(O, k)) = Cardinality(UpTo(C, k))}
    <2>1. T \in SUBSET Nat
      <3>1. \A k \in C : k \in Nat
        BY <1>1, <1>3
      <3> QED BY <3>1
    <2>2. p \in T
      <3>1. o(p) = c(p)
        BY <1>2, <1>9, <1>10, <1>13
      <3> QED BY <1>13, <3>1 DEF o, c
    <2>3. \A k \in T : p <= k
      <3>1. \A k \in T : k \in C /\ o(k) = c(k)
        BY DEF o, c
      <3> QED BY <1>1, <1>2, <2>1, <3>1
    <2>4. CommentEnd(u) = 1 + FirstOr(T, Len(script) - 1)
      BY DEF CommentEnd, O, C
    <2> HIDE DEF T
    <2>5. FirstOr(T, Len(script) - 1) = p
      BY <2>1, <2>2, <2>3, FirstOrIs
    <2> QED BY <2>4, <2>5
  <1>14. ASSUME p \in C, d # 1, p \in BracketPairs PROVE InComment(u, p + 2, d - 1)
    <2>1. o(p + 1) = c(p + 1) + (d - 1) /\ d - 1 \in Nat /\ d - 1 >= 1 /\ o(p) # c(p)
      BY <1>1, <1>2, <1>9, <1>10, <1>11, <1>14
    <2>2. p + 2 \in Nat /\ p + 2 > u
      BY <1>1
    <2> QED BY <1>1, <1>2, <1>5, <1>12, <1>14, <2>1, <2>2 DEF InComment, O, C, o, c, run
  <1>15. ASSUME p \in O, p \in BracketPairs PROVE InComment(u, p + 2, d + 1)
    <2>1. o(p + 1) = c(p + 1) + (d + 1) /\ d + 1 \in Nat /\ d + 1 >= 1
      BY <1>1, <1>2, <1>9, <1>10, <1>11, <1>15
    <2>2. p + 2 \in Nat /\ p + 2 > u
      BY <1>1
    <2>3. \A k \in C : k < p + 2 => o(k) # c(k)
      BY <1>2, <1>9, <1>12, <1>15
    <2> QED BY <1>1, <1>5, <1>15, <2>1, <2>2, <2>3 DEF InComment, O, C, o, c, run
  <1>16. ASSUME p \notin BracketPairs, p \notin O, p \notin C PROVE InComment(u, p + 1, d)
    <2>1. p + 1 \in Nat /\ p + 1 > u /\ (p + 1) - 1 = p
      BY <1>1
    <2>2. \A k \in C : k < p + 1 => k < p
      BY <1>1, <1>3, <1>16
    <2> QED BY <1>1, <1>2, <1>5, <1>10, <1>16, <2>1, <2>2 DEF InComment, O, C, o, c, run
  <1> QED BY <1>6, <1>13, <1>14, <1>15, <1>16

\* A comment that is never closed reaches to the end of the script.
LEMMA CommentStays ==
  ASSUME Text, NEW u \in 1 .. Len(script), NEW p \in Nat, p > Len(script), NEW d,
         InComment(u, p, d)
  PROVE  CommentEnd(u) = Len(script)
  <1> DEFINE T == {k \in Brackets(u, "*") :
                    Cardinality(UpTo(Brackets(u, "/"), k)) = Cardinality(UpTo(Brackets(u, "*"), k))}
  <1>1. Len(script) \in Nat
    BY TextFacts
  <1>2. \A k \in Brackets(u, "*") : k < p
    BY <1>1, BracketFacts
  <1>3. T = {}
    BY <1>2 DEF InComment
  <1>4. CommentEnd(u) = 1 + FirstOr(T, Len(script) - 1)
    BY DEF CommentEnd
  <1> QED BY <1>1, <1>3, <1>4 DEF FirstOr

\* The scanner is at p, in the dollar-quoted text that opens at u.
InDollar(u, p) ==
  LET n == Len(matchDollarTag(u)) IN
  /\ p \in Nat /\ p >= u + n
  /\ \A m \in u + n .. p - 1 :
       m + n - 1 <= Len(script) => SubSeq(script, m, m + n - 1) # matchDollarTag(u)

\* Behind the delimiter the scanner is in the dollar-quoted text.
LEMMA DollarOpens ==
  ASSUME Text, NEW u \in 1 .. Len(script), matchDollarTag(u) # << >>
  PROVE  InDollar(u, u + Len(matchDollarTag(u)))
  <1> DEFINE n == Len(matchDollarTag(u))
  <1>1. n \in Nat /\ u \in Nat
    BY TagFacts, TextFacts
  <1> HIDE DEF n
  <1>2. u + n \in Nat /\ u + n >= u + n /\ u + n .. (u + n) - 1 = {}
    BY <1>1
  <1> QED BY <1>2 DEF InDollar, n

\* One step in it: the delimiter ends it, at the place where the reference says.
LEMMA DollarStep ==
  ASSUME Text, NEW u \in 1 .. Len(script), matchDollarTag(u) # << >>,
         NEW p \in Nat, p <= Len(script), InDollar(u, p)
  PROVE  LET n == Len(matchDollarTag(u))
             closes == SubSeq(script, p, Min({p + n - 1, Len(script)})) = matchDollarTag(u)
         IN  /\ closes => DollarEnd(u) = p + n - 1
             /\ ~closes => InDollar(u, p + 1)
  <1> DEFINE tag == matchDollarTag(u)
             n == Len(tag)
             last == Min({p + n - 1, Len(script)})
             closes == SubSeq(script, p, last) = tag
  <1>1. n \in Nat /\ n >= 2 /\ u \in Nat /\ u >= 1 /\ Len(script) \in Nat
    BY TagFacts, TextFacts
  <1>2. p >= u + n
    BY DEF InDollar
  <1>3. \A m \in u + n .. p - 1 : m + n - 1 <= Len(script) => SubSeq(script, m, m + n - 1) # tag
    BY DEF InDollar
  <1> HIDE DEF tag, n
  <1>4. p + n - 1 <= Len(script) => last = p + n - 1
    <2>1. {p + n - 1, Len(script)} \in SUBSET Nat
      BY <1>1
    <2> QED BY <1>1, <2>1, MinIs
  <1>5. p + n - 1 > Len(script) => last = Len(script)
    <2>1. {p + n - 1, Len(script)} \in SUBSET Nat
      BY <1>1
    <2> QED BY <1>1, <2>1, MinIs
  <1> HIDE DEF last
  <1>6. closes => p + n - 1 <= Len(script) /\ SubSeq(script, p, p + n - 1) = tag
    <2> SUFFICES ASSUME closes PROVE p + n - 1 <= Len(script)
      BY <1>4
    <2>1. SUFFICES ASSUME p + n - 1 > Len(script) PROVE FALSE
      BY <1>1
    <2>2. last = Len(script)
      BY <1>5, <2>1
    <2>3. p \in 1 .. Len(script) + 1 /\ Len(script) \in p - 1 .. Len(script)
      BY <1>1, <1>2
    <2>4. Len(SubSeq(script, p, Len(script))) = Len(script) - p + 1
      BY <2>3, <1>1, SubSeqProperties DEF Text
    <2>5. n = Len(script) - p + 1
      BY <2>2, <2>4 DEF n
    <2> QED BY <1>1, <2>1, <2>5
  <1>7. ASSUME closes PROVE DollarEnd(u) = p + n - 1
    <2> DEFINE T == {k \in u + 2 * n - 1 .. Len(script) : SubSeq(script, k - n + 1, k) = tag}
               k == p + n - 1
    <2>1. T \in SUBSET Nat
      BY <1>1
    <2>2. k \in u + 2 * n - 1 .. Len(script) /\ k - n + 1 = p
      BY <1>1, <1>2, <1>6, <1>7
    <2>3. k \in T
      BY <1>6, <1>7, <2>2
    <2>4. \A j \in T : k <= j
      <3> SUFFICES ASSUME NEW j \in T, ~(k <= j) PROVE FALSE
        OBVIOUS
      <3> DEFINE m == j - n + 1
      <3>1. j \in u + 2 * n - 1 .. Len(script) /\ SubSeq(script, m, j) = tag
        OBVIOUS
      <3>2. m \in u + n .. p - 1 /\ m + n - 1 = j /\ m + n - 1 <= Len(script)
        BY <1>1, <3>1
      <3> HIDE DEF m
      <3> QED BY <1>3, <3>1, <3>2
    <2>5. DollarEnd(u) = FirstOr(T, Len(script))
      BY DEF DollarEnd, n, tag
    <2> HIDE DEF T, k
    <2>6. FirstOr(T, Len(script)) = k
      BY <2>1, <2>3, <2>4, FirstOrIs
    <2> QED BY <2>5, <2>6 DEF k
  <1>8. ASSUME ~closes PROVE InDollar(u, p + 1)
    <2>1. \A m \in u + n .. (p + 1) - 1 : m + n - 1 <= Len(script) => SubSeq(script, m, m + n - 1) # tag
      <3> SUFFICES ASSUME NEW m \in u + n .. (p + 1) - 1, m + n - 1 <= Len(script)
                   PROVE SubSeq(script, m, m + n - 1) # tag
        OBVIOUS
      <3>1. CASE m = p
        BY <1>4, <1>8, <3>1
      <3>2. CASE m # p
        <4>1. m \in u + n .. p - 1
          BY <1>1, <3>2
        <4> QED BY <1>3, <4>1
      <3> QED BY <3>1, <3>2
    <2>2. p + 1 \in Nat /\ p + 1 >= u + n
      BY <1>1, <1>2
    <2> QED BY <2>1, <2>2 DEF InDollar, n, tag
  <1> QED BY <1>7, <1>8 DEF last, n, tag

\* A dollar-quoted text that is never closed reaches to the end of the script.
LEMMA DollarStays ==
  ASSUME Text, NEW u \in 1 .. Len(script), matchDollarTag(u) # << >>,
         NEW p \in Nat, p > Len(script), InDollar(u, p)
  PROVE  DollarEnd(u) = Len(script)
  <1> DEFINE tag == matchDollarTag(u)
             n == Len(tag)
             T == {k \in u + 2 * n - 1 .. Len(script) : SubSeq(script, k - n + 1, k) = tag}
  <1>1. n \in Nat /\ n >= 2 /\ u \in Nat /\ u >= 1 /\ Len(script) \in Nat
    BY TagFacts, TextFacts
  <1>2. \A m \in u + n .. p - 1 : m + n - 1 <= Len(script) => SubSeq(script, m, m + n - 1) # tag
    BY DEF InDollar
  <1>3. DollarEnd(u) = FirstOr(T, Len(script))
    BY DEF DollarEnd
  <1> HIDE DEF n, tag
  <1>4. T = {}
    <2> SUFFICES ASSUME NEW j \in T PROVE FALSE
      OBVIOUS
    <2> DEFINE m == j - n + 1
    <2>1. j \in u + 2 * n - 1 .. Len(script) /\ SubSeq(script, m, j) = tag
      OBVIOUS
    <2>2. m \in u + n .. p - 1 /\ m + n - 1 = j /\ m + n - 1 <= Len(script)
      BY <1>1, <2>1
    <2> HIDE DEF m
    <2> QED BY <1>2, <2>1, <2>2
  <1> QED BY <1>3, <1>4 DEF FirstOr

\* The scanner is at p, at the start of a line of the block that opens at u.
InBlock(u, p) ==
  /\ p \in Nat /\ p >= u + 2
  /\ LineStart(p)
  /\ \A k \in BlockEnds(u) : k >= p

\* Behind the line of its marker the scanner is in the block.
LEMMA BlockOpens ==
  ASSUME Text, NEW u \in 1 .. Len(script), MarkerLine(u, "Begin")
  PROVE  InBlock(u, u + 2)
  <1>1. u \in Nat /\ Len(script) \in Nat
    BY TextFacts
  <1>2. At(u + 1) = "\n" /\ (u + 2) - 1 = u + 1
    BY <1>1 DEF MarkerLine
  <1>3. LineStart(u + 2)
    BY <1>2 DEF LineStart
  <1>4. u + 1 \notin BlockEnds(u)
    BY <1>2 DEF BlockEnds, MarkerLine
  <1>5. \A k \in BlockEnds(u) : k \in u + 1 .. Len(script)
    BY DEF BlockEnds
  <1>6. \A k \in BlockEnds(u) : k >= u + 2
    BY <1>1, <1>4, <1>5
  <1> QED BY <1>1, <1>3, <1>6 DEF InBlock

\* One line of a block: the first one that is the other marker ends it.
LEMMA BlockStep ==
  ASSUME Text, NEW u \in 1 .. Len(script), NEW p \in Nat, p <= Len(script), InBlock(u, p)
  PROVE  /\ MarkerLine(p, "End") => p \in BlockEnds(u) /\ FirstOr(BlockEnds(u), Len(script)) = p
                                    /\ Min(BlockEnds(u)) = p
         /\ ~MarkerLine(p, "End") => InBlock(u, LineEnd(p) + 1)
  <1>1. u \in Nat /\ u >= 1 /\ Len(script) \in Nat /\ p >= u + 2
    BY TextFacts DEF InBlock
  <1>2. \A k \in BlockEnds(u) : k >= p
    BY DEF InBlock
  <1>3. \A k : k \in BlockEnds(u) <=> k \in u + 1 .. Len(script) /\ MarkerLine(k, "End")
    BY DEF BlockEnds
  <1>4. BlockEnds(u) \in SUBSET Nat
    BY <1>1 DEF BlockEnds
  <1>5. ASSUME MarkerLine(p, "End")
        PROVE  p \in BlockEnds(u) /\ FirstOr(BlockEnds(u), Len(script)) = p /\ Min(BlockEnds(u)) = p
    <2>1. p \in BlockEnds(u)
      BY <1>1, <1>3, <1>5
    <2>2. \A k \in BlockEnds(u) : p <= k
      BY <1>2, <1>4
    <2> QED BY <1>4, <2>1, <2>2, FirstOrFacts, MinIs
  <1>6. ASSUME ~MarkerLine(p, "End") PROVE InBlock(u, LineEnd(p) + 1)
    <2> DEFINE l == LineEnd(p)
    <2>1. l \in p .. Len(script) + 1 /\ At(l) = "\n" /\ \A j \in p .. l - 1 : At(j) # "\n"
      BY <1>1, LineEndFacts
    <2> HIDE DEF l
    <2>2. LineStart(l + 1)
      <3>1. (l + 1) - 1 = l
        BY <1>1, <2>1
      <3> QED BY <2>1, <3>1 DEF LineStart
    <2>3. ASSUME NEW k \in BlockEnds(u), ~(k >= l + 1) PROVE FALSE
      <3>1. k \in Nat /\ k >= p /\ k # p
        BY <1>2, <1>3, <1>4, <1>6
      <3>2. k - 1 \in p .. l - 1 /\ k # 1
        BY <1>1, <2>1, <2>3, <3>1
      <3>3. At(k - 1) = "\n"
        BY <1>3, <3>2 DEF MarkerLine, LineStart
      <3> QED BY <2>1, <3>2, <3>3
    <2>4. l + 1 \in Nat /\ l + 1 >= u + 2
      BY <1>1, <2>1
    <2> QED BY <2>2, <2>3, <2>4 DEF InBlock, l
  <1> QED BY <1>5, <1>6

\* A block that is never closed has no end in the reference either.
LEMMA BlockStays ==
  ASSUME Text, NEW u \in 1 .. Len(script), NEW p \in Nat, p > Len(script), InBlock(u, p)
  PROVE  BlockEnds(u) = {}
  <1>1. u \in Nat /\ Len(script) \in Nat
    BY TextFacts
  <1>2. \A k \in BlockEnds(u) : k \in u + 1 .. Len(script) /\ k >= p
    BY DEF InBlock, BlockEnds
  <1> QED BY <1>1, <1>2

-----------------------------------------------------------------------------
(***************************************************************************)
(* What does not change while the scanner moves.                           *)
(***************************************************************************)

\* What is said of the script alone stays true while the scanner moves.
LEMMA SameText ==
  ASSUME script' = script
  PROVE  /\ Text' <=> Text
         /\ \A k : At(k)' = At(k)
         /\ \A k : Pair(k)' = Pair(k)
         /\ \A k : LineEnd(k)' = LineEnd(k)
         /\ \A k : LineStart(k)' <=> LineStart(k)
         /\ \A k : Dashes(k)' <=> Dashes(k)
         /\ \A k, m : MarkerLine(k, m)' <=> MarkerLine(k, m)
         /\ \A k : isEscapeStringPrefix(k)' <=> isEscapeStringPrefix(k)
         /\ \A k : matchDollarTag(k)' = matchDollarTag(k)
  <1>1. \A k : At(k)' = At(k)
    BY DEF At
  <1>2. \A k : Pair(k)' = Pair(k)
    BY <1>1 DEF Pair
  <1>3. \A k : LineEnd(k)' = LineEnd(k)
    BY <1>1 DEF LineEnd
  <1>4. \A k : LineStart(k)' <=> LineStart(k)
    BY <1>1 DEF LineStart
  <1>5. \A k : Dashes(k)' <=> Dashes(k)
    BY <1>1 DEF Dashes
  <1>6. \A k, m : MarkerLine(k, m)' <=> MarkerLine(k, m)
    BY <1>1, <1>4 DEF MarkerLine
  <1>7. \A k : isEscapeStringPrefix(k)' <=> isEscapeStringPrefix(k)
    BY <1>1 DEF isEscapeStringPrefix
  <1>8. \A k : matchDollarTag(k)' = matchDollarTag(k)
    BY <1>1 DEF matchDollarTag
  <1>9. Text' <=> Text
    BY DEF Text
  <1> QED BY <1>1, <1>2, <1>3, <1>4, <1>5, <1>6, <1>7, <1>8, <1>9

\* The same for what the reference says of the script,
LEMMA SameUnits ==
  ASSUME script' = script
  PROVE  /\ \A k : Escapes(k)' = Escapes(k)
         /\ \A k, q, e : Quotes(k, q, e)' = Quotes(k, q, e)
         /\ BracketPairs' = BracketPairs
         /\ \A k, c : Brackets(k, c)' = Brackets(k, c)
         /\ \A k : BlockEnds(k)' = BlockEnds(k)
         /\ \A k : UnitEnd(k)' = UnitEnd(k)
         /\ Units' = Units
  <1>1. \A k : Escapes(k)' = Escapes(k)
    BY SameText DEF Escapes
  <1>2. \A k, q, e : Quotes(k, q, e)' = Quotes(k, q, e)
    BY SameText DEF Quotes
  <1>3. BracketPairs' = BracketPairs
    BY SameText DEF BracketPairs
  <1>4. \A k, c : Brackets(k, c)' = Brackets(k, c)
    BY <1>3, SameText DEF Brackets
  <1>5. \A k : BlockEnds(k)' = BlockEnds(k)
    BY SameText DEF BlockEnds
  <1>6. \A k, q, e : QuotedEnd(k, q, e)' = QuotedEnd(k, q, e)
    <2> SUFFICES ASSUME NEW k, NEW q, NEW e PROVE QuotedEnd(k, q, e)' = QuotedEnd(k, q, e)
      OBVIOUS
    <2> DEFINE T(S) == {j \in S : At(j + 1) # q /\ Cardinality(UpTo(S, j)) % 2 = 1}
    <2>1. Quotes(k, q, e)' = Quotes(k, q, e)
      BY <1>2
    <2>2. T(Quotes(k, q, e))' = T(Quotes(k, q, e))
      BY <2>1, SameText DEF UpTo
    <2>3. QuotedEnd(k, q, e) = FirstOr(T(Quotes(k, q, e)), Len(script))
      BY DEF QuotedEnd
    <2>4. QuotedEnd(k, q, e)' = FirstOr(T(Quotes(k, q, e)), Len(script))'
      BY DEF QuotedEnd
    <2>5. FirstOr(T(Quotes(k, q, e)), Len(script))' = FirstOr(T(Quotes(k, q, e)), Len(script))
      BY <2>2 DEF FirstOr
    <2> QED BY <2>3, <2>4, <2>5
  <1>7. \A k : DollarEnd(k)' = DollarEnd(k)
    BY SameText DEF DollarEnd
  <1>8. \A k : CommentEnd(k)' = CommentEnd(k)
    BY <1>4, SameText DEF CommentEnd
  <1>9. \A k : UnitEnd(k)' = UnitEnd(k)
    BY <1>1, <1>5, <1>6, <1>7, <1>8, SameText DEF UnitEnd
  <1>10. UnitOf' = UnitOf
    BY <1>9 DEF UnitOf
  <1>11. Units' = Units
    BY <1>10 DEF Units
  <1> QED BY <1>1, <1>2, <1>3, <1>4, <1>5, <1>9, <1>11

\* and for where in a unit a place is.
LEMMA SamePlaces ==
  ASSUME script' = script
  PROVE  /\ \A u, q, e, p : InQuote(u, q, e, p)' <=> InQuote(u, q, e, p)
         /\ \A u, p, d : InComment(u, p, d)' <=> InComment(u, p, d)
         /\ \A u, p : InDollar(u, p)' <=> InDollar(u, p)
         /\ \A u, p : InBlock(u, p)' <=> InBlock(u, p)
  <1>1. \A u, q, e, p : InQuote(u, q, e, p)' <=> InQuote(u, q, e, p)
    BY SameText, SameUnits DEF InQuote, Closing
  <1>2. \A u, p, d : InComment(u, p, d)' <=> InComment(u, p, d)
    BY SameText, SameUnits DEF InComment
  <1>3. \A u, p : InDollar(u, p)' <=> InDollar(u, p)
    BY SameText, SameUnits DEF InDollar
  <1>4. \A u, p : InBlock(u, p)' <=> InBlock(u, p)
    BY SameText, SameUnits DEF InBlock
  <1> QED BY <1>1, <1>2, <1>3, <1>4

-----------------------------------------------------------------------------
(***************************************************************************)
(* The scanner follows the units.                                          *)
(***************************************************************************)

\* Between two units: the next one starts at u, unless the script ends.
Between(u) ==
  /\ state = "normal" /\ ~inStatementBlock /\ pos = u
  /\ u \in Nat \ {0} /\ (u <= Len(script) => u \in Units)

WithinSingle(u) ==
  /\ state = "singleQuote" /\ At(u) = "'" /\ (escapeString <=> isEscapeStringPrefix(u))
  /\ InQuote(u, "'", Escapes(u), pos)

WithinDouble(u) == state = "doubleQuote" /\ At(u) = DoubleQuote /\ InQuote(u, DoubleQuote, {}, pos)

WithinDollar(u) ==
  /\ state = "dollarQuote" /\ At(u) = "$" /\ matchDollarTag(u) # << >>
  /\ dollarTag = matchDollarTag(u) /\ InDollar(u, pos)

WithinComment(u) ==
  state = "blockComment" /\ Pair(u) = <<"/", "*">> /\ InComment(u, pos, blockCommentDepth)

WithinBlock(u) ==
  state = "normal" /\ inStatementBlock /\ MarkerLine(u, "Begin") /\ InBlock(u, pos) /\ u \in Units

\* In the unit that starts at u and is no block.
Within(u) ==
  /\ ~inStatementBlock /\ u \in Units
  /\ WithinSingle(u) \/ WithinDouble(u) \/ WithinDollar(u) \/ WithinComment(u)

\* A unit that ends no statement.
Ending(u) == At(u) = ";"
Plain(u) == u \in Units /\ ~Ending(u) /\ ~MarkerLine(u, "Begin")

\* A step within a unit, or behind it, that leaves the statements alone.
Goes(u) ==
  /\ Plain(u) /\ UNCHANGED <<script, result, output>>
  /\ Within(u)' \/ Between(UnitEnd(u) + 1)'

\* Units start at places of the script.
LEMMA UnitPlaces ==
  ASSUME Text, NEW u \in Units
  PROVE  u \in 1 .. Len(script) /\ u \in Nat /\ u >= 1 /\ Len(script) \in Nat /\ u <= Len(script)
  BY UnitFacts, TextFacts

\* Behind a unit there is another, or the end.
LEMMA BehindUnit ==
  ASSUME Text, NEW u \in Units, script' = script,
         state' = "normal", ~inStatementBlock', pos' = UnitEnd(u) + 1
  PROVE  Between(UnitEnd(u) + 1)'
  <1>1. Units' = Units /\ UnitEnd(u)' = UnitEnd(u)
    BY SameUnits
  <1>2. /\ UnitEnd(u) + 1 \in Nat \ {0}
        /\ UnitEnd(u) + 1 <= Len(script) => UnitEnd(u) + 1 \in Units
    BY UnitFacts
  <1> QED BY <1>1, <1>2 DEF Between

\* A unit with an inside is neither a terminator nor a block.
LEMMA WithinIsPlain ==
  ASSUME Text, NEW u, Within(u)
  PROVE  Plain(u) /\ u \in 1 .. Len(script)
  <1>1. At(u) \in {"'", DoubleQuote, "$", "/"}
    BY DEF Within, WithinSingle, WithinDouble, WithinDollar, WithinComment, Pair
  <1>2. ~Ending(u) /\ At(u) # "Begin"
    BY <1>1, DoubleQuoteDiffers, Zenon DEF Ending
  <1> QED BY <1>2, UnitPlaces DEF Within, Plain, MarkerLine

\* The four contexts: every step stays in the unit or ends where the unit does.
LEMMA SingleQuoteGoes ==
  ASSUME Text, NEW u, Within(u), ScanSingleQuote
  PROVE  Goes(u)
  <1>1. /\ state = "singleQuote" /\ u \in Units /\ ~inStatementBlock /\ WithinSingle(u)
        /\ pos <= Len(script) /\ UNCHANGED <<script, result, output, inStatementBlock>>
    BY DEF Within, WithinSingle, WithinDouble, WithinDollar, WithinComment, ScanSingleQuote, Scanning, More
  <1>2. Plain(u) /\ u \in 1 .. Len(script)
    BY WithinIsPlain
  <1>3. /\ At(u) = "'" /\ (escapeString <=> isEscapeStringPrefix(u))
        /\ InQuote(u, "'", Escapes(u), pos) /\ pos \in Nat
    BY <1>1 DEF WithinSingle, InQuote
  <1>4. /\ pos \in Escapes(u) <=> escapeString /\ At(pos) = "\\"
        /\ \A k \in Escapes(u) : At(k) # "'"
    BY <1>3, TextFacts DEF Escapes
  <1>5. /\ pos \in Escapes(u) => InQuote(u, "'", Escapes(u), pos + 2)
        /\ pos \notin Escapes(u) /\ At(pos) # "'" => InQuote(u, "'", Escapes(u), pos + 1)
        /\ Pair(pos) = <<"'", "'">> => InQuote(u, "'", Escapes(u), pos + 2)
        /\ At(pos) = "'" /\ At(pos + 1) # "'" => QuotedEnd(u, "'", Escapes(u)) = pos
    <2>1. "'" # "\n"
      OBVIOUS
    <2> QED BY <1>1, <1>2, <1>3, <1>4, <2>1, QuoteStep
  <1>6. ASSUME UNCHANGED lexer, InQuote(u, "'", Escapes(u), pos') PROVE Within(u)'
    <2>1. /\ state' = "singleQuote" /\ (escapeString' <=> isEscapeStringPrefix(u)') /\ (At(u) = "'")'
          /\ InQuote(u, "'", Escapes(u), pos)'
      BY <1>1, <1>3, <1>6, SameText, SameUnits, SamePlaces DEF lexer
    <2>2. ~inStatementBlock' /\ (u \in Units)'
      BY <1>1, SameUnits
    <2> QED BY <2>1, <2>2 DEF Within, WithinSingle
  <1>7. CASE escapeString /\ At(pos) = "\\" /\ Advance(2) /\ UNCHANGED lexer
    BY <1>1, <1>2, <1>4, <1>5, <1>6, <1>7 DEF Goes, Advance
  <1>8. CASE At(pos) = "'" /\ At(pos + 1) # "'" /\ Leave(1)
    <2>1. UnitEnd(u) = pos
      BY <1>2, <1>3, <1>5, <1>8, UnitEndIs
    <2>2. Between(UnitEnd(u) + 1)'
      BY <1>1, <1>8, <2>1, BehindUnit DEF Leave, Advance
    <2> QED BY <1>1, <1>2, <2>2 DEF Goes
  <1>9. CASE Pair(pos) = <<"'", "'">> /\ Advance(2) /\ UNCHANGED lexer
    BY <1>1, <1>2, <1>5, <1>6, <1>9 DEF Goes, Advance
  <1>10. CASE ~(escapeString /\ At(pos) = "\\") /\ At(pos) # "'" /\ Advance(1) /\ UNCHANGED lexer
    BY <1>1, <1>2, <1>4, <1>5, <1>6, <1>10 DEF Goes, Advance
  <1> QED BY <1>7, <1>8, <1>9, <1>10 DEF ScanSingleQuote

\* In a quoted name.
LEMMA DoubleQuoteGoes ==
  ASSUME Text, NEW u, Within(u), ScanDoubleQuote
  PROVE  Goes(u)
  <1> DEFINE q == DoubleQuote
  <1>1. /\ state = "doubleQuote" /\ u \in Units /\ ~inStatementBlock /\ WithinDouble(u)
        /\ pos <= Len(script) /\ UNCHANGED <<script, result, output, inStatementBlock>>
    BY DEF Within, WithinSingle, WithinDouble, WithinDollar, WithinComment, ScanDoubleQuote, Scanning, More
  <1>2. Plain(u) /\ u \in 1 .. Len(script)
    BY WithinIsPlain
  <1>3. At(u) = q /\ InQuote(u, q, {}, pos) /\ pos \in Nat
    BY <1>1 DEF WithinDouble, InQuote
  <1>4. /\ At(pos) # q => InQuote(u, q, {}, pos + 1)
        /\ Pair(pos) = <<q, q>> => InQuote(u, q, {}, pos + 2)
        /\ At(pos) = q /\ At(pos + 1) # q => QuotedEnd(u, q, {}) = pos
    <2> DEFINE e == {}
    <2>1. q # "\n"
      BY DoubleQuoteDiffers
    <2>2. pos \notin e /\ \A k \in e : At(k) # q
      OBVIOUS
    <2>3. InQuote(u, q, e, pos)
      BY <1>3
    <2> HIDE DEF q, e
    <2>4. /\ pos \notin e /\ At(pos) # q => InQuote(u, q, e, pos + 1)
          /\ Pair(pos) = <<q, q>> => InQuote(u, q, e, pos + 2)
          /\ At(pos) = q /\ At(pos + 1) # q => QuotedEnd(u, q, e) = pos
      BY <1>1, <1>2, <1>3, <2>1, <2>2, <2>3, QuoteStep
    <2> QED BY <2>2, <2>4 DEF e
  <1>5. ASSUME UNCHANGED lexer, InQuote(u, q, {}, pos') PROVE Within(u)'
    <2>1. state' = "doubleQuote" /\ (At(u) = q)' /\ InQuote(u, q, {}, pos)'
      <3>1. q' = q
        BY DEF DoubleQuote
      <3> QED BY <1>1, <1>3, <1>5, <3>1, SameText, SamePlaces DEF lexer
    <2>2. ~inStatementBlock' /\ (u \in Units)'
      BY <1>1, SameUnits
    <2> QED BY <2>1, <2>2 DEF Within, WithinDouble
  <1>6. CASE At(pos) = q /\ At(pos + 1) # q /\ Leave(1)
    <2>1. UnitEnd(u) = pos
      BY <1>2, <1>3, <1>4, <1>6, UnitEndIs
    <2>2. Between(UnitEnd(u) + 1)'
      BY <1>1, <1>6, <2>1, BehindUnit DEF Leave, Advance
    <2> QED BY <1>1, <1>2, <2>2 DEF Goes
  <1>7. CASE Pair(pos) = <<q, q>> /\ Advance(2) /\ UNCHANGED lexer
    BY <1>1, <1>2, <1>4, <1>5, <1>7 DEF Goes, Advance
  <1>8. CASE At(pos) # q /\ Advance(1) /\ UNCHANGED lexer
    BY <1>1, <1>2, <1>4, <1>5, <1>8 DEF Goes, Advance
  <1> QED BY <1>6, <1>7, <1>8 DEF ScanDoubleQuote

\* In a dollar-quoted text.
LEMMA DollarQuoteGoes ==
  ASSUME Text, NEW u, Within(u), ScanDollarQuote
  PROVE  Goes(u)
  <1>1. /\ state = "dollarQuote" /\ u \in Units /\ ~inStatementBlock /\ WithinDollar(u)
        /\ pos <= Len(script) /\ UNCHANGED <<script, result, output, inStatementBlock>>
    BY DEF Within, WithinSingle, WithinDouble, WithinDollar, WithinComment, ScanDollarQuote, Scanning, More
  <1>2. Plain(u) /\ u \in 1 .. Len(script)
    BY WithinIsPlain
  <1>3. /\ At(u) = "$" /\ matchDollarTag(u) # << >> /\ dollarTag = matchDollarTag(u)
        /\ InDollar(u, pos) /\ pos \in Nat
    BY <1>1 DEF WithinDollar, InDollar
  <1> DEFINE n == Len(dollarTag)
             closes == SubSeq(script, pos, Min({pos + n - 1, Len(script)})) = dollarTag
  <1>4. /\ closes => DollarEnd(u) = pos + n - 1
        /\ ~closes => InDollar(u, pos + 1)
    BY <1>1, <1>2, <1>3, DollarStep
  <1>5. n \in Nat
    BY <1>2, <1>3, TagFacts
  <1> HIDE DEF n
  <1>6. CASE closes /\ Leave(n)
    <2>1. UnitEnd(u) = pos + n - 1
      BY <1>2, <1>3, <1>4, <1>6, UnitEndIs
    <2>2. pos' = UnitEnd(u) + 1
      BY <1>3, <1>5, <1>6, <2>1 DEF Leave, Advance
    <2>3. Between(UnitEnd(u) + 1)'
      BY <1>1, <1>6, <2>2, BehindUnit DEF Leave
    <2> QED BY <1>1, <1>2, <2>3 DEF Goes
  <1>7. CASE ~closes /\ Advance(1) /\ UNCHANGED lexer
    <2>1. /\ state' = "dollarQuote" /\ (At(u) = "$")' /\ (matchDollarTag(u) # << >>)'
          /\ (dollarTag = matchDollarTag(u))' /\ InDollar(u, pos)'
      BY <1>1, <1>3, <1>4, <1>7, SameText, SamePlaces DEF lexer, Advance
    <2>2. ~inStatementBlock' /\ (u \in Units)'
      BY <1>1, SameUnits
    <2>3. Within(u)'
      BY <2>1, <2>2 DEF Within, WithinDollar
    <2> QED BY <1>1, <1>2, <2>3 DEF Goes
  <1> QED BY <1>6, <1>7 DEF ScanDollarQuote, n

\* In a comment.
LEMMA BlockCommentGoes ==
  ASSUME Text, NEW u, Within(u), ScanBlockComment
  PROVE  Goes(u)
  <1> DEFINE d == blockCommentDepth
  <1>1. /\ state = "blockComment" /\ u \in Units /\ ~inStatementBlock /\ WithinComment(u)
        /\ pos <= Len(script) /\ UNCHANGED <<script, result, output, inStatementBlock>>
    BY DEF Within, WithinSingle, WithinDouble, WithinDollar, WithinComment, ScanBlockComment, Scanning, More
  <1>2. Plain(u) /\ u \in 1 .. Len(script)
    BY WithinIsPlain
  <1>3. Pair(u) = <<"/", "*">> /\ InComment(u, pos, d) /\ pos \in Nat /\ d \in Nat
    BY <1>1 DEF WithinComment, InComment
  <1>4. /\ Pair(pos) = <<"*", "/">> /\ d = 1 => CommentEnd(u) = pos + 1
        /\ Pair(pos) = <<"*", "/">> /\ d # 1 => InComment(u, pos + 2, d - 1)
        /\ Pair(pos) = <<"/", "*">> => InComment(u, pos + 2, d + 1)
        /\ Pair(pos) # <<"*", "/">> /\ Pair(pos) # <<"/", "*">> => InComment(u, pos + 1, d)
    BY <1>1, <1>2, <1>3, CommentStep
  <1>5. ASSUME state' = state, InComment(u, pos', d') PROVE Goes(u)
    <2>1. state' = "blockComment" /\ (Pair(u) = <<"/", "*">>)' /\ InComment(u, pos, d)'
      BY <1>1, <1>3, <1>5, SameText, SamePlaces
    <2>2. ~inStatementBlock' /\ (u \in Units)'
      BY <1>1, SameUnits
    <2>3. Within(u)'
      BY <2>1, <2>2 DEF Within, WithinComment
    <2> QED BY <1>1, <1>2, <2>3 DEF Goes
  <1>6. <<"*", "/">> # <<"/", "*">>
    OBVIOUS
  <1>7. CASE Pair(pos) = <<"*", "/">> /\ d = 1
    <2>1. Leave(2)
      BY <1>7 DEF ScanBlockComment
    <2>2. UnitEnd(u) = pos + 1
      BY <1>2, <1>3, <1>4, <1>7, UnitEndIs
    <2>3. pos' = UnitEnd(u) + 1
      BY <1>3, <2>1, <2>2 DEF Leave, Advance
    <2>4. Between(UnitEnd(u) + 1)'
      BY <1>1, <2>1, <2>3, BehindUnit DEF Leave
    <2> QED BY <1>1, <1>2, <2>4 DEF Goes
  <1>8. CASE Pair(pos) = <<"*", "/">> /\ d # 1
    <2>1. d' = d - 1 /\ pos' = pos + 2 /\ state' = state
      BY <1>8 DEF ScanBlockComment, Advance
    <2> QED BY <1>4, <1>5, <1>8, <2>1
  <1>9. CASE Pair(pos) = <<"/", "*">>
    <2>1. d' = d + 1 /\ pos' = pos + 2 /\ state' = state
      BY <1>6, <1>9 DEF ScanBlockComment, Advance
    <2> QED BY <1>4, <1>5, <1>9, <2>1
  <1>10. CASE Pair(pos) # <<"*", "/">> /\ Pair(pos) # <<"/", "*">>
    <2>1. d' = d /\ pos' = pos + 1 /\ state' = state
      BY <1>10 DEF ScanBlockComment, Advance, lexer
    <2> QED BY <1>4, <1>5, <1>10, <2>1
  <1> QED BY <1>7, <1>8, <1>9, <1>10

\* What Enter assigns, one line for each context.
LEMMA Entering ==
  /\ Enter("singleQuote") =>
       /\ state' = "singleQuote" /\ pos' = pos + 1 /\ UNCHANGED output
       /\ escapeString' <=> isEscapeStringPrefix(pos)
  /\ Enter("doubleQuote") => state' = "doubleQuote" /\ pos' = pos + 1 /\ UNCHANGED output
  /\ Enter("dollarQuote") =>
       /\ state' = "dollarQuote" /\ dollarTag' = matchDollarTag(pos)
       /\ pos' = pos + Len(matchDollarTag(pos)) /\ UNCHANGED output
  /\ Enter("blockComment") =>
       state' = "blockComment" /\ blockCommentDepth' = 1 /\ pos' = pos + 2 /\ UNCHANGED output
  <1>1. Enter("singleQuote") =>
          /\ state' = "singleQuote" /\ pos' = pos + 1 /\ UNCHANGED output
          /\ escapeString' <=> isEscapeStringPrefix(pos)
    <2> SUFFICES ASSUME Enter("singleQuote")
                 PROVE  /\ state' = "singleQuote" /\ pos' = pos + 1 /\ UNCHANGED output
                        /\ escapeString' <=> isEscapeStringPrefix(pos)
      OBVIOUS
    <2>1. escapeString' = ("singleQuote" = "singleQuote" /\ isEscapeStringPrefix(pos))
      BY Zenon DEF Enter
    <2>2. state' = "singleQuote" /\ pos' = pos + 1 /\ UNCHANGED output
      BY DEF Enter, Advance
    <2> QED BY <2>1, <2>2, Zenon
  <1>2. Enter("doubleQuote") => state' = "doubleQuote" /\ pos' = pos + 1 /\ UNCHANGED output
    BY DEF Enter, Advance
  <1>3. Enter("dollarQuote") =>
          /\ state' = "dollarQuote" /\ dollarTag' = matchDollarTag(pos)
          /\ pos' = pos + Len(matchDollarTag(pos)) /\ UNCHANGED output
    BY DEF Enter, Advance
  <1>4. Enter("blockComment") =>
          state' = "blockComment" /\ blockCommentDepth' = 1 /\ pos' = pos + 2 /\ UNCHANGED output
    BY DEF Enter, Advance
  <1> QED BY <1>1, <1>2, <1>3, <1>4

\* A step that cuts a statement off at a semicolon.
Cuts(u) ==
  /\ u \in Units /\ Ending(u) /\ ~MarkerLine(u, "Begin") /\ UnitEnd(u) = u
  /\ UNCHANGED <<script, result>> /\ appendStatement(u, u + 1)
  /\ Between(UnitEnd(u) + 1)'

\* Between units the scanner enters one, steps over one, or cuts at a semicolon.
LEMMA NormalGoes ==
  ASSUME Text, NEW u, Between(u), ScanNormal
  PROVE  Goes(u) \/ Cuts(u)
  <1>1. /\ state = "normal" /\ ~inStatementBlock /\ pos = u /\ u \in Units
        /\ u \in 1 .. Len(script) /\ u \in Nat /\ ~MarkerLine(u, "Begin")
        /\ UNCHANGED <<script, inStatementBlock, result>>
    <2>1. u \in Units /\ pos = u /\ ~inStatementBlock
      BY DEF Between, ScanNormal, Scanning, More
    <2> QED BY <2>1, UnitPlaces DEF ScanNormal, Scanning, AtBegin
  <1>2. Units' = Units /\ At(u)' = At(u) /\ Pair(u)' = Pair(u) /\ matchDollarTag(u)' = matchDollarTag(u)
        /\ (isEscapeStringPrefix(u)' <=> isEscapeStringPrefix(u)) /\ Escapes(u)' = Escapes(u)
    BY <1>1, SameText, SameUnits
  <1>3. CASE At(u) = "'" /\ Enter("singleQuote")
    <2>1. InQuote(u, "'", Escapes(u), u + 1)
      BY <1>1, QuoteOpens
    <2>2. state' = "singleQuote" /\ pos' = u + 1 /\ UNCHANGED output /\ (escapeString' <=> isEscapeStringPrefix(u))
      BY <1>1, <1>3, Entering
    <2>3. InQuote(u, "'", Escapes(u), pos)'
      BY <1>1, <1>2, <2>1, <2>2, SamePlaces
    <2>4. WithinSingle(u)'
      BY <1>2, <1>3, <2>2, <2>3 DEF WithinSingle
    <2>5. Within(u)'
      BY <1>1, <1>2, <2>4 DEF Within
    <2> QED BY <1>1, <1>3, <2>2, <2>5 DEF Goes, Plain, Ending
  <1>4. CASE At(u) = DoubleQuote /\ Enter("doubleQuote")
    <2>1. InQuote(u, DoubleQuote, {}, u + 1)
      BY <1>1, QuoteOpens
    <2>2. state' = "doubleQuote" /\ pos' = u + 1 /\ UNCHANGED output
      BY <1>1, <1>4, Entering
    <2>3. InQuote(u, DoubleQuote, {}, pos)' /\ (At(u) = DoubleQuote)'
      <3>1. DoubleQuote' = DoubleQuote
        BY DEF DoubleQuote
      <3>2. InQuote(u, DoubleQuote, {}, u + 1)'
        BY <1>1, <2>1, <3>1, SamePlaces
      <3> QED BY <1>2, <1>4, <2>2, <3>1, <3>2
    <2>4. WithinDouble(u)'
      BY <2>2, <2>3 DEF WithinDouble
    <2>5. Within(u)' /\ ~Ending(u)
      BY <1>1, <1>2, <1>4, <2>4, DoubleQuoteDiffers DEF Within, Ending
    <2> QED BY <1>1, <2>2, <2>5 DEF Goes, Plain
  <1>5. CASE At(u) = "$" /\ matchDollarTag(u) # << >> /\ Enter("dollarQuote")
    <2>1. InDollar(u, u + Len(matchDollarTag(u)))
      BY <1>1, <1>5, DollarOpens
    <2>2. state' = "dollarQuote" /\ dollarTag' = matchDollarTag(u) /\ pos' = u + Len(matchDollarTag(u)) /\ UNCHANGED output
      BY <1>1, <1>5, Entering
    <2>3. InDollar(u, pos)'
      BY <1>1, <2>1, <2>2, SamePlaces
    <2>4. WithinDollar(u)'
      BY <1>2, <1>5, <2>2, <2>3 DEF WithinDollar
    <2>5. Within(u)'
      BY <1>1, <1>2, <2>4 DEF Within
    <2> QED BY <1>1, <1>5, <2>2, <2>5 DEF Goes, Plain, Ending
  <1>6. CASE Pair(u) = <<"/", "*">> /\ Enter("blockComment")
    <2>1. InComment(u, u + 2, 1)
      BY <1>1, <1>6, CommentOpens
    <2>2. state' = "blockComment" /\ blockCommentDepth' = 1 /\ pos' = u + 2 /\ UNCHANGED output
      BY <1>1, <1>6, Entering
    <2>3. InComment(u, pos, blockCommentDepth)'
      BY <1>1, <2>1, <2>2, SamePlaces
    <2>4. WithinComment(u)'
      BY <1>2, <1>6, <2>2, <2>3 DEF WithinComment
    <2>5. Within(u)' /\ ~Ending(u)
      BY <1>1, <1>2, <1>6, <2>4 DEF Within, Pair, Ending
    <2> QED BY <1>1, <2>2, <2>5 DEF Goes, Plain
  <1>7. CASE Dashes(u) /\ pos' = LineEnd(u) /\ UNCHANGED <<lexer, output>>
    <2>1. UnitEnd(u) = LineEnd(u) - 1 /\ LineEnd(u) \in Nat
      BY <1>1, <1>7, UnitEndIs, LineEndFacts
    <2>2. state' = "normal" /\ ~inStatementBlock' /\ pos' = UnitEnd(u) + 1
      BY <1>1, <1>7, <2>1 DEF lexer
    <2>3. Between(UnitEnd(u) + 1)'
      BY <1>1, <2>2, BehindUnit
    <2>4. ~Ending(u)
      BY <1>7 DEF Dashes, Markers, Ending
    <2> QED BY <1>1, <1>7, <2>3, <2>4 DEF Goes, Plain
  <1>8. CASE At(u) = ";" /\ appendStatement(u, u + 1) /\ Advance(1) /\ UNCHANGED lexer
    <2>1. UnitEnd(u) = u
      BY <1>1, <1>8, UnitEndIs, DoubleQuoteDiffers DEF Dashes, Markers, Pair
    <2>2. state' = "normal" /\ ~inStatementBlock' /\ pos' = UnitEnd(u) + 1
      BY <1>1, <1>8, <2>1 DEF lexer, Advance
    <2>3. Between(UnitEnd(u) + 1)'
      BY <1>1, <2>2, BehindUnit
    <2> QED BY <1>1, <1>8, <2>1, <2>3 DEF Cuts, Ending
  <1>9. CASE /\ At(u) \notin {"'", DoubleQuote, ";"} /\ ~(At(u) = "$" /\ matchDollarTag(u) # << >>)
             /\ Pair(u) # <<"/", "*">> /\ ~Dashes(u) /\ Advance(1) /\ UNCHANGED <<lexer, output>>
    <2>1. UnitEnd(u) = u
      BY <1>1, <1>9, UnitEndIs
    <2>2. state' = "normal" /\ ~inStatementBlock' /\ pos' = UnitEnd(u) + 1
      BY <1>1, <1>9, <2>1 DEF lexer, Advance
    <2>3. Between(UnitEnd(u) + 1)'
      BY <1>1, <2>2, BehindUnit
    <2> QED BY <1>1, <1>9, <2>3 DEF Goes, Plain, Ending
  <1> QED BY <1>1, <1>3, <1>4, <1>5, <1>6, <1>7, <1>8, <1>9 DEF ScanNormal

\* A block begins: what stands before it is cut off.
BlockBegins(u) ==
  /\ u \in Units /\ MarkerLine(u, "Begin") /\ WithinBlock(u)'
  /\ UNCHANGED <<script, result>> /\ appendStatement(u - 1, u + 2)

\* The line that begins a block.
LEMMA BeginGoes ==
  ASSUME Text, NEW u, Between(u), StatementBegin
  PROVE  BlockBegins(u)
  <1>1. u \in Units /\ u \in 1 .. Len(script) /\ pos = u /\ MarkerLine(u, "Begin") /\ state' = "normal"
        /\ inStatementBlock' /\ pos' = u + 2 /\ UNCHANGED <<script, result>> /\ appendStatement(u - 1, u + 2)
    <2>1. u \in Units /\ pos = u
      BY DEF Between, StatementBegin, More
    <2> QED BY <2>1, UnitPlaces DEF Between, StatementBegin, AtBegin, lexer
  <1>2. InBlock(u, u + 2)
    BY <1>1, BlockOpens
  <1>3. InBlock(u, pos)' /\ MarkerLine(u, "Begin")' /\ (u \in Units)'
    BY <1>1, <1>2, SameText, SameUnits, SamePlaces
  <1> QED BY <1>1, <1>3 DEF BlockBegins, WithinBlock

\* A line in a block.
LEMMA LineGoes ==
  ASSUME Text, NEW u, WithinBlock(u), BlockLine
  PROVE  WithinBlock(u)' /\ UNCHANGED <<script, result, output>>
  <1>1. /\ u \in 1 .. Len(script) /\ pos \in Nat /\ pos <= Len(script) /\ InBlock(u, pos) /\ ~MarkerLine(pos, "End")
        /\ pos' = LineEnd(pos) + 1 /\ UNCHANGED <<script, lexer, inStatementBlock, result, output>>
    BY UnitPlaces DEF WithinBlock, InBlock, BlockLine, More
  <1>2. InBlock(u, LineEnd(pos) + 1)
    BY <1>1, BlockStep
  <1>3. InBlock(u, pos)' /\ MarkerLine(u, "Begin")' /\ (u \in Units)'
    BY <1>1, <1>2, SameText, SameUnits, SamePlaces DEF WithinBlock
  <1> QED BY <1>1, <1>3 DEF WithinBlock, lexer

\* A block ends: its text is cut off.
BlockCloses(u) ==
  /\ u \in Units /\ MarkerLine(u, "Begin") /\ BlockEnds(u) # {}
  /\ UnitEnd(u) = Min(BlockEnds(u)) + 1 /\ Min(BlockEnds(u)) \in u + 1 .. Len(script)
  /\ Between(UnitEnd(u) + 1)'
  /\ UNCHANGED <<script, result>> /\ appendStatement(Min(BlockEnds(u)) - 1, UnitEnd(u) + 1)

\* The line that ends it.
LEMMA EndGoes ==
  ASSUME Text, NEW u, WithinBlock(u), StatementEnd
  PROVE  BlockCloses(u)
  <1>1. /\ u \in 1 .. Len(script) /\ pos \in Nat /\ pos <= Len(script) /\ InBlock(u, pos) /\ MarkerLine(pos, "End")
        /\ pos' = pos + 2 /\ state' = "normal" /\ ~inStatementBlock' /\ UNCHANGED <<script, result>>
        /\ appendStatement(pos - 1, pos + 2) /\ u \in Units /\ MarkerLine(u, "Begin")
    BY UnitPlaces DEF WithinBlock, InBlock, StatementEnd, More, lexer
  <1>2. pos \in BlockEnds(u) /\ FirstOr(BlockEnds(u), Len(script)) = pos /\ Min(BlockEnds(u)) = pos
    BY <1>1, BlockStep
  <1>3. UnitEnd(u) = pos + 1 /\ UnitEnd(u) + 1 = pos + 2 /\ pos \in u + 1 .. Len(script)
    BY <1>1, <1>2, UnitEndIs DEF BlockEnds
  <1>4. Between(UnitEnd(u) + 1)'
    BY <1>1, <1>3, BehindUnit
  <1> QED BY <1>1, <1>2, <1>3, <1>4 DEF BlockCloses

\* At the end of the script the unit the scanner is in reaches to the end.
LEMMA UnfinishedUnit ==
  ASSUME Text, NEW u, pos > Len(script)
  PROVE  /\ Within(u) => UnitEnd(u) >= Len(script)
         /\ WithinBlock(u) => BlockEnds(u) = {}
  <1>1. ASSUME Within(u) PROVE UnitEnd(u) >= Len(script)
    <2>1. u \in 1 .. Len(script) /\ Len(script) \in Nat
      BY <1>1, WithinIsPlain, TextFacts
    <2>2. CASE WithinSingle(u)
      BY <2>1, <2>2, QuoteStays, UnitEndIs DEF WithinSingle, InQuote
    <2>3. CASE WithinDouble(u)
      <3>1. QuotedEnd(u, DoubleQuote, {}) = Len(script)
        BY <2>1, <2>3, QuoteStays DEF WithinDouble, InQuote
      <3> QED BY <2>1, <2>3, <3>1, UnitEndIs DEF WithinDouble
    <2>4. CASE WithinDollar(u)
      <3>1. At(u) = "$" /\ matchDollarTag(u) # << >> /\ InDollar(u, pos) /\ pos \in Nat
        BY <2>4 DEF WithinDollar, InDollar
      <3>2. DollarEnd(u) = Len(script)
        BY <2>1, <3>1, DollarStays
      <3> QED BY <2>1, <3>1, <3>2, UnitEndIs
    <2>5. CASE WithinComment(u)
      <3>1. Pair(u) = <<"/", "*">> /\ InComment(u, pos, blockCommentDepth) /\ pos \in Nat
        BY <2>5 DEF WithinComment, InComment
      <3>2. CommentEnd(u) = Len(script)
        BY <2>1, <3>1, CommentStays
      <3> QED BY <2>1, <3>1, <3>2, UnitEndIs
    <2> QED BY <1>1, <2>2, <2>3, <2>4, <2>5 DEF Within
  <1>2. ASSUME WithinBlock(u) PROVE BlockEnds(u) = {}
    BY <1>2, BlockStays, UnitPlaces DEF WithinBlock, InBlock
  <1> QED BY <1>1, <1>2

-----------------------------------------------------------------------------
(***************************************************************************)
(* The texts of the reference, and those worth executing.                  *)
(***************************************************************************)

\* Where a text outside of the blocks begins, and where one ends.
Begins == {1} \cup {k + 1 : k \in Terminators(Units)} \cup {UnitEnd(k) + 1 : k \in Blocks(Units)}
Ends == {Len(script)} \cup Terminators(Units) \cup {k - 1 : k \in Blocks(Units)}
Pieces == Outside(Units) \cup Inside(Units)

\* No line is too long for a bufio.Scanner.
Short == \A k \in DOMAIN script : script[k] # "Long"

\* The texts outside of the blocks, in these terms.
LEMMA OutsideIs ==
  Outside(Units) = {<<a, Min({b \in Ends : b >= a})>> : a \in {k \in Begins : k \in DOMAIN script} \ Blocks(Units)}
  BY DEF Outside, Begins, Ends

\* A terminator is a unit of one character.
LEMMA TerminatorIs ==
  ASSUME Text, NEW t \in Terminators(Units)
  PROVE  t \in Units /\ t \in Nat /\ Ending(t) /\ UnitEnd(t) = t
  <1>1. t \in Units /\ Ending(t)
    BY Zenon DEF Terminators, Ending
  <1>2. t \in 1 .. Len(script) /\ t \in Nat
    BY <1>1, UnitPlaces
  <1>3. /\ ~Dashes(t) /\ Pair(t) # <<"/", "*">> /\ At(t) \notin {"'", DoubleQuote}
        /\ ~(At(t) = "$" /\ matchDollarTag(t) # << >>)
    BY <1>1, DoubleQuoteDiffers DEF Dashes, Markers, Pair, Ending
  <1> QED BY <1>1, <1>2, <1>3, UnitEndIs

\* The first place of a text is the first place of a unit.
LEMMA BeginsAreUnits ==
  ASSUME Text, NEW a \in Begins, a <= Len(script)
  PROVE  a \in Units
  <1>1. CASE a = 1
    BY <1>1, UnitFacts
  <1>2. CASE a \in {k + 1 : k \in Terminators(Units)}
    BY <1>2, TerminatorIs, UnitFacts
  <1>3. CASE a \in {UnitEnd(k) + 1 : k \in Blocks(Units)}
    <2>1. PICK k \in Units : a = UnitEnd(k) + 1
      BY <1>3 DEF Blocks
    <2> QED BY <2>1, UnitFacts
  <1> QED BY <1>1, <1>2, <1>3 DEF Begins

\* Texts begin at a place,
LEMMA BeginsAreNat ==
  ASSUME Text
  PROVE  \A a \in Begins : a \in Nat /\ a >= 1
  <1>1. \A k \in Terminators(Units) : k \in Nat
    BY TerminatorIs, UnitPlaces
  <1>2. \A k \in Blocks(Units) : UnitEnd(k) \in Nat
    BY UnitFacts DEF Blocks
  <1> QED BY <1>1, <1>2 DEF Begins

\* and they end at one, or before the first.
LEMMA EndsAreNat ==
  ASSUME Text
  PROVE  Ends \in SUBSET Nat
  <1>1. \A k \in Terminators(Units) : k \in Nat
    BY TerminatorIs, UnitPlaces
  <1>2. \A k \in Blocks(Units) : k - 1 \in Nat
    BY UnitPlaces DEF Blocks
  <1>3. Len(script) \in Nat
    BY TextFacts
  <1> QED BY <1>1, <1>2, <1>3 DEF Ends

\* A text reaches to the first terminator, or to the next block, or to the end.
LEMMA PieceReaches ==
  ASSUME Text, NEW a \in Nat, a \in Begins, NEW last \in Nat, last \in Ends, a <= last,
         \A k \in Nat : k \in Units /\ a <= k /\ k < last => ~Ending(k),
         \A k \in Nat : k \in Units /\ a <= k /\ k <= last => ~MarkerLine(k, "Begin")
  PROVE  Min({b \in Ends : b >= a}) = last
  <1> DEFINE T == {b \in Ends : b >= a}
  <1>1. T \in SUBSET Nat /\ last \in T /\ a \in Nat /\ last \in Nat
    BY EndsAreNat, BeginsAreNat
  <1>2. ASSUME NEW b \in Nat, b \in T PROVE last <= b
    <2>1. b >= a /\ b \in Ends
      BY <1>2
    <2>2. CASE b = Len(script)
      <3>1. \A k \in Terminators(Units) \cup Blocks(Units) : k \in Nat /\ k <= Len(script)
        BY TerminatorIs, UnitPlaces DEF Blocks
      <3> QED BY <1>1, <2>2, <3>1, TextFacts DEF Ends
    <2>3. CASE b \in Terminators(Units)
      BY <1>1, <2>1, <2>3, TerminatorIs
    <2>4. CASE b \in {k - 1 : k \in Blocks(Units)}
      <3>1. PICK k \in Nat : k \in Units /\ b = k - 1 /\ MarkerLine(k, "Begin")
        BY <2>4, UnitPlaces DEF Blocks
      <3> QED BY <1>1, <2>1, <3>1
    <2> QED BY <2>1, <2>2, <2>3, <2>4 DEF Ends
  <1> QED BY <1>1, <1>2, MinIs

\* All of the units in a text are plain, from its first place on to before w.
PlainFrom(a, w) == \A k \in Nat : k \in Units /\ a <= k /\ k < w => Plain(k)

\* A stretch without terminators and blocks, up to one of them, is such a text.
LEMMA PieceIsOutside ==
  ASSUME Text, NEW a \in Nat, a \in Begins, NEW last \in Nat, last \in Ends, a <= last, last <= Len(script),
         \A k \in Nat : k \in Units /\ a <= k /\ k < last => ~Ending(k),
         \A k \in Nat : k \in Units /\ a <= k /\ k <= last => ~MarkerLine(k, "Begin")
  PROVE  <<a, last>> \in Outside(Units)
  <1>1. a \in Nat /\ a >= 1 /\ last \in Nat /\ Len(script) \in Nat
    BY EndsAreNat, BeginsAreNat, TextFacts
  <1>2. a \in DOMAIN script
    BY <1>1, TextFacts
  <1>3. a \notin Blocks(Units)
    BY <1>1 DEF Blocks
  <1>4. Min({b \in Ends : b >= a}) = last
    BY PieceReaches
  <1>5. a \in {k \in Begins : k \in DOMAIN script} \ Blocks(Units)
    BY <1>2, <1>3
  <1> QED BY <1>4, <1>5, OutsideIs

\* A text begins where no plain unit ends.
LEMMA OutsideBegins ==
  ASSUME Text, NEW a \in Nat, a \in Begins, NEW w \in Nat, PlainFrom(a, w),
         NEW piece \in Outside(Units), a <= piece[1], piece[1] <= w
  PROVE  piece[1] = a
  <1>1. PICK c \in Nat : c \in Begins /\ piece = <<c, Min({b \in Ends : b >= c})>> /\ c \in DOMAIN script
    BY OutsideIs, BeginsAreNat
  <1>2. piece[1] = c /\ c \in Nat /\ a \in Nat /\ a >= 1 /\ c <= Len(script) /\ Len(script) \in Nat
    BY <1>1, BeginsAreNat, TextFacts
  <1>3. a \in Units /\ c \in Units
    BY <1>1, <1>2, BeginsAreUnits
  <1> SUFFICES ASSUME c > a PROVE FALSE
    BY <1>2
  <1>4. CASE c = 1
    BY <1>2, <1>4
  <1>5. CASE c \in {k + 1 : k \in Terminators(Units)}
    <2>1. PICK t \in Nat : c = t + 1 /\ t \in Units /\ Ending(t)
      BY <1>5, TerminatorIs, UnitPlaces
    <2> QED BY <1>2, <2>1 DEF PlainFrom, Plain
  <1>6. CASE c \in {UnitEnd(k) + 1 : k \in Blocks(Units)}
    <2>1. PICK k \in Nat : k \in Units /\ c = UnitEnd(k) + 1 /\ MarkerLine(k, "Begin")
      BY <1>6, UnitPlaces DEF Blocks
    <2>2. UnitEnd(k) \in Nat /\ k <= UnitEnd(k)
      BY <2>1, UnitFacts
    <2>3. a <= k
      BY <1>2, <1>3, <2>1, <2>2, UnitFacts
    <2> QED BY <1>2, <2>1, <2>2, <2>3 DEF PlainFrom, Plain
  <1> QED BY <1>1, <1>4, <1>5, <1>6 DEF Begins

\* The text of a block begins in the block, where no unit starts.
LEMMA InsideIs ==
  ASSUME Text, NEW piece \in Inside(Units)
  PROVE  \E k \in Nat : /\ k \in Units /\ MarkerLine(k, "Begin") /\ BlockEnds(k) # {}
                          /\ piece = <<k + 2, Min(BlockEnds(k)) - 1>>
                          /\ piece[1] = k + 2 /\ k + 2 <= UnitEnd(k) /\ UnitEnd(k) \in Nat
  <1>1. PICK k \in Units : MarkerLine(k, "Begin") /\ BlockEnds(k) # {} /\ piece = <<k + 2, Min(BlockEnds(k)) - 1>>
    BY DEF Inside, Blocks
  <1>2. k \in Nat /\ k >= 1 /\ k \in 1 .. Len(script) /\ Len(script) \in Nat
    BY UnitPlaces
  <1>3. BlockEnds(k) \in SUBSET Nat /\ Min(BlockEnds(k)) \in BlockEnds(k) /\ FirstOr(BlockEnds(k), Len(script)) = Min(BlockEnds(k))
    <2>1. BlockEnds(k) \in SUBSET Nat
      BY <1>2 DEF BlockEnds
    <2> QED BY <1>1, <2>1, MinFacts DEF FirstOr
  <1>4. UnitEnd(k) = Min(BlockEnds(k)) + 1
    BY <1>1, <1>2, <1>3, UnitEndIs
  <1> HIDE DEF BlockEnds
  <1>5. Min(BlockEnds(k)) \in Nat /\ Min(BlockEnds(k)) >= k + 1
    BY <1>2, <1>3 DEF BlockEnds
  <1> QED BY <1>1, <1>2, <1>4, <1>5

\* Nor does the text of a block begin among plain units.
LEMMA InsideBegins ==
  ASSUME Text, NEW a \in Nat, a \in Begins, NEW w \in Nat, PlainFrom(a, w),
         NEW piece \in Inside(Units), a <= piece[1]
  PROVE  piece[1] > w + 1
  <1>1. PICK k \in Nat : /\ k \in Units /\ MarkerLine(k, "Begin")
                           /\ piece[1] = k + 2 /\ k + 2 <= UnitEnd(k) /\ UnitEnd(k) \in Nat
    BY InsideIs
  <1>2. a \in Nat /\ k <= Len(script) /\ Len(script) \in Nat
    BY <1>1, UnitPlaces
  <1>3. a <= k
    <2> SUFFICES ASSUME k < a PROVE FALSE
      BY <1>1, <1>2
    <2>1. CASE a <= Len(script)
      <3>1. a \in Units
        BY <2>1, BeginsAreUnits
      <3> QED BY <1>1, <1>2, <3>1, UnitFacts
    <2>2. CASE a > Len(script)
      <3>1. PICK v \in Nat : v \in Units /\ a = UnitEnd(v) + 1 /\ UnitEnd(v) \in Nat /\ v <= UnitEnd(v)
        <4>1. a # 1
          BY <1>1, <1>2, <2>2, UnitPlaces
        <4> QED BY <1>1, <4>1, TerminatorIs, UnitFacts, UnitPlaces DEF Begins, Blocks
      <3> QED BY <1>1, <1>2, <2>2, <3>1, UnitFacts
    <2> QED BY <1>2, <2>1, <2>2
  <1> QED BY <1>1, <1>2, <1>3 DEF PlainFrom, Plain

\* There is something to execute in a text of the reference.
Carries(piece) == CarriesSQL(piece, Units)

\* Every block before u has its end.
Closed(u) == \A k \in Nat : k \in Units /\ k < u /\ MarkerLine(k, "Begin") => BlockEnds(k) # {}

\* The texts, too, depend on the script alone.
LEMMA SamePieces ==
  ASSUME script' = script
  PROVE  /\ Pieces' = Pieces /\ Begins' = Begins /\ (Short' <=> Short)
         /\ \A piece : Carries(piece)' <=> Carries(piece)
         /\ \A a, w : PlainFrom(a, w)' <=> PlainFrom(a, w)
         /\ \A u : Closed(u)' <=> Closed(u)
  <1>1. /\ \A k : At(k)' = At(k) /\ UnitEnd(k)' = UnitEnd(k) /\ BlockEnds(k)' = BlockEnds(k)
        /\ \A k : MarkerLine(k, "Begin")' <=> MarkerLine(k, "Begin")
        /\ \A k : Dashes(k)' <=> Dashes(k)
        /\ \A k : LineStart(k)' <=> LineStart(k)
        /\ Units' = Units
    BY SameText, SameUnits
  <1>2. Terminators(Units)' = Terminators(Units) /\ Blocks(Units)' = Blocks(Units)
    <2>1. Terminators(Units)' = Terminators(Units)
      BY <1>1, Zenon DEF Terminators
    <2>2. Blocks(Units)' = Blocks(Units)
      BY <1>1 DEF Blocks
    <2> QED BY <2>1, <2>2
  <1>3. Begins' = Begins /\ Ends' = Ends
    BY <1>1, <1>2 DEF Begins, Ends
  <1>4. Outside(Units)' = Outside(Units)
    <2>1. Outside(Units)' = {<<a, Min({b \in Ends : b >= a})>> : a \in {k \in Begins : k \in DOMAIN script} \ Blocks(Units)}'
      BY DEF Outside, Begins, Ends
    <2> QED BY <1>2, <1>3, <2>1, OutsideIs
  <1>5. Inside(Units)' = Inside(Units)
    BY <1>1, <1>2 DEF Inside
  <1>6. \A piece : Carries(piece)' <=> Carries(piece)
    BY <1>1, <1>5, Zenon DEF Carries, CarriesSQL
  <1>7. \A k : Ending(k)' <=> Ending(k)
    BY <1>1, Zenon DEF Ending
  <1>8. \A a, w : PlainFrom(a, w)' <=> PlainFrom(a, w)
    BY <1>1, <1>7 DEF PlainFrom, Plain
  <1>9. \A u : Closed(u)' <=> Closed(u)
    BY <1>1 DEF Closed
  <1>10. Short' <=> Short
    BY DEF Short
  <1> QED BY <1>3, <1>4, <1>5, <1>6, <1>8, <1>9, <1>10 DEF Pieces

\* Texts begin in the script.
LEMMA PiecesBegin ==
  ASSUME Text, NEW piece \in Pieces
  PROVE  piece[1] \in Nat /\ piece[1] >= 1
  <1>1. CASE piece \in Outside(Units)
    <2>1. PICK a \in Begins : piece = <<a, Min({b \in Ends : b >= a})>>
      BY <1>1, OutsideIs
    <2> QED BY <2>1, BeginsAreNat
  <1>2. CASE piece \in Inside(Units)
    BY <1>2, InsideIs
  <1> QED BY <1>1, <1>2 DEF Pieces

\* What makes a text worth executing.
LEMMA CarriesIs ==
  ASSUME NEW piece, Carries(piece)
  PROVE  \E k \in piece[1] .. piece[2] : /\ ~Ending(k) /\ At(k) # "\n" /\ ~Dashes(k)
                                         /\ piece \in Inside(Units) => LineStart(k)
                                         /\ piece \notin Inside(Units) => k \in Units
  BY Zenon DEF Carries, CarriesSQL, Ending

\* A line that is neither empty nor a comment makes a text a statement.
LEMMA NotEmpty ==
  ASSUME Text, Short, NEW a \in Nat, a >= 1, NEW b \in Nat, NEW k \in Nat, a <= k, k <= b,
         k = a \/ At(k - 1) = "\n", ~Ending(k), At(k) # "\n", ~Dashes(k)
  PROVE  ~isEmptyStatement(a, b)
  <1>1. k \in a .. b
    OBVIOUS
  <1>2. ~ \A j \in a .. b : At(j) \in {";", "\n"}
    BY <1>1, Zenon DEF Ending
  <1>3. \A j : At(j) # "Long"
    BY DEF At, Short
  <1>4. ~isOnlyComments(a, b)
    <2> DEFINE lines == {j \in a .. b : j = a \/ At(j - 1) = "\n"}
               fits(m) == \A j \in m .. b : At(j) = "Long" => LineEnd(m) < j
    <2>1. k \in lines
      BY <1>1
    <2>2. \A m : fits(m)
      BY <1>3
    <2>3. isOnlyComments(a, b) <=>
            \A m \in lines : (\A earlier \in lines : earlier <= m => fits(earlier)) => At(m) = "\n" \/ Dashes(m)
      BY DEF isOnlyComments
    <2> HIDE DEF lines, fits
    <2> QED BY <2>1, <2>2, <2>3
  <1> QED BY <1>2, <1>4, Zenon DEF isEmptyStatement

\* Only a text of at least one character is a statement.
LEMMA EmptyText ==
  ASSUME NEW a \in Nat, NEW b \in Nat, ~isEmptyStatement(a, b)
  PROVE  a <= b
  <1> SUFFICES ASSUME ~(a <= b) PROVE FALSE
    OBVIOUS
  <1>1. a .. b = {}
    OBVIOUS
  <1> QED BY <1>1, Zenon DEF isEmptyStatement

\* Before a unit there is another that ends there.
LEMMA UnitBefore ==
  ASSUME Text, NEW a \in Nat, a \in Units, NEW k \in Nat, k \in Units, a < k
  PROVE  \E m \in Nat : m \in Units /\ a <= m /\ m < k /\ UnitEnd(m) + 1 = k
  <1> DEFINE T == {j \in Units : j < k}
             m == Max(T)
  <1>1. Units \in SUBSET (1 .. Len(script)) /\ Len(script) \in Nat /\ k <= Len(script)
    BY UnitFacts, UnitPlaces
  <1>2. T \in SUBSET (0 .. k) /\ a \in T
    <2>1. \A j \in T : j \in 0 .. k
      BY <1>1
    <2> QED BY <2>1
  <1>3. m \in T /\ \A j \in T : j <= m
    BY <1>2, MaxFacts
  <1>4. m \in Nat /\ m \in Units /\ a <= m /\ m < k
    BY <1>1, <1>2, <1>3
  <1>5. \A j \in Nat : j \in Units /\ j < k => j <= m
    BY <1>3
  <1> HIDE DEF m, T
  <1>6. UnitEnd(m) \in Nat /\ m <= UnitEnd(m) /\ UnitEnd(m) < k
        /\ (UnitEnd(m) + 1 <= Len(script) => UnitEnd(m) + 1 \in Units)
    BY <1>4, UnitFacts
  <1>7. UnitEnd(m) + 1 = k
    BY <1>1, <1>4, <1>5, <1>6
  <1> QED BY <1>4, <1>7

\* The text of a block does not begin where a unit does.
LEMMA NotInside ==
  ASSUME Text, NEW a \in Nat, a \in Units, NEW piece, piece[1] = a
  PROVE  piece \notin Inside(Units)
  <1> SUFFICES ASSUME piece \in Inside(Units) PROVE FALSE
    OBVIOUS
  <1>1. PICK k \in Nat : k \in Units /\ piece[1] = k + 2 /\ k + 2 <= UnitEnd(k) /\ UnitEnd(k) \in Nat
    BY InsideIs
  <1> QED BY <1>1, UnitFacts

\* The first unit of a text that is neither a line end nor a line comment starts a line.
LEMMA OutsideIsKept ==
  ASSUME Text, Short, NEW a \in Nat, a \in Begins, NEW b \in Nat, a <= b, b <= Len(script), PlainFrom(a, b),
         Carries(<<a, b>>)
  PROVE  ~isEmptyStatement(a, b)
  <1> DEFINE Counts(k) == k \in Units /\ a <= k /\ k <= b /\ ~Ending(k) /\ At(k) # "\n" /\ ~Dashes(k)
             T == {k \in Nat : Counts(k)}
  <1>1. a \in Units /\ a >= 1
    BY BeginsAreUnits, BeginsAreNat, TextFacts
  <1>2. <<a, b>> \notin Inside(Units)
    BY <1>1, NotInside
  <1>3. T # {} /\ T \in SUBSET Nat
    <2>1. PICK k \in a .. b : ~Ending(k) /\ At(k) # "\n" /\ ~Dashes(k) /\ k \in Units
      <3> DEFINE piece == <<a, b>>
      <3>1. piece[1] = a /\ piece[2] = b /\ Carries(piece) /\ piece \notin Inside(Units)
        BY <1>2
      <3> HIDE DEF piece
      <3> QED BY <3>1, CarriesIs
    <2> QED BY <2>1
  <1>4. PICK k \in T : \A j \in T : k <= j
    BY <1>3, Least
  <1>5. Counts(k) /\ k \in Nat /\ \A j \in Nat : Counts(j) => k <= j
    BY <1>4
  <1>6. k = a \/ At(k - 1) = "\n"
    <2> SUFFICES ASSUME a < k PROVE At(k - 1) = "\n"
      BY <1>5
    <2>1. PICK m \in Nat : m \in Units /\ a <= m /\ m < k /\ UnitEnd(m) + 1 = k
      BY <1>1, <1>5, UnitBefore
    <2>2. m \in 1 .. Len(script) /\ Plain(m) /\ ~Counts(m)
      BY <1>5, <2>1, UnitPlaces DEF PlainFrom
    <2>3. At(m) = "\n" \/ Dashes(m)
      BY <1>5, <2>1, <2>2 DEF Plain
    <2>4. CASE At(m) = "\n"
      <3>1. /\ ~Dashes(m) /\ Pair(m) # <<"/", "*">> /\ At(m) \notin {"'", DoubleQuote}
            /\ ~(At(m) = "$" /\ matchDollarTag(m) # << >>)
        BY <2>4, DoubleQuoteDiffers DEF Dashes, Markers, Pair
      <3>2. UnitEnd(m) = m
        BY <2>2, <3>1, UnitEndIs
      <3> QED BY <2>1, <2>4, <3>2
    <2>5. CASE Dashes(m)
      <3>1. UnitEnd(m) = LineEnd(m) - 1 /\ At(LineEnd(m)) = "\n" /\ LineEnd(m) \in Nat
        BY <2>2, <2>5, UnitEndIs, LineEndFacts, TextFacts DEF Plain
      <3>2. k = LineEnd(m)
        BY <2>1, <3>1
      <3> QED BY <1>5, <3>1, <3>2
    <2> QED BY <2>3, <2>4, <2>5
  <1> QED BY <1>1, <1>5, <1>6, NotEmpty

\* The text of a block: its lines are the lines isOnlyComments goes through.
LEMMA InsideIsKept ==
  ASSUME Text, Short, NEW a \in Nat, a > 1, NEW b \in Nat, <<a, b>> \in Inside(Units), Carries(<<a, b>>)
  PROVE  ~isEmptyStatement(a, b)
  <1>1. PICK k \in a .. b : ~Ending(k) /\ At(k) # "\n" /\ ~Dashes(k) /\ LineStart(k)
    <2> DEFINE piece == <<a, b>>
    <2>1. piece[1] = a /\ piece[2] = b /\ Carries(piece) /\ piece \in Inside(Units)
      OBVIOUS
    <2> HIDE DEF piece
    <2> QED BY <2>1, CarriesIs
  <1>2. k \in Nat /\ a <= k /\ k <= b /\ At(k - 1) = "\n"
    BY <1>1 DEF LineStart
  <1> QED BY <1>1, <1>2, NotEmpty

-----------------------------------------------------------------------------
(***************************************************************************)
(* The invariant, action by action.                                        *)
(***************************************************************************)

\* The statements so far: texts of the reference, in order, before the buffer.
Cut ==
  /\ statements \in Seq(Nat \X Nat)
  /\ \A j \in DOMAIN statements : statements[j] \in Pieces /\ statements[j][2] < start
  /\ \A j, k \in DOMAIN statements : j < k => statements[j][2] < statements[k][1]

\* No text before the buffer that there is something to execute in is missing.
Kept ==
  \A piece \in Pieces :
    Carries(piece) /\ piece[1] < start => \E j \in DOMAIN statements : statements[j] = piece

\* What is buffered: the plain units since the last text, or the lines of a block.
Buffer(u) ==
  /\ start \in Nat
  /\ inStatementBlock => start = u + 2
  /\ ~inStatementBlock => start \in Begins /\ start <= u /\ PlainFrom(start, u)

Scanner(u) ==
  /\ u \in Nat /\ (Between(u) \/ Within(u) \/ WithinBlock(u))
  /\ Buffer(u) /\ Closed(u) /\ Cut /\ (Short => Kept)

\* A text is cut off: it is one of the reference's, and no other ends up before the buffer.
LEMMA Appended ==
  ASSUME Text, start \in Nat, Cut, Short => Kept, script' = script,
         NEW last \in Nat, NEW next \in Nat, last < next, start <= next,
         start <= last => <<start, last>> \in Pieces,
         Short => \A piece \in Pieces :
                    Carries(piece) /\ start <= piece[1] /\ piece[1] < next
                      => piece = <<start, last>> /\ ~isEmptyStatement(start, last),
         appendStatement(last, next)
  PROVE  start' = next /\ Cut' /\ (Short => Kept)'
  <1> DEFINE new == <<start, last>>
             n == Len(statements)
  <1>1. start' = next /\ Pieces' = Pieces /\ (Short' <=> Short) /\ \A piece : Carries(piece)' <=> Carries(piece)
    BY SamePieces DEF appendStatement
  <1>2. n \in Nat /\ DOMAIN statements = 1 .. n /\ \A j \in 1 .. n : statements[j] \in Nat \X Nat
    BY LenProperties, ElementOfSeq DEF Cut
  <1>3. \A j \in 1 .. n : statements[j][2] \in Nat /\ statements[j][2] < start
    BY <1>2 DEF Cut
  <1>4. \A piece \in Pieces : piece[1] \in Nat
    BY PiecesBegin
  <1>5. CASE isEmptyStatement(start, last)
    <2>1. statements' = statements
      BY <1>5 DEF appendStatement
    <2>2. \A j \in DOMAIN statements : statements[j] \in Pieces /\ statements[j][2] < next
      BY <1>2, <1>3 DEF Cut
    <2>3. Cut'
      BY <1>1, <2>1, <2>2 DEF Cut
    <2>4. ASSUME Short PROVE Kept'
      <3>1. ASSUME NEW piece \in Pieces, Carries(piece), piece[1] < next
            PROVE  \E j \in DOMAIN statements : statements[j] = piece
        <4>1. piece[1] \in Nat
          BY <1>4
        <4>2. ~(start <= piece[1])
          BY <1>5, <2>4, <3>1
        <4> QED BY <2>4, <3>1, <4>1, <4>2 DEF Kept
      <3> QED BY <1>1, <2>1, <3>1 DEF Kept
    <2> QED BY <1>1, <2>3, <2>4
  <1>6. CASE ~isEmptyStatement(start, last)
    <2>1. start <= last /\ new \in Pieces
      BY <1>6, EmptyText
    <2>2. statements' = Append(statements, new)
      BY <1>6 DEF appendStatement
    <2>3. new \in Nat \X Nat /\ new[1] = start /\ new[2] = last
      OBVIOUS
    <2> HIDE DEF new
    <2>4. /\ statements' \in Seq(Nat \X Nat) /\ DOMAIN statements' = 1 .. n + 1
          /\ \A j \in 1 .. n : statements'[j] = statements[j]
          /\ statements'[n + 1] = new
      BY <1>2, <2>2, <2>3, AppendProperties, LenProperties DEF Cut
    <2>5. ASSUME NEW j \in 1 .. n + 1 PROVE statements'[j] \in Pieces /\ statements'[j][2] < next
      <3>1. CASE j = n + 1
        BY <2>1, <2>3, <2>4, <3>1
      <3>2. CASE j \in 1 .. n
        <4>1. statements'[j] = statements[j] /\ statements[j] \in Pieces
          BY <1>2, <2>4, <3>2 DEF Cut
        <4>2. statements[j][2] < next
          BY <1>3, <3>2
        <4> QED BY <4>1, <4>2
      <3> QED BY <1>2, <3>1, <3>2
    <2>6. ASSUME NEW j \in 1 .. n + 1, NEW k \in 1 .. n + 1, j < k
          PROVE  statements'[j][2] < statements'[k][1]
      <3>1. j \in 1 .. n
        BY <1>2, <2>6
      <3>2. CASE k = n + 1
        BY <1>3, <2>3, <2>4, <3>1, <3>2
      <3>3. CASE k \in 1 .. n
        BY <1>2, <2>4, <2>6, <3>1, <3>3 DEF Cut
      <3> QED BY <1>2, <3>2, <3>3
    <2>7. Cut'
      BY <1>1, <2>4, <2>5, <2>6 DEF Cut
    <2>8. ASSUME Short PROVE Kept'
      <3>1. ASSUME NEW piece \in Pieces, Carries(piece), piece[1] < next
            PROVE  \E j \in 1 .. n + 1 : statements'[j] = piece
        <4>1. piece[1] \in Nat
          BY <1>4
        <4>2. CASE start <= piece[1]
          <5>1. piece = new
            BY <2>8, <3>1, <4>2 DEF new
          <5>2. n + 1 \in 1 .. n + 1
            BY <1>2
          <5> QED BY <2>4, <5>1, <5>2
        <4>3. CASE piece[1] < start
          <5>1. PICK j \in 1 .. n : statements[j] = piece
            BY <1>2, <2>8, <3>1, <4>3 DEF Kept
          <5>2. j \in 1 .. n + 1
            BY <1>2
          <5> QED BY <2>4, <5>1, <5>2
        <4> QED BY <4>1, <4>2, <4>3
      <3> QED BY <1>1, <2>4, <3>1 DEF Kept
    <2> QED BY <1>1, <2>7, <2>8
  <1> QED BY <1>5, <1>6

\* A step that leaves the statements and the buffer alone.
LEMMA ScannerStays ==
  ASSUME Text, script' = script, UNCHANGED output
  PROVE  (Cut' <=> Cut) /\ ((Short => Kept)' <=> (Short => Kept))
  <1>1. Pieces' = Pieces /\ (Short' <=> Short) /\ \A piece : Carries(piece)' <=> Carries(piece)
    BY SamePieces
  <1>2. Cut' <=> Cut
    BY <1>1 DEF Cut, output
  <1>3. Kept' <=> Kept
    BY <1>1 DEF Kept, output
  <1> QED BY <1>1, <1>2, <1>3

\* The place behind a unit is the same before and after a step.
LEMMA BetweenAt ==
  ASSUME NEW u, script' = script, Between(UnitEnd(u) + 1)', NEW v, v = UnitEnd(u) + 1
  PROVE  Between(v)'
  <1>1. UnitEnd(u)' = UnitEnd(u)
    BY SameUnits
  <1> QED BY <1>1 DEF Between

\* The steps that cut nothing off keep the invariant.
LEMMA GoesOn ==
  ASSUME Text, NEW u, Scanner(u), ~inStatementBlock, Goes(u)
  PROVE  \E v : Scanner(v)'
  <1>1. /\ u \in Nat /\ u \in Units /\ Plain(u) /\ UNCHANGED <<script, result, output>>
        /\ Within(u)' \/ Between(UnitEnd(u) + 1)'
    BY DEF Goes, Plain, Scanner
  <1>2. UnitEnd(u) \in Nat /\ u <= UnitEnd(u) /\ \A k \in Units : k > u => k > UnitEnd(u)
    BY <1>1, UnitFacts
  <1>3. start \in Nat /\ start \in Begins /\ start <= u /\ PlainFrom(start, u) /\ Closed(u) /\ Cut /\ (Short => Kept)
    BY DEF Scanner, Buffer
  <1>4. Cut' /\ (Short => Kept)' /\ start' = start /\ Begins' = Begins
    BY <1>1, <1>3, ScannerStays, SamePieces DEF output
  <1>5. CASE Within(u)'
    <2>1. PlainFrom(start, u)' /\ Closed(u)'
      BY <1>1, <1>3, <1>4, SamePieces
    <2>2. ~inStatementBlock'
      BY <1>5 DEF Within
    <2>3. Buffer(u)'
      BY <1>3, <1>4, <2>1, <2>2 DEF Buffer
    <2>4. Scanner(u)'
      BY <1>1, <1>4, <1>5, <2>1, <2>3 DEF Scanner
    <2> QED BY <2>4
  <1>6. CASE Between(UnitEnd(u) + 1)'
    <2>0. PICK v \in Nat : v = UnitEnd(u) + 1
      BY <1>2
    <2>1. start <= v /\ Between(v)'
      BY <1>1, <1>2, <1>3, <1>6, <2>0, BetweenAt
    <2>2. \A k \in Nat : k \in Units /\ k < v => k < u \/ k = u
      BY <1>1, <1>2, <2>0
    <2>3. PlainFrom(start, v) /\ Closed(v)
      BY <1>1, <1>3, <2>2 DEF PlainFrom, Closed, Plain
    <2>4. PlainFrom(start, v)' /\ Closed(v)'
      BY <1>1, <1>4, <2>3, SamePieces
    <2>5. ~inStatementBlock'
      BY <2>1 DEF Between
    <2>6. Buffer(v)'
      BY <1>3, <1>4, <2>1, <2>4, <2>5 DEF Buffer
    <2>7. Scanner(v)'
      BY <1>4, <2>1, <2>4, <2>6 DEF Scanner
    <2> QED BY <2>7
  <1> QED BY <1>1, <1>5, <1>6

\* The buffer up to a terminator, a block or the end of the script is a text.
LEMMA BufferIsPiece ==
  ASSUME Text, start \in Nat, start \in Begins, NEW last \in Nat, last \in Ends, last <= Len(script),
         PlainFrom(start, last), \A k \in Nat : k \in Units /\ start <= k /\ k <= last => ~MarkerLine(k, "Begin")
  PROVE  /\ start <= last => <<start, last>> \in Pieces
         /\ Short => \A piece \in Pieces :
              Carries(piece) /\ start <= piece[1] /\ piece[1] <= last
                => piece = <<start, last>> /\ ~isEmptyStatement(start, last)
  <1>1. \A k \in Nat : k \in Units /\ start <= k /\ k < last => ~Ending(k)
    BY DEF PlainFrom, Plain
  <1>2. ASSUME start <= last PROVE <<start, last>> \in Pieces
    BY <1>1, <1>2, PieceIsOutside DEF Pieces
  <1>3. ASSUME Short, NEW piece \in Pieces, Carries(piece), start <= piece[1], piece[1] <= last
        PROVE  piece = <<start, last>> /\ ~isEmptyStatement(start, last)
    <2>1. piece[1] \in Nat
      BY PiecesBegin
    <2>2. piece \in Outside(Units)
      BY <1>3, <2>1, InsideBegins DEF Pieces
    <2>3. piece[1] = start /\ start <= last
      BY <1>3, <2>1, <2>2, OutsideBegins
    <2>4. PICK a \in Begins : piece = <<a, Min({b \in Ends : b >= a})>>
      BY <2>2, OutsideIs
    <2>5. piece = <<start, Min({b \in Ends : b >= start})>>
      BY <2>3, <2>4
    <2>6. piece = <<start, last>>
      BY <1>1, <2>3, <2>5, PieceReaches
    <2> QED BY <1>3, <2>3, <2>6, OutsideIsKept
  <1> QED BY <1>2, <1>3

\* A semicolon between units.
LEMMA CutsOn ==
  ASSUME Text, NEW u, Scanner(u), ~inStatementBlock, Cuts(u)
  PROVE  \E v : Scanner(v)'
  <1>1. /\ u \in Nat /\ u \in Units /\ u <= Len(script) /\ Ending(u) /\ ~MarkerLine(u, "Begin") /\ UnitEnd(u) = u
        /\ script' = script /\ appendStatement(u, u + 1) /\ Between(UnitEnd(u) + 1)'
    BY UnitPlaces DEF Cuts
  <1>2. start \in Nat /\ start \in Begins /\ start <= u /\ PlainFrom(start, u) /\ Closed(u) /\ Cut /\ (Short => Kept)
    BY DEF Scanner, Buffer
  <1>3. u \in Terminators(Units)
    BY <1>1, Zenon DEF Terminators, Ending
  <1>4. u \in Ends /\ u + 1 \in Begins
    BY <1>3 DEF Ends, Begins
  <1>5. \A k \in Nat : k \in Units /\ start <= k /\ k <= u => ~MarkerLine(k, "Begin")
    BY <1>1, <1>2 DEF PlainFrom, Plain
  <1>6. /\ start <= u => <<start, u>> \in Pieces
        /\ Short => \A piece \in Pieces :
             Carries(piece) /\ start <= piece[1] /\ piece[1] < u + 1
               => piece = <<start, u>> /\ ~isEmptyStatement(start, u)
    <2>1. \A piece \in Pieces : piece[1] \in Nat
      BY PiecesBegin
    <2> QED BY <1>1, <1>2, <1>4, <1>5, <2>1, BufferIsPiece
  <1>7. PICK v \in Nat : v = u + 1
    BY <1>1
  <1>8. start' = v /\ Cut' /\ (Short => Kept)'
    BY <1>1, <1>2, <1>6, <1>7, Appended
  <1>9. Between(v)'
    BY <1>1, <1>7, BetweenAt
  <1>10. PlainFrom(v, v) /\ Closed(v) /\ v \in Begins
    BY <1>1, <1>2, <1>4, <1>7 DEF PlainFrom, Closed
  <1>11. PlainFrom(start, v)' /\ Closed(v)' /\ (start \in Begins)'
    BY <1>1, <1>8, <1>10, SamePieces
  <1>12. Buffer(v)'
    BY <1>8, <1>9, <1>11 DEF Buffer, Between
  <1>13. Scanner(v)'
    BY <1>8, <1>9, <1>11, <1>12 DEF Scanner
  <1> QED BY <1>13

\* A block has at least the line of its marker.
LEMMA BlockReaches ==
  ASSUME Text, NEW u \in Nat, u \in Units, MarkerLine(u, "Begin")
  PROVE  UnitEnd(u) \in Nat /\ u + 1 <= UnitEnd(u)
  <1>1. u \in 1 .. Len(script) /\ Len(script) \in Nat /\ u <= Len(script)
    BY UnitPlaces
  <1>2. UnitEnd(u) = FirstOr(BlockEnds(u), Len(script)) + 1
    BY <1>1, UnitEndIs
  <1>3. BlockEnds(u) \in SUBSET Nat /\ \A k \in BlockEnds(u) : k >= u
    BY <1>1 DEF BlockEnds
  <1>4. FirstOr(BlockEnds(u), Len(script)) \in Nat /\ FirstOr(BlockEnds(u), Len(script)) >= u
    <2>1. CASE BlockEnds(u) = {}
      BY <1>1, <2>1, <1>3, FirstOrFacts
    <2>2. CASE BlockEnds(u) # {}
      <3>1. FirstOr(BlockEnds(u), Len(script)) \in BlockEnds(u)
        BY <2>2, <1>3, FirstOrFacts
      <3> QED BY <1>3, <3>1
    <2> QED BY <2>1, <2>2
  <1> QED BY <1>2, <1>4

\* The line that begins a block cuts off what stands before it.
LEMMA BeginsOn ==
  ASSUME Text, NEW u, Scanner(u), ~inStatementBlock, BlockBegins(u)
  PROVE  \E v : Scanner(v)'
  <1>1. /\ u \in Nat /\ u >= 1 /\ u \in Units /\ u <= Len(script) /\ Len(script) \in Nat /\ MarkerLine(u, "Begin")
        /\ script' = script /\ appendStatement(u - 1, u + 2) /\ WithinBlock(u)'
    BY UnitPlaces DEF BlockBegins
  <1>2. start \in Nat /\ start \in Begins /\ start <= u /\ PlainFrom(start, u) /\ Closed(u) /\ Cut /\ (Short => Kept)
    BY DEF Scanner, Buffer
  <1>3. PICK last \in Nat : last = u - 1
    BY <1>1
  <1>4. last \in Ends /\ u \in Blocks(Units)
    BY <1>1, <1>3 DEF Ends, Blocks
  <1>5. /\ PlainFrom(start, last) /\ last <= Len(script)
        /\ \A k \in Nat : k \in Units /\ start <= k /\ k <= last => ~MarkerLine(k, "Begin")
    BY <1>1, <1>2, <1>3 DEF PlainFrom, Plain
  <1>6. /\ start <= last => <<start, last>> \in Pieces
        /\ Short => \A piece \in Pieces :
             Carries(piece) /\ start <= piece[1] /\ piece[1] <= last
               => piece = <<start, last>> /\ ~isEmptyStatement(start, last)
    BY <1>2, <1>4, <1>5, BufferIsPiece
  <1>7. ASSUME NEW piece \in Pieces, start <= piece[1], piece[1] < u + 2
        PROVE  piece[1] <= last
    <2>1. piece[1] \in Nat
      BY PiecesBegin
    <2>2. piece \in Outside(Units)
      BY <1>1, <1>2, <1>7, <2>1, InsideBegins DEF Pieces
    <2>3. PICK a \in Nat : piece[1] = a /\ a \in Begins /\ a \in DOMAIN script /\ a \notin Blocks(Units)
      <3>1. PICK a \in Begins : piece = <<a, Min({b \in Ends : b >= a})>> /\ a \in DOMAIN script /\ a \notin Blocks(Units)
        BY <2>2, OutsideIs
      <3> QED BY <3>1, BeginsAreNat
    <2>4. a \in Units /\ a # u
      BY <1>4, <2>3, BeginsAreUnits, TextFacts
    <2>5. a > u => a > u + 1
      BY <1>1, <2>3, <2>4, BlockReaches, UnitFacts
    <2> QED BY <1>1, <1>3, <1>7, <2>3, <2>4, <2>5
  <1>8. PICK next \in Nat : next = u + 2
    BY <1>1
  <1>9. start' = next /\ Cut' /\ (Short => Kept)'
    <2>1. last < next /\ start <= next /\ appendStatement(last, next)
      BY <1>1, <1>2, <1>3, <1>8
    <2>2. Short => \A piece \in Pieces :
             Carries(piece) /\ start <= piece[1] /\ piece[1] < next
               => piece = <<start, last>> /\ ~isEmptyStatement(start, last)
      BY <1>6, <1>7, <1>8
    <2> QED BY <1>1, <1>2, <1>6, <2>1, <2>2, Appended
  <1>10. Closed(u)'
    BY <1>1, <1>2, SamePieces
  <1>11. Buffer(u)'
    BY <1>1, <1>8, <1>9 DEF Buffer, WithinBlock
  <1>12. Scanner(u)'
    BY <1>1, <1>9, <1>10, <1>11 DEF Scanner
  <1> QED BY <1>12

\* The lines in a block are buffered.
LEMMA LineOn ==
  ASSUME Text, NEW u, Scanner(u), inStatementBlock, WithinBlock(u)', UNCHANGED <<script, result, output>>
  PROVE  Scanner(u)'
  <1>1. u \in Nat /\ start \in Nat /\ start = u + 2 /\ Closed(u) /\ Cut /\ (Short => Kept)
    BY DEF Scanner, Buffer
  <1>2. Cut' /\ (Short => Kept)' /\ start' = start /\ Closed(u)'
    BY <1>1, ScannerStays, SamePieces DEF output
  <1>3. Buffer(u)'
    BY <1>1, <1>2 DEF Buffer, WithinBlock
  <1> QED BY <1>1, <1>2, <1>3 DEF Scanner

\* The line that ends a block cuts off its text.
LEMMA ClosesOn ==
  ASSUME Text, NEW u, Scanner(u), inStatementBlock, BlockCloses(u)
  PROVE  \E v : Scanner(v)'
  <1>1. /\ u \in Nat /\ u >= 1 /\ u \in Units /\ u <= Len(script) /\ Len(script) \in Nat
        /\ MarkerLine(u, "Begin") /\ BlockEnds(u) # {} /\ script' = script
        /\ Min(BlockEnds(u)) \in u + 1 .. Len(script) /\ UnitEnd(u) = Min(BlockEnds(u)) + 1
        /\ Between(UnitEnd(u) + 1)' /\ appendStatement(Min(BlockEnds(u)) - 1, UnitEnd(u) + 1)
    BY UnitPlaces DEF BlockCloses
  <1>2. start \in Nat /\ start = u + 2 /\ Closed(u) /\ Cut /\ (Short => Kept)
    BY DEF Scanner, Buffer
  <1>3. PICK last \in Nat : last = Min(BlockEnds(u)) - 1
    BY <1>1
  <1>4. PICK v \in Nat : v = UnitEnd(u) + 1
    BY <1>1
  <1>5. last < v /\ start <= v /\ last = v - 3 /\ appendStatement(last, v)
    BY <1>1, <1>2, <1>3, <1>4
  <1>6. u \in Blocks(Units) /\ v \in Begins
    BY <1>1, <1>4 DEF Blocks, Begins
  <1>7. <<start, last>> \in Inside(Units)
    BY <1>1, <1>2, <1>3, <1>6 DEF Inside
  <1>8. ASSUME NEW piece \in Pieces, start <= piece[1], piece[1] < v
        PROVE  piece = <<start, last>>
    <2>1. piece[1] \in Nat
      BY PiecesBegin
    <2>2. CASE piece \in Outside(Units)
      <3>1. PICK a \in Nat : piece[1] = a /\ a \in Begins /\ a \in DOMAIN script
        <4>1. PICK a \in Begins : piece = <<a, Min({b \in Ends : b >= a})>> /\ a \in DOMAIN script
          BY <2>2, OutsideIs
        <4> QED BY <4>1, BeginsAreNat
      <3>2. a \in Units /\ a > u
        BY <1>1, <1>2, <1>8, <3>1, BeginsAreUnits, TextFacts
      <3>3. a > UnitEnd(u)
        BY <1>1, <3>2, UnitFacts
      <3> QED BY <1>1, <1>4, <1>8, <3>1, <3>3
    <2>3. CASE piece \in Inside(Units)
      <3>1. PICK k \in Nat : /\ k \in Units /\ piece = <<k + 2, Min(BlockEnds(k)) - 1>>
                             /\ piece[1] = k + 2 /\ k + 2 <= UnitEnd(k) /\ UnitEnd(k) \in Nat
        BY <2>3, InsideIs
      <3>2. k = u
        <4>1. k >= u /\ k < UnitEnd(u)
          BY <1>1, <1>2, <1>4, <1>8, <3>1
        <4> QED BY <1>1, <3>1, <4>1, UnitFacts
      <3> QED BY <1>2, <1>3, <3>1, <3>2
    <2> QED BY <2>2, <2>3 DEF Pieces
  <1>9. start' = v /\ Cut' /\ (Short => Kept)'
    <2>1. <<start, last>> \in Pieces
      BY <1>7 DEF Pieces
    <2>2. Short => \A piece \in Pieces :
             Carries(piece) /\ start <= piece[1] /\ piece[1] < v
               => piece = <<start, last>> /\ ~isEmptyStatement(start, last)
      BY <1>1, <1>2, <1>7, <1>8, InsideIsKept
    <2> QED BY <1>1, <1>2, <1>5, <2>1, <2>2, Appended
  <1>10. Between(v)'
    BY <1>1, <1>4, BetweenAt
  <1>11. PlainFrom(v, v) /\ Closed(v)
    <2>1. \A k \in Nat : k \in Units /\ k < v => k < u \/ k = u
      BY <1>1, <1>4, UnitFacts
    <2> QED BY <1>1, <1>2, <2>1 DEF PlainFrom, Closed
  <1>12. PlainFrom(start, v)' /\ Closed(v)' /\ (start \in Begins)'
    BY <1>1, <1>6, <1>9, <1>11, SamePieces
  <1>13. Buffer(v)'
    BY <1>9, <1>10, <1>12 DEF Buffer, Between
  <1>14. Scanner(v)'
    BY <1>9, <1>10, <1>12, <1>13 DEF Scanner
  <1> QED BY <1>14

\* What the scanner returns.
Done ==
  /\ result = "error" <=> \E k \in Units : MarkerLine(k, "Begin") /\ BlockEnds(k) = {}
  /\ \A j \in DOMAIN statements : statements[j] \in Pieces
  /\ \A j, k \in DOMAIN statements : j < k => statements[j][2] < statements[k][1]
  /\ Short /\ result = "ok" =>
       \A piece \in Pieces : Carries(piece) => \E j \in DOMAIN statements : statements[j] = piece

\* That is what the two properties say.
LEMMA DoneIs ==
  ASSUME Done
  PROVE  CutsWhereStatementsEnd /\ (Short => NoSQLIsDropped)
  <1>1. (\E k \in Blocks(Units) : BlockEnds(k) = {}) <=> \E k \in Units : MarkerLine(k, "Begin") /\ BlockEnds(k) = {}
    BY DEF Blocks
  <1>2. ToSet(statements) \subseteq Outside(Units) \cup Inside(Units)
    BY DEF ToSet, Done, Pieces
  <1>3. CutsWhereStatementsEnd
    BY <1>1, <1>2 DEF CutsWhereStatementsEnd, Done
  <1>4. Short => NoSQLIsDropped
    BY DEF NoSQLIsDropped, Done, Pieces, Carries, ToSet
  <1> QED BY <1>3, <1>4

\* Nothing changes once the scanner has returned.
LEMMA DoneStays ==
  ASSUME Done, UNCHANGED <<script, statements, result>>
  PROVE  Done'
  <1>1. /\ Pieces' = Pieces /\ (Short' <=> Short) /\ \A piece : Carries(piece)' <=> Carries(piece)
        /\ Units' = Units /\ \A k : BlockEnds(k)' = BlockEnds(k)
        /\ \A k : MarkerLine(k, "Begin")' <=> MarkerLine(k, "Begin")
    BY SamePieces, SameUnits, SameText
  <1> QED BY <1>1 DEF Done

\* Something to execute is not behind the end of the script.
LEMMA CarriedInside ==
  ASSUME Text, NEW piece \in Pieces, Carries(piece)
  PROVE  piece[1] <= Len(script)
  <1>1. PICK k \in piece[1] .. piece[2] : At(k) # "\n"
    BY CarriesIs
  <1>2. k \in 1 .. Len(script) /\ Len(script) \in Nat /\ piece[1] \in Nat
    BY <1>1, TextFacts, PiecesBegin
  <1>3. piece[1] <= k
    BY <1>1, <1>2
  <1> QED BY <1>2, <1>3

\* The end of the script: the rest is the last text, or a block is open.
LEMMA Returns ==
  ASSUME Text, NEW u, Scanner(u), Return
  PROVE  Done' /\ result' # "none" /\ script' = script
  <1>1. result' \in {"ok", "error"} /\ pos > Len(script) /\ script' = script /\ Len(script) \in Nat
    BY TextFacts DEF Return
  <1>2. u \in Nat /\ start \in Nat /\ Closed(u) /\ Cut /\ (Short => Kept)
    BY DEF Scanner, Buffer
  <1>3. /\ Pieces' = Pieces /\ (Short' <=> Short) /\ \A piece : Carries(piece)' <=> Carries(piece)
        /\ Units' = Units /\ \A k : BlockEnds(k)' = BlockEnds(k)
        /\ \A k : MarkerLine(k, "Begin")' <=> MarkerLine(k, "Begin")
    BY <1>1, SamePieces, SameUnits, SameText
  <1>4. CASE inStatementBlock
    <2>1. result' = "error" /\ statements' = << >> /\ WithinBlock(u)
      BY <1>4 DEF Return, Scanner, Between, Within
    <2>2. BlockEnds(u) = {} /\ u \in Units /\ MarkerLine(u, "Begin")
      BY <1>1, <2>1, UnfinishedUnit DEF WithinBlock
    <2>3. DOMAIN statements' = {}
      BY <2>1
    <2>4. \E k \in Units : MarkerLine(k, "Begin") /\ BlockEnds(k) = {}
      BY <2>2
    <2>5. Done'
      BY <1>3, <2>1, <2>3, <2>4 DEF Done
    <2> QED BY <1>1, <2>5
  <1>5. CASE ~inStatementBlock
    <2>1. PICK n \in Nat : n = Len(script)
      BY <1>1
    <2>2. result' = "ok" /\ appendStatement(n, n + 1) /\ (Between(u) \/ Within(u))
      BY <1>5, <2>1 DEF Return, Scanner, WithinBlock
    <2>3. start \in Begins /\ start <= u /\ PlainFrom(start, u)
      BY <1>5 DEF Scanner, Buffer
    <2>4. \A k \in Nat : k \in Units => k < u \/ (k = u /\ Plain(u))
      <3>1. \A k \in Nat : k \in Units => k <= n
        BY <2>1, UnitPlaces
      <3>2. CASE Between(u)
        BY <1>1, <1>2, <2>1, <3>1, <3>2 DEF Between
      <3>3. CASE Within(u)
        <4>1. Plain(u) /\ u \in Units /\ UnitEnd(u) >= n
          BY <1>1, <2>1, <3>3, WithinIsPlain, UnfinishedUnit DEF Plain
        <4>2. UnitEnd(u) \in Nat
          BY <4>1, UnitFacts
        <4> QED BY <1>2, <2>1, <3>1, <4>1, <4>2, UnitFacts
      <3> QED BY <2>2, <3>2, <3>3
    <2>5. PlainFrom(start, n)
      BY <1>2, <2>3, <2>4 DEF PlainFrom
    <2>6. \A k \in Nat : k \in Units /\ start <= k => ~MarkerLine(k, "Begin")
      BY <1>2, <2>3, <2>4 DEF PlainFrom, Plain
    <2>7. ~ \E k \in Units : MarkerLine(k, "Begin") /\ BlockEnds(k) = {}
      BY <1>2, <2>4, UnitPlaces DEF Closed, Plain
    <2>8. n \in Ends /\ n <= Len(script)
      BY <2>1 DEF Ends
    <2>9. \A piece \in Pieces : piece[1] \in Nat /\ (Carries(piece) => piece[1] <= n)
      BY <2>1, PiecesBegin, CarriedInside
    <2>10. /\ start <= n => <<start, n>> \in Pieces
           /\ Short => \A piece \in Pieces :
                Carries(piece) /\ start <= piece[1] /\ piece[1] <= n
                  => piece = <<start, n>> /\ ~isEmptyStatement(start, n)
      BY <1>2, <2>3, <2>5, <2>6, <2>8, BufferIsPiece
    <2>11. /\ \A j \in DOMAIN statements' : statements'[j] \in Pieces
           /\ \A j, k \in DOMAIN statements' : j < k => statements'[j][2] < statements'[k][1]
           /\ Short => \A piece \in Pieces : Carries(piece) => \E j \in DOMAIN statements' : statements'[j] = piece
      <3>1. CASE start <= n + 1
        <4>1. PICK next \in Nat : next = n + 1
          OBVIOUS
        <4>2. n < next /\ start <= next /\ appendStatement(n, next)
          BY <2>2, <3>1, <4>1
        <4>3. Short => \A piece \in Pieces :
                Carries(piece) /\ start <= piece[1] /\ piece[1] < next
                  => piece = <<start, n>> /\ ~isEmptyStatement(start, n)
          BY <2>9, <2>10
        <4>4. start' = next /\ Cut' /\ (Short => Kept)'
          BY <1>1, <1>2, <2>10, <4>2, <4>3, Appended
        <4>5. \A piece \in Pieces : Carries(piece) => piece[1] < next
          BY <2>9, <4>1
        <4> QED BY <1>3, <4>4, <4>5 DEF Cut, Kept
      <3>2. CASE start > n + 1
        <4>1. isEmptyStatement(start, n)
          BY <1>2, <3>2, EmptyText
        <4>2. statements' = statements
          BY <2>2, <4>1 DEF appendStatement
        <4>3. \A piece \in Pieces : Carries(piece) => piece[1] < start
          BY <1>2, <2>9, <3>2
        <4> QED BY <1>2, <4>2, <4>3 DEF Cut, Kept
      <3> QED BY <1>2, <3>1, <3>2
    <2>12. Done'
      BY <1>3, <2>2, <2>7, <2>11 DEF Done
    <2> QED BY <1>1, <2>12
  <1> QED BY <1>4, <1>5

(***************************************************************************)
(* The inductive invariant: while it runs the scanner is at the start of a *)
(* unit or in one, everything before the buffer is cut as the reference    *)
(* cuts it, and the buffer ends no statement.                              *)
(***************************************************************************)
IInv ==
  /\ Text
  /\ result = "none" => \E u : Scanner(u)
  /\ result # "none" => Done

\* The invariant holds at the start.
LEMMA IInvInit ==
  ASSUME Init
  PROVE  IInv
  <1>1. Text /\ result = "none"
    BY ScriptsAssumption DEF Text, Init
  <1>2. pos = 1 /\ state = "normal" /\ inStatementBlock = FALSE /\ start = 1 /\ statements = << >>
    BY DEF Init
  <1>3. Between(1)
    <2>1. Len(script) >= 1 => 1 \in Units
      BY <1>1, UnitFacts
    <2>2. Len(script) \in Nat
      BY <1>1, TextFacts
    <2> QED BY <1>2, <2>1, <2>2 DEF Between
  <1>4. Buffer(1) /\ Closed(1)
    <2>1. \A k \in Nat : k \in Units => k >= 1
      BY <1>1, UnitPlaces
    <2> QED BY <1>2, <2>1 DEF Buffer, Closed, PlainFrom, Begins
  <1>5. Cut
    BY <1>2 DEF Cut
  <1>6. Kept
    BY <1>1, <1>2, PiecesBegin DEF Kept
  <1>7. Scanner(1)
    BY <1>3, <1>4, <1>5, <1>6 DEF Scanner
  <1> QED BY <1>1, <1>7 DEF IInv

\* Every step keeps it.
LEMMA IInvStep ==
  ASSUME IInv, [Next]_vars
  PROVE  IInv'
  <1>1. Text
    BY DEF IInv
  <1>2. ASSUME Next PROVE IInv'
    <2>1. result = "none" /\ script' = script
      BY <1>2 DEF Next, StatementBegin, StatementEnd, BlockLine, ScanNormal, ScanSingleQuote, ScanDoubleQuote,
                  ScanDollarQuote, ScanBlockComment, Return, Scanning, More
    <2>2. Text'
      BY <1>1, <2>1, SameText
    <2>3. PICK u : Scanner(u)
      BY <2>1 DEF IInv
    <2>4. Between(u) \/ Within(u) \/ WithinBlock(u)
      BY <2>3 DEF Scanner
    <2>5. CASE Return
      BY <1>1, <2>2, <2>3, <2>5, Returns DEF IInv
    <2>6. CASE ~Return
      <3> SUFFICES (\E v : Scanner(v)') /\ result' = "none"
        BY <2>2 DEF IInv
      <3>1. result' = "none"
        BY <1>2, <2>1, <2>6 DEF Next, StatementBegin, StatementEnd, BlockLine, ScanNormal, ScanSingleQuote,
                    ScanDoubleQuote, ScanDollarQuote, ScanBlockComment
      <3>2. CASE StatementBegin
        <4>1. ~inStatementBlock /\ Between(u)
          BY <2>4, <3>2 DEF StatementBegin, AtBegin, WithinBlock, Within, WithinSingle, WithinDouble, WithinDollar, WithinComment
        <4> QED BY <1>1, <2>3, <3>1, <3>2, <4>1, BeginGoes, BeginsOn
      <3>3. CASE StatementEnd
        <4>1. inStatementBlock /\ WithinBlock(u)
          BY <2>4, <3>3 DEF StatementEnd, Between, Within
        <4> QED BY <1>1, <2>3, <3>1, <3>3, <4>1, EndGoes, ClosesOn
      <3>4. CASE BlockLine
        <4>1. inStatementBlock /\ WithinBlock(u)
          BY <2>4, <3>4 DEF BlockLine, Between, Within
        <4> QED BY <1>1, <2>3, <3>1, <3>4, <4>1, LineGoes, LineOn
      <3>5. CASE ScanNormal
        <4>1. ~inStatementBlock /\ Between(u)
          BY <2>4, <3>5 DEF ScanNormal, Scanning, WithinBlock, Within, WithinSingle, WithinDouble, WithinDollar, WithinComment
        <4>2. Goes(u) \/ Cuts(u)
          BY <1>1, <3>5, <4>1, NormalGoes
        <4> QED BY <1>1, <2>3, <3>1, <4>1, <4>2, GoesOn, CutsOn
      <3>6. CASE ScanSingleQuote \/ ScanDoubleQuote \/ ScanDollarQuote \/ ScanBlockComment
        <4>1. ~inStatementBlock /\ Within(u)
          BY <2>4, <3>6 DEF ScanSingleQuote, ScanDoubleQuote, ScanDollarQuote, ScanBlockComment, Scanning, WithinBlock, Between
        <4>2. Goes(u)
          BY <1>1, <3>6, <4>1, SingleQuoteGoes, DoubleQuoteGoes, DollarQuoteGoes, BlockCommentGoes
        <4> QED BY <1>1, <2>3, <3>1, <4>1, <4>2, GoesOn
      <3> QED BY <1>2, <2>6, <3>2, <3>3, <3>4, <3>5, <3>6 DEF Next
    <2> QED BY <2>5, <2>6
  <1>3. ASSUME UNCHANGED vars PROVE IInv'
    <2>1. UNCHANGED <<script, pos, state, dollarTag, blockCommentDepth, escapeString, inStatementBlock, start, statements, result>>
      BY <1>3 DEF vars, lexer, output
    <2>2. Text'
      BY <1>1, <2>1, SameText
    <2>3. CASE result = "none"
      <3>1. PICK u : Scanner(u)
        BY <2>3 DEF IInv
      <3>2. Scanner(u)'
        <4>1. /\ Between(u)' <=> Between(u)
              /\ WithinBlock(u)' <=> WithinBlock(u)
              /\ Within(u)' <=> Within(u)
          <5>1. /\ \A k : At(k)' = At(k) /\ Pair(k)' = Pair(k) /\ matchDollarTag(k)' = matchDollarTag(k)
                /\ Escapes(u)' = Escapes(u) /\ Units' = Units
                /\ isEscapeStringPrefix(u)' <=> isEscapeStringPrefix(u)
                /\ MarkerLine(u, "Begin")' <=> MarkerLine(u, "Begin")
            BY <2>1, SameText, SameUnits
          <5>2. Between(u)' <=> Between(u)
            BY <2>1, <5>1 DEF Between
          <5>3. WithinBlock(u)' <=> WithinBlock(u)
            <6>1. InBlock(u, pos)' <=> InBlock(u, pos)
              BY <2>1, SamePlaces
            <6> QED BY <2>1, <5>1, <6>1 DEF WithinBlock
          <5>4. WithinSingle(u)' <=> WithinSingle(u)
            <6>1. InQuote(u, "'", Escapes(u), pos)' <=> InQuote(u, "'", Escapes(u), pos)
              BY <2>1, <5>1, SamePlaces
            <6> QED BY <2>1, <5>1, <6>1 DEF WithinSingle
          <5>5. WithinDouble(u)' <=> WithinDouble(u)
            <6>1. DoubleQuote' = DoubleQuote
              BY DEF DoubleQuote
            <6>2. InQuote(u, DoubleQuote, {}, pos)' <=> InQuote(u, DoubleQuote, {}, pos)
              BY <2>1, <6>1, SamePlaces
            <6> QED BY <2>1, <5>1, <6>1, <6>2 DEF WithinDouble
          <5>6. WithinDollar(u)' <=> WithinDollar(u)
            <6>1. InDollar(u, pos)' <=> InDollar(u, pos)
              BY <2>1, SamePlaces
            <6> QED BY <2>1, <5>1, <6>1 DEF WithinDollar
          <5>7. WithinComment(u)' <=> WithinComment(u)
            <6>1. InComment(u, pos, blockCommentDepth)' <=> InComment(u, pos, blockCommentDepth)
              BY <2>1, SamePlaces
            <6> QED BY <2>1, <5>1, <6>1 DEF WithinComment
          <5> QED BY <2>1, <5>1, <5>2, <5>3, <5>4, <5>5, <5>6, <5>7 DEF Within
        <4>2. (Cut' <=> Cut) /\ ((Short => Kept)' <=> (Short => Kept))
          BY <1>1, <2>1, ScannerStays DEF output
        <4>3. Buffer(u)' <=> Buffer(u)
          <5>1. Begins' = Begins /\ (PlainFrom(start, u)' <=> PlainFrom(start, u))
            BY <2>1, SamePieces
          <5> QED BY <2>1, <5>1 DEF Buffer
        <4>4. Closed(u)' <=> Closed(u)
          BY <2>1, SamePieces
        <4> QED BY <3>1, <4>1, <4>2, <4>3, <4>4 DEF Scanner
      <3> QED BY <2>1, <2>2, <2>3, <3>2 DEF IInv
    <2>4. CASE result # "none"
      BY <2>1, <2>2, <2>4, DoneStays DEF IInv
    <2> QED BY <2>3, <2>4
  <1> QED BY <1>2, <1>3

\* It holds always.
LEMMA IInvHolds == Spec => []IInv
  <1>1. Init => IInv
    BY IInvInit
  <1>2. IInv /\ [Next]_vars => IInv'
    BY IInvStep
  <1> QED BY <1>1, <1>2, PTL DEF Spec

(***************************************************************************)
(* For every script: the statements splitSQLStatements returns are texts   *)
(* the reference has, in their order, and it fails exactly when a block is *)
(* never closed.                                                           *)
(***************************************************************************)
THEOREM StatementsEndWhereTheyShould == Spec => []CutsWhereStatementsEnd
  <1>1. IInv => CutsWhereStatementsEnd
    BY DoneIs DEF IInv, CutsWhereStatementsEnd
  <1> QED BY <1>1, IInvHolds, PTL

(***************************************************************************)
(* For every script without a line longer than the buffer of a             *)
(* bufio.Scanner: isEmptyStatement drops no text that there is something   *)
(* to execute in.  The hypothesis is needed: a long line is dropped with   *)
(* its statement, which the run on long scripts shows.                     *)
(***************************************************************************)
THEOREM ShortScriptsLoseNothing == Spec => [](Short => NoSQLIsDropped)
  <1>1. IInv => (Short => NoSQLIsDropped)
    BY DoneIs DEF IInv, NoSQLIsDropped
  <1> QED BY <1>1, IInvHolds, PTL
=============================================================================
