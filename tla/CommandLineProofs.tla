------------------------- MODULE CommandLineProofs -------------------------
(***************************************************************************)
(* From flags, environment and options to the call of the service, for     *)
(* every invocation.  CInv says what the steps a command has behind it     *)
(* have left; the rest is about texts: a quoted name and a quoted setting, *)
(* of any length, are read back as what was written, and the name made for *)
(* a migration makes itself again.                                         *)
(*                                                                         *)
(* A text is read one character at a time.  The facts about all texts rest *)
(* on the well-foundedness of the natural numbers, from which come the     *)
(* induction over a set of sequences and the existence of what a reader    *)
(* computes.                                                               *)
(***************************************************************************)
EXTENDS CommandLine, SequenceTheorems, WellFoundedInduction, TLAPS

\* A set of numbers that is not empty has a least one.
LEMMA LeastOne ==
  ASSUME NEW T \in SUBSET Nat, T # {}
  PROVE  \E k \in T : \A j \in T : k <= j
  <1>1. PICK k \in T : \A j \in T : ~(<<j, k>> \in OpToRel(<, Nat))
    BY NatLessThanWellFounded, WFMin
  <1>2. \A j \in T : ~(j < k)
    BY <1>1 DEF OpToRel
  <1> QED BY <1>2

\* Induction up to n, over a set.
LEMMA Induct ==
  ASSUME NEW n \in Nat, NEW S, 0 \in S, \A k \in 1 .. n : k - 1 \in S => k \in S
  PROVE  \A k \in 0 .. n : k \in S
  <1> DEFINE T == {k \in 0 .. n : k \notin S}
  <1> SUFFICES ASSUME T # {} PROVE FALSE
    OBVIOUS
  <1>1. T \in SUBSET Nat
    OBVIOUS
  <1>2. PICK k \in T : \A j \in T : k <= j
    BY <1>1, LeastOne
  <1>3. k \in 1 .. n /\ k - 1 \notin T /\ k - 1 \in 0 .. n
    BY <1>2
  <1> QED BY <1>2, <1>3

\* f is computed from base, a step for each number up to n.
IsStep(step, n, X) == step \in [X \X (1 .. n) -> X]
Follows(f, n, X, base, step) ==
  f \in [0 .. n -> X] /\ f[0] = base /\ \A k \in 1 .. n : f[k] = step[<<f[k - 1], k>>]

\* A function defined by recursion on its argument exists.
LEMMA Recursion ==
  ASSUME NEW n \in Nat, NEW X, NEW base \in X, NEW step, IsStep(step, n, X)
  PROVE  \E f : Follows(f, n, X, base, step)
  <1> USE DEF IsStep
  <1> DEFINE S == {m \in 0 .. n : \E f \in [0 .. m -> X] :
                     f[0] = base /\ \A k \in 1 .. m : f[k] = step[<<f[k - 1], k>>]}
  <1>1. 0 \in S
    <2>1. [k \in 0 .. 0 |-> base] \in [0 .. 0 -> X]
      OBVIOUS
    <2>2. [k \in 0 .. 0 |-> base][0] = base
      OBVIOUS
    <2>3. \A k \in 1 .. 0 : FALSE
      OBVIOUS
    <2>4. 0 \in 0 .. n
      OBVIOUS
    <2> QED BY <2>1, <2>2, <2>3, <2>4
  <1>2. ASSUME NEW m \in 1 .. n, m - 1 \in S PROVE m \in S
    <2>1. PICK f \in [0 .. m - 1 -> X] : f[0] = base /\ \A k \in 1 .. m - 1 : f[k] = step[<<f[k - 1], k>>]
      BY <1>2
    <2> DEFINE next == step[<<f[m - 1], m>>]
               g == [k \in 0 .. m |-> IF k = m THEN next ELSE f[k]]
    <2>2. next \in X
      <3>1. f[m - 1] \in X
        OBVIOUS
      <3>2. <<f[m - 1], m>> \in X \X (1 .. n)
        BY <3>1
      <3> QED BY <3>2
    <2>3. g \in [0 .. m -> X]
      <3> HIDE DEF next
      <3> QED BY <2>2
    <2>4. g[0] = base
      BY <2>1
    <2>5. ASSUME NEW k \in 1 .. m PROVE g[k] = step[<<g[k - 1], k>>]
      <3>1. CASE k = m
        <4>1. g[k - 1] = f[k - 1] /\ g[k] = next
          BY <3>1
        <4> QED BY <3>1, <4>1
      <3>2. CASE k # m
        <4>1. k \in 1 .. m - 1 /\ g[k] = f[k] /\ g[k - 1] = f[k - 1]
          BY <3>2
        <4> QED BY <2>1, <4>1
      <3> QED BY <3>1, <3>2
    <2>6. m \in 0 .. n
      OBVIOUS
    <2> HIDE DEF g
    <2> QED BY <2>3, <2>4, <2>5, <2>6
  <1> HIDE DEF S
  <1>3. n \in S
    BY <1>1, <1>2, Induct
  <1> QED BY <1>3 DEF S, Follows

\* Induction over sequences: a set that has the empty sequence and with a sequence
\* all those one longer has them all.
LEMMA SeqInduct ==
  ASSUME NEW C, NEW S, << >> \in S, \A s \in Seq(C), c \in C : s \in S => Append(s, c) \in S
  PROVE  Seq(C) \subseteq S
  <1> DEFINE T == {n \in Nat : \A s \in Seq(C) : Len(s) = n => s \in S}
  <1> SUFFICES ASSUME NEW n \in Nat PROVE n \in T
    <2>1. \A s \in Seq(C) : Len(s) \in Nat
      BY LenProperties
    <2> QED BY <2>1
  <1>1. 0 \in T
    BY EmptySeq
  <1>2. ASSUME NEW k \in 1 .. n, k - 1 \in T PROVE k \in T
    <2> SUFFICES ASSUME NEW s \in Seq(C), Len(s) = k PROVE s \in S
      OBVIOUS
    <2>1. PICK t \in Seq(C), c \in C : s = Append(t, c)
      BY SequenceEmptyOrAppend, EmptySeq
    <2>2. Len(t) \in Nat /\ Len(s) = Len(t) + 1
      BY <2>1, LenProperties, AppendProperties
    <2> QED BY <1>2, <2>1, <2>2
  <1> HIDE DEF T
  <1>3. \A k \in 0 .. n : k \in T
    BY <1>1, <1>2, Induct
  <1> QED BY <1>3

-----------------------------------------------------------------------------
(***************************************************************************)
(* What is computed along a sequence, an element at a time.                *)
(***************************************************************************)
IsReader(step, X, C) == step \in [X \X C -> X]

Reads(f, s, base, step) ==
  f = [k \in 0 .. Len(s) |-> IF k = 0 THEN base ELSE step[<<f[k - 1], s[k]>>]]

\* Such a computation exists for every sequence and stays in its set of states.
LEMMA ReaderExists ==
  ASSUME NEW C, NEW X, NEW base \in X, NEW step, IsReader(step, X, C), NEW s \in Seq(C)
  PROVE  \E f \in [0 .. Len(s) -> X] : Reads(f, s, base, step)
  <1>1. PICK n \in Nat : n = Len(s) /\ \A k \in 1 .. n : s[k] \in C
    BY LenProperties, ElementOfSeq
  <1> DEFINE by == [p \in X \X (1 .. n) |-> step[<<p[1], s[p[2]]>>]]
  <1>2. IsStep(by, n, X)
    BY <1>1 DEF IsStep, IsReader
  <1>3. \A x \in X, k \in 1 .. n : by[<<x, k>>] = step[<<x, s[k]>>]
    OBVIOUS
  <1> HIDE DEF by
  <1>4. PICK f : Follows(f, n, X, base, by)
    BY <1>2, Recursion
  <1>5. f \in [0 .. n -> X] /\ f[0] = base /\ \A k \in 1 .. n : f[k] = step[<<f[k - 1], s[k]>>]
    <2>1. f \in [0 .. n -> X] /\ f[0] = base /\ \A k \in 1 .. n : f[k] = by[<<f[k - 1], k>>]
      BY <1>4 DEF Follows
    <2>2. \A k \in 1 .. n : f[k - 1] \in X
      BY <2>1
    <2> QED BY <1>3, <2>1, <2>2
  <1>6. Reads(f, s, base, step)
    BY <1>1, <1>5 DEF Reads
  <1> QED BY <1>1, <1>5, <1>6

\* It starts at the base and takes one element at a time.
LEMMA ReaderAt ==
  ASSUME NEW s, NEW n \in Nat, Len(s) = n, NEW base, NEW step, NEW f, Reads(f, s, base, step)
  PROVE  f[0] = base /\ \A k \in 1 .. n : f[k] = step[<<f[k - 1], s[k]>>]
  <1>1. f = [k \in 0 .. n |-> IF k = 0 THEN base ELSE step[<<f[k - 1], s[k]>>]]
    BY DEF Reads
  <1>2. \A k \in 0 .. n : f[k] = IF k = 0 THEN base ELSE step[<<f[k - 1], s[k]>>]
    BY <1>1, Zenon
  <1>3. 0 \in 0 .. n /\ \A k \in 1 .. n : k \in 0 .. n /\ k # 0
    OBVIOUS
  <1> QED BY <1>2, <1>3, Zenon

\* One more element is one more step.
LEMMA ReaderGoesOn ==
  ASSUME NEW C, NEW s \in Seq(C), NEW c \in C, NEW base, NEW step,
         NEW f, Reads(f, s, base, step), NEW g, Reads(g, Append(s, c), base, step)
  PROVE  g[Len(s) + 1] = step[<<f[Len(s)], c>>]
  <1>1. PICK n \in Nat : n = Len(s)
    BY LenProperties
  <1> DEFINE t == Append(s, c)
  <1>2. Len(t) = n + 1 /\ t[n + 1] = c /\ \A k \in 1 .. n : t[k] = s[k]
    BY <1>1, AppendProperties
  <1>a. f[0] = base /\ \A k \in 1 .. n : f[k] = step[<<f[k - 1], s[k]>>]
    BY <1>1, ReaderAt
  <1>b. g[0] = base /\ \A k \in 1 .. n + 1 : g[k] = step[<<g[k - 1], t[k]>>]
    <2> HIDE DEF t
    <2>1. Reads(g, t, base, step)
      BY DEF t
    <2> QED BY <1>1, <1>2, <2>1, ReaderAt
  <1> HIDE DEF t
  <1> DEFINE S == {k \in 0 .. n : g[k] = f[k]}
  <1>3. 0 \in S
    BY <1>a, <1>b
  <1>4. \A k \in 1 .. n : k - 1 \in S => k \in S
    <2> SUFFICES ASSUME NEW k \in 1 .. n, k - 1 \in S PROVE k \in S
      OBVIOUS
    <2>1. k \in 1 .. n + 1 /\ k \in 0 .. n /\ g[k - 1] = f[k - 1] /\ t[k] = s[k]
      BY <1>2
    <2>2. g[k] = f[k]
      BY <1>a, <1>b, <2>1
    <2> QED BY <2>1, <2>2
  <1> HIDE DEF S
  <1>5. \A k \in 0 .. n : k \in S
    BY <1>3, <1>4, Induct
  <1>6. g[n] = f[n]
    BY <1>5 DEF S
  <1>7. g[n + 1] = step[<<g[n], t[n + 1]>>]
    <2>1. n + 1 \in 1 .. n + 1 /\ (n + 1) - 1 = n
      OBVIOUS
    <2> QED BY <1>b, <2>1
  <1> QED BY <1>1, <1>2, <1>6, <1>7

\* Two ways to say what f computes are the same on what it computes.
LEMMA ReaderIsUnique ==
  ASSUME NEW n \in Nat, NEW f, NEW g, f[0] = g[0],
         \A k \in 1 .. n : f[k - 1] = g[k - 1] => f[k] = g[k]
  PROVE  f[n] = g[n]
  <1> DEFINE S == {k \in 0 .. n : g[k] = f[k]}
  <1>1. 0 \in S /\ \A k \in 1 .. n : k - 1 \in S => k \in S
    OBVIOUS
  <1> HIDE DEF S
  <1>2. \A k \in 0 .. n : k \in S
    BY <1>1, Induct
  <1> QED BY <1>2 DEF S

Result(s, base, step) == (CHOOSE f : Reads(f, s, base, step))[Len(s)]

\* So the result can be computed an element at a time from the left.
LEMMA ResultFacts ==
  ASSUME NEW C, NEW X, NEW base \in X, NEW step, IsReader(step, X, C)
  PROVE  /\ Result(<< >>, base, step) = base
         /\ \A s \in Seq(C), c \in C :
              Result(Append(s, c), base, step) = step[<<Result(s, base, step), c>>]
         /\ \A s \in Seq(C) : Result(s, base, step) \in X
         /\ \A s \in Seq(C) : \A f : Reads(f, s, base, step) => f[Len(s)] = Result(s, base, step)
  <1>1. ASSUME NEW s \in Seq(C)
        PROVE  \E f : Reads(f, s, base, step) /\ f[Len(s)] = Result(s, base, step)
    BY ReaderExists DEF Result
  <1>2. Result(<< >>, base, step) = base
    <2>1. << >> \in Seq(C) /\ Len(<< >>) = 0
      BY EmptySeq
    <2>2. PICK f : Reads(f, << >>, base, step) /\ f[0] = Result(<< >>, base, step)
      BY <1>1, <2>1
    <2>3. f[0] = base
      BY <2>1, <2>2 DEF Reads
    <2> QED BY <2>2, <2>3
  <1>3. ASSUME NEW s \in Seq(C), NEW c \in C
        PROVE  Result(Append(s, c), base, step) = step[<<Result(s, base, step), c>>]
    <2>1. PICK f : Reads(f, s, base, step) /\ f[Len(s)] = Result(s, base, step)
      BY <1>1
    <2>2. Append(s, c) \in Seq(C) /\ Len(Append(s, c)) = Len(s) + 1
      BY AppendProperties
    <2>3. PICK g : Reads(g, Append(s, c), base, step) /\ g[Len(s) + 1] = Result(Append(s, c), base, step)
      BY <1>1, <2>2
    <2>4. g[Len(s) + 1] = step[<<f[Len(s)], c>>]
      BY <2>1, <2>3, ReaderGoesOn, ZenonT(60)
    <2> QED BY <2>1, <2>3, <2>4
  <1>4. ASSUME NEW s \in Seq(C), NEW f, Reads(f, s, base, step)
        PROVE  f[Len(s)] = Result(s, base, step)
    <2>1. PICK g : Reads(g, s, base, step) /\ g[Len(s)] = Result(s, base, step)
      BY <1>1
    <2>2. PICK n \in Nat : n = Len(s)
      BY LenProperties
    <2>3. f[0] = g[0] /\ \A k \in 1 .. n : f[k - 1] = g[k - 1] => f[k] = g[k]
      BY <1>4, <2>1, <2>2 DEF Reads
    <2> QED BY <2>1, <2>2, <2>3, ReaderIsUnique
  <1>5. ASSUME NEW s \in Seq(C) PROVE Result(s, base, step) \in X
    <2>1. PICK n \in Nat : n = Len(s)
      BY LenProperties
    <2>2. PICK f \in [0 .. n -> X] : Reads(f, s, base, step)
      BY <2>1, ReaderExists
    <2>3. f[n] \in X
      OBVIOUS
    <2> QED BY <1>4, <2>1, <2>2, <2>3
  <1> QED BY <1>2, <1>3, <1>4, <1>5

-----------------------------------------------------------------------------
(***************************************************************************)
(* Options: the configuration they make.                                   *)
(***************************************************************************)
Config ==
  [lockTimeout : Int, lockTimeoutSet : BOOLEAN, lockID : Int,
   table : [schema : Seq(String), name : Seq(String)], run : SUBSET RunFlags]

\* An option sets one thing.
LEMMA OptionCases ==
  ASSUME NEW o \in Option
  PROVE  \/ DOMAIN o = {"lockTimeout"} /\ o["lockTimeout"] \in Int
         \/ DOMAIN o = {"lockID"} /\ o["lockID"] \in Int
         \/ DOMAIN o = {"table"} /\ o["table"] \in Seq(String)
         \/ DOMAIN o = {"schema"} /\ o["schema"] \in Seq(String)
         \/ \E f \in RunFlags : DOMAIN o = {f}
  BY DEF Option, RunFlags

\* ApplyOption replaces what the option sets and nothing else.
LEMMA ApplyIs ==
  ASSUME NEW c \in Config, NEW o \in Option
  PROVE  /\ ApplyOption(c, o) \in Config
         /\ ApplyOption(c, o).lockTimeout = IF Sets(o, "lockTimeout") THEN o["lockTimeout"] ELSE c.lockTimeout
         /\ ApplyOption(c, o).lockTimeoutSet = (Sets(o, "lockTimeout") \/ c.lockTimeoutSet)
         /\ ApplyOption(c, o).lockID = IF Sets(o, "lockID") THEN o["lockID"] ELSE c.lockID
         /\ ApplyOption(c, o).table.name = IF Sets(o, "table") THEN o["table"] ELSE c.table.name
         /\ ApplyOption(c, o).table.schema = IF Sets(o, "schema") THEN o["schema"] ELSE c.table.schema
         /\ ApplyOption(c, o).run = c.run \cup {f \in RunFlags : Sets(o, f)}
  <1> DEFINE d == ApplyOption(c, o)
             Right == /\ d \in Config
                      /\ d.lockTimeout = IF Sets(o, "lockTimeout") THEN o["lockTimeout"] ELSE c.lockTimeout
                      /\ d.lockTimeoutSet = (Sets(o, "lockTimeout") \/ c.lockTimeoutSet)
                      /\ d.lockID = IF Sets(o, "lockID") THEN o["lockID"] ELSE c.lockID
                      /\ d.table.name = IF Sets(o, "table") THEN o["table"] ELSE c.table.name
                      /\ d.table.schema = IF Sets(o, "schema") THEN o["schema"] ELSE c.table.schema
                      /\ d.run = c.run \cup {f \in RunFlags : Sets(o, f)}
  <1> SUFFICES Right
    OBVIOUS
  <1>1. CASE DOMAIN o = {"lockTimeout"} /\ o["lockTimeout"] \in Int
    <2>1. d = [c EXCEPT !.lockTimeout = o["lockTimeout"], !.lockTimeoutSet = TRUE]
      BY <1>1 DEF ApplyOption, Sets
    <2> HIDE DEF d
    <2> QED BY <1>1, <2>1 DEF Config, Sets, RunFlags
  <1>2. CASE DOMAIN o = {"lockID"} /\ o["lockID"] \in Int
    <2>1. d = [c EXCEPT !.lockID = o["lockID"]]
      BY <1>2 DEF ApplyOption, Sets
    <2> HIDE DEF d
    <2> QED BY <1>2, <2>1 DEF Config, Sets, RunFlags
  <1>3. CASE DOMAIN o = {"table"} /\ o["table"] \in Seq(String)
    <2>1. d = [c EXCEPT !.table.name = o["table"]]
      BY <1>3 DEF ApplyOption, Sets
    <2> HIDE DEF d
    <2> QED BY <1>3, <2>1 DEF Config, Sets, RunFlags
  <1>4. CASE DOMAIN o = {"schema"} /\ o["schema"] \in Seq(String)
    <2>1. d = [c EXCEPT !.table.schema = o["schema"]]
      BY <1>4 DEF ApplyOption, Sets
    <2> HIDE DEF d
    <2> QED BY <1>4, <2>1 DEF Config, Sets, RunFlags
  <1>5. CASE \E f \in RunFlags : DOMAIN o = {f}
    <2>1. d = [c EXCEPT !.run = @ \cup DOMAIN o]
      BY <1>5 DEF ApplyOption, Sets, RunFlags
    <2> HIDE DEF d
    <2> QED BY <1>5, <2>1 DEF Config, Sets, RunFlags
  <1> QED BY <1>1, <1>2, <1>3, <1>4, <1>5, OptionCases

\* ApplyOption makes a configuration of a configuration.
LEMMA ApplyType ==
  ASSUME NEW c \in Config, NEW o \in Option
  PROVE  ApplyOption(c, o) \in Config
  BY ApplyIs

\* The configuration without options is one.
LEMMA UnconfiguredType == Unconfigured \in Config
  BY EmptySeq DEF Unconfigured, Config

OptionReader == [p \in Config \X Option |-> ApplyOption(p[1], p[2])]

\* Options reads the options from the left.
LEMMA OptionsIsResult ==
  ASSUME NEW s \in Seq(Option)
  PROVE  Options(s) = Result(s, Unconfigured, OptionReader)
  <1>1. IsReader(OptionReader, Config, Option)
    BY ApplyType DEF IsReader, OptionReader
  <1>2. PICK n \in Nat : n = Len(s) /\ \A k \in 1 .. n : s[k] \in Option
    BY LenProperties, ElementOfSeq
  <1>3. PICK f \in [0 .. n -> Config] : Reads(f, s, Unconfigured, OptionReader)
    BY <1>1, <1>2, UnconfiguredType, ReaderExists
  <1>4. f[0] = Unconfigured /\ \A k \in 1 .. n : f[k] = ApplyOption(f[k - 1], s[k])
    <2>1. f[0] = Unconfigured /\ \A k \in 1 .. n : f[k] = OptionReader[<<f[k - 1], s[k]>>]
      BY <1>2, <1>3, ReaderAt
    <2> QED BY <1>2, <2>1 DEF OptionReader
  <1> DEFINE Is(g) == g = [k \in 0 .. Len(s) |-> IF k = 0 THEN Unconfigured ELSE ApplyOption(g[k - 1], s[k])]
             h == CHOOSE g : Is(g)
  <1>5. Is(f)
    BY <1>2, <1>3, <1>4
  <1>6. Is(h)
    BY <1>5
  <1>7. Options(s) = h[n]
    BY <1>2 DEF Options
  <1>8. h[0] = f[0] /\ \A k \in 1 .. n : h[k - 1] = f[k - 1] => h[k] = f[k]
    <2> HIDE DEF h
    <2> QED BY <1>2, <1>4, <1>6
  <1>9. h[n] = f[n]
    <2> HIDE DEF h
    <2> QED BY <1>8, ReaderIsUnique
  <1>10. f[n] = Result(s, Unconfigured, OptionReader)
    BY <1>1, <1>2, <1>3, UnconfiguredType, ResultFacts
  <1> QED BY <1>7, <1>9, <1>10

\* One more option is applied to what the others have made.
LEMMA OptionsGo ==
  /\ Options(<< >>) = Unconfigured
  /\ \A s \in Seq(Option), o \in Option : Options(Append(s, o)) = ApplyOption(Options(s), o)
  /\ \A s \in Seq(Option) : Options(s) \in Config
  <1>1. IsReader(OptionReader, Config, Option)
    BY ApplyType DEF IsReader, OptionReader
  <1> DEFINE R(s) == Result(s, Unconfigured, OptionReader)
  <1>2. /\ R(<< >>) = Unconfigured
        /\ \A s \in Seq(Option), o \in Option : R(Append(s, o)) = OptionReader[<<R(s), o>>]
        /\ \A s \in Seq(Option) : R(s) \in Config
    BY <1>1, UnconfiguredType, ResultFacts
  <1> HIDE DEF R
  <1>3. << >> \in Seq(Option) /\ \A s \in Seq(Option), o \in Option : Append(s, o) \in Seq(Option)
    BY EmptySeq, AppendProperties
  <1>4. \A c \in Config, o \in Option : OptionReader[<<c, o>>] = ApplyOption(c, o)
    BY DEF OptionReader
  <1>5. \A s \in Seq(Option) : Options(s) = R(s)
    BY OptionsIsResult DEF R
  <1>6. ASSUME NEW s \in Seq(Option), NEW o \in Option
        PROVE  Options(Append(s, o)) = ApplyOption(Options(s), o)
    <2>1. Options(Append(s, o)) = R(Append(s, o)) /\ Options(s) = R(s) /\ R(s) \in Config
      BY <1>2, <1>3, <1>5
    <2>2. R(Append(s, o)) = OptionReader[<<R(s), o>>]
      BY <1>2
    <2> QED BY <1>4, <2>1, <2>2
  <1> QED BY <1>2, <1>3, <1>5, <1>6

-----------------------------------------------------------------------------
(***************************************************************************)
(* The last of two options of a kind wins.                                 *)
(***************************************************************************)
\* Has(s, w): an option in s sets w.  LastIn(s, w): what the last of them sets it to.
Setting(s, w) == {k \in DOMAIN s : Sets(s[k], w)}
Has(s, w) == \E k \in DOMAIN s : Sets(s[k], w)
LastIn(s, w) == s[CHOOSE k \in Setting(s, w) : \A j \in Setting(s, w) : j <= k][w]
Latest(s, w, k) == k \in Setting(s, w) /\ \A j \in Setting(s, w) : j <= k

\* LastIn is what the latest option of a kind sets.
LEMMA LatestIs ==
  ASSUME NEW s \in Seq(Option), NEW w, NEW k, Latest(s, w, k)
  PROVE  LastIn(s, w) = s[k][w]
  <1>1. DOMAIN s \in SUBSET Nat
    BY LenProperties
  <1>2. \A j : Latest(s, w, j) => j = k
    BY <1>1 DEF Latest, Setting
  <1> DEFINE m == CHOOSE j \in Setting(s, w) : \A i \in Setting(s, w) : i <= j
  <1>3. Latest(s, w, m)
    BY DEF Latest
  <1> HIDE DEF m
  <1>4. m = k
    BY <1>2, <1>3
  <1> QED BY <1>4 DEF LastIn, m

\* One more option adds its own place, if it is of the kind.
LEMMA SettingAppend ==
  ASSUME NEW s \in Seq(Option), NEW o \in Option, NEW w
  PROVE  Setting(Append(s, o), w) = Setting(s, w) \cup (IF Sets(o, w) THEN {Len(s) + 1} ELSE {})
  <1>1. PICK n \in Nat : n = Len(s) /\ DOMAIN s = 1 .. n
    BY LenProperties
  <1>2. PICK t \in Seq(Option) : t = Append(s, o)
    BY AppendProperties
  <1>3. DOMAIN t = 1 .. n + 1 /\ t[n + 1] = o /\ \A k \in 1 .. n : t[k] = s[k]
    <2>1. Len(t) = n + 1 /\ t[n + 1] = o /\ \A k \in 1 .. n : t[k] = s[k]
      BY <1>1, <1>2, AppendProperties
    <2> QED BY <2>1, LenProperties
  <1>4. ASSUME NEW k PROVE k \in Setting(t, w) <=> k \in Setting(s, w) \cup (IF Sets(o, w) THEN {n + 1} ELSE {})
    <2>1. CASE k \in 1 .. n
      BY <1>1, <1>3, <2>1 DEF Setting
    <2>2. CASE k = n + 1
      BY <1>1, <1>3, <2>2 DEF Setting
    <2>3. CASE k \notin 1 .. n + 1
      BY <1>1, <1>3, <2>3 DEF Setting
    <2> QED BY <1>1, <2>1, <2>2, <2>3
  <1> QED BY <1>1, <1>2, <1>4

\* Of the options of a kind one is the latest.
LEMMA HasLatest ==
  ASSUME NEW s \in Seq(Option), NEW w
  PROVE  Has(s, w) => \E k \in DOMAIN s : Latest(s, w, k)
  <1> DEFINE S == {t \in Seq(Option) : Has(t, w) => \E k \in DOMAIN t : Latest(t, w, k)}
  <1>1. << >> \in S
    BY EmptySeq DEF Has
  <1>2. ASSUME NEW t \in Seq(Option), NEW o \in Option, t \in S PROVE Append(t, o) \in S
    <2> DEFINE u == Append(t, o)
    <2>1. PICK n \in Nat : n = Len(t) /\ DOMAIN t = 1 .. n
      BY LenProperties
    <2>2. u \in Seq(Option) /\ DOMAIN u = 1 .. n + 1
      <3>1. u \in Seq(Option) /\ Len(u) = n + 1
        BY <2>1, AppendProperties
      <3> QED BY <3>1, LenProperties
    <2>3. Setting(u, w) = Setting(t, w) \cup (IF Sets(o, w) THEN {n + 1} ELSE {})
      BY <2>1, SettingAppend
    <2>4. Setting(t, w) \subseteq 1 .. n
      BY <2>1 DEF Setting
    <2> HIDE DEF u
    <2>5. CASE Sets(o, w)
      <3>1. Latest(u, w, n + 1)
        BY <2>3, <2>4, <2>5 DEF Latest
      <3>2. n + 1 \in DOMAIN u
        BY <2>2
      <3> QED BY <2>2, <3>1, <3>2 DEF u
    <2>6. CASE ~Sets(o, w)
      <3>1. Setting(u, w) = Setting(t, w)
        BY <2>3, <2>6
      <3> SUFFICES ASSUME Has(u, w) PROVE \E k \in DOMAIN u : Latest(u, w, k)
        BY <2>2 DEF u
      <3>2. Has(t, w)
        BY <3>1 DEF Has, Setting
      <3>3. PICK k \in DOMAIN t : Latest(t, w, k)
        BY <1>2, <3>2
      <3>4. k \in DOMAIN u
        BY <2>1, <2>2
      <3> QED BY <3>1, <3>3, <3>4 DEF Latest
    <2> QED BY <2>5, <2>6
  <1> HIDE DEF S
  <1>3. Seq(Option) \subseteq S
    BY <1>1, <1>2, SeqInduct
  <1> QED BY <1>3 DEF S

\* One more option is the latest of its kind and of no other.
LEMMA LastAppend ==
  ASSUME NEW s \in Seq(Option), NEW o \in Option, NEW w
  PROVE  /\ Has(Append(s, o), w) <=> Sets(o, w) \/ Has(s, w)
         /\ Sets(o, w) => LastIn(Append(s, o), w) = o[w]
         /\ ~Sets(o, w) /\ Has(s, w) => LastIn(Append(s, o), w) = LastIn(s, w)
  <1> DEFINE u == Append(s, o)
  <1>1. PICK n \in Nat : n = Len(s) /\ DOMAIN s = 1 .. n
    BY LenProperties
  <1>2. u \in Seq(Option) /\ DOMAIN u = 1 .. n + 1 /\ u[n + 1] = o /\ \A k \in 1 .. n : u[k] = s[k]
    <2>1. u \in Seq(Option) /\ Len(u) = n + 1 /\ u[n + 1] = o /\ \A k \in 1 .. n : u[k] = s[k]
      BY <1>1, AppendProperties
    <2> QED BY <2>1, LenProperties
  <1>3. Setting(u, w) = Setting(s, w) \cup (IF Sets(o, w) THEN {n + 1} ELSE {})
    BY <1>1, SettingAppend
  <1>4. Setting(s, w) \subseteq 1 .. n
    BY <1>1 DEF Setting
  <1> HIDE DEF u
  <1>5. Has(u, w) <=> Sets(o, w) \/ Has(s, w)
    BY <1>3 DEF Has, Setting
  <1>6. ASSUME Sets(o, w) PROVE LastIn(u, w) = o[w]
    <2>1. Latest(u, w, n + 1)
      BY <1>3, <1>4, <1>6 DEF Latest
    <2> QED BY <1>2, <2>1, LatestIs
  <1>7. ASSUME ~Sets(o, w), Has(s, w) PROVE LastIn(u, w) = LastIn(s, w)
    <2>1. PICK k \in 1 .. n : Latest(s, w, k)
      BY <1>1, <1>7, HasLatest
    <2>2. Latest(u, w, k)
      BY <1>3, <1>7, <2>1 DEF Latest
    <2>3. LastIn(u, w) = u[k][w] /\ LastIn(s, w) = s[k][w]
      BY <1>2, <2>1, <2>2, LatestIs
    <2> QED BY <1>2, <2>1, <2>3
  <1> QED BY <1>5, <1>6, <1>7 DEF u

\* What the options of a library call come to.
Said(s, w, otherwise) == IF Has(s, w) THEN LastIn(s, w) ELSE otherwise

\* The configuration has of every kind what the last option of that kind says.
LEMMA OptionsSay ==
  ASSUME NEW s \in Seq(Option)
  PROVE  /\ Options(s).lockTimeout = Said(s, "lockTimeout", 0)
         /\ Options(s).lockTimeoutSet <=> Has(s, "lockTimeout")
         /\ Options(s).lockID = Said(s, "lockID", 0)
         /\ Options(s).table.name = Said(s, "table", << >>)
         /\ Options(s).table.schema = Said(s, "schema", << >>)
         /\ Options(s).run = {f \in RunFlags : Has(s, f)}
  <1> DEFINE P(t) == /\ Options(t).lockTimeout = Said(t, "lockTimeout", 0)
                     /\ Options(t).lockTimeoutSet <=> Has(t, "lockTimeout")
                     /\ Options(t).lockID = Said(t, "lockID", 0)
                     /\ Options(t).table.name = Said(t, "table", << >>)
                     /\ Options(t).table.schema = Said(t, "schema", << >>)
                     /\ Options(t).run = {f \in RunFlags : Has(t, f)}
             S == {t \in Seq(Option) : P(t)}
  <1>1. << >> \in S
    <2>1. \A w : ~Has(<< >>, w)
      BY DEF Has
    <2>2. \A w, x : Said(<< >>, w, x) = x
      BY <2>1 DEF Said
    <2>3. {f \in RunFlags : Has(<< >>, f)} = {}
      BY <2>1
    <2>4. P(<< >>)
      BY <2>1, <2>2, <2>3, OptionsGo DEF Unconfigured
    <2> QED BY <2>4, EmptySeq
  <1>2. ASSUME NEW t \in Seq(Option), NEW o \in Option, t \in S PROVE Append(t, o) \in S
    <2> DEFINE u == Append(t, o)
               d == Options(u)
               c == Options(t)
    <2>1. u \in Seq(Option)
      BY AppendProperties
    <2>2. d = ApplyOption(c, o) /\ c \in Config
      BY OptionsGo
    <2>3. /\ d.lockTimeout = IF Sets(o, "lockTimeout") THEN o["lockTimeout"] ELSE c.lockTimeout
          /\ d.lockTimeoutSet = (Sets(o, "lockTimeout") \/ c.lockTimeoutSet)
          /\ d.lockID = IF Sets(o, "lockID") THEN o["lockID"] ELSE c.lockID
          /\ d.table.name = IF Sets(o, "table") THEN o["table"] ELSE c.table.name
          /\ d.table.schema = IF Sets(o, "schema") THEN o["schema"] ELSE c.table.schema
          /\ d.run = c.run \cup {f \in RunFlags : Sets(o, f)}
      BY <2>2, ApplyIs
    <2>4. /\ c.lockTimeout = Said(t, "lockTimeout", 0)
          /\ c.lockTimeoutSet <=> Has(t, "lockTimeout")
          /\ c.lockID = Said(t, "lockID", 0)
          /\ c.table.name = Said(t, "table", << >>)
          /\ c.table.schema = Said(t, "schema", << >>)
          /\ c.run = {f \in RunFlags : Has(t, f)}
      BY <1>2
    <2>5. \A w : Has(u, w) <=> Sets(o, w) \/ Has(t, w)
      BY LastAppend
    <2>6. \A w, x : Said(u, w, x) = IF Sets(o, w) THEN o[w] ELSE Said(t, w, x)
      BY LastAppend DEF Said
    <2> HIDE DEF u, d, c
    <2>7. d.run = {f \in RunFlags : Has(u, f)}
      BY <2>3, <2>4, <2>5
    <2>8. d.lockTimeoutSet <=> Has(u, "lockTimeout")
      BY <2>3, <2>4, <2>5
    <2>9. /\ d.lockTimeout = Said(u, "lockTimeout", 0)
          /\ d.lockID = Said(u, "lockID", 0)
      BY <2>3, <2>4, <2>6
    <2>10. /\ d.table.name = Said(u, "table", << >>)
           /\ d.table.schema = Said(u, "schema", << >>)
      BY <2>3, <2>4, <2>6
    <2> QED BY <2>1, <2>7, <2>8, <2>9, <2>10 DEF d, u
  <1> HIDE DEF S
  <1>3. Seq(Option) \subseteq S
    BY <1>1, <1>2, SeqInduct
  <1> QED BY <1>3 DEF S

-----------------------------------------------------------------------------
(***************************************************************************)
(* The options the command builds.                                         *)
(***************************************************************************)
\* What buildOptions makes with With is an option of one kind.
LEMMA WithIs ==
  /\ \A n \in Int : With("lockTimeout", n) \in Option
  /\ \A n \in Int : With("lockID", n) \in Option
  /\ \A t \in Seq(String) : With("table", t) \in Option
  /\ \A t \in Seq(String) : With("schema", t) \in Option
  /\ With("rollback", TRUE) \in Option
  /\ With("interleaved", TRUE) \in Option
  /\ \A w, x : DOMAIN With(w, x) = {w} /\ With(w, x)[w] = x
  BY DEF With, Option

Given(yes, o) == IF yes THEN <<o>> ELSE << >>

\* An optional option is applied, or nothing happens.
LEMMA GivenIs ==
  ASSUME NEW s \in Seq(Option), NEW yes \in BOOLEAN, NEW o, o \in Option
  PROVE  /\ s \o Given(yes, o) \in Seq(Option)
         /\ Options(s \o Given(yes, o)) = IF yes THEN ApplyOption(Options(s), o) ELSE Options(s)
         /\ Options(s) \in Config
  <1>1. CASE yes
    <2>1. s \o Given(yes, o) = Append(s, o)
      BY <1>1, AppendIsConcat DEF Given
    <2>2. Append(s, o) \in Seq(Option)
      BY AppendProperties
    <2>3. Options(Append(s, o)) = ApplyOption(Options(s), o) /\ Options(s) \in Config
      BY OptionsGo, Zenon
    <2> HIDE DEF Given
    <2> QED BY <1>1, <2>1, <2>2, <2>3
  <1>2. CASE ~yes
    <2>1. s \o Given(yes, o) = s
      BY <1>2, ConcatEmptySeq DEF Given
    <2> QED BY <1>2, <2>1, OptionsGo
  <1> QED BY <1>1, <1>2

\* The options the command builds, and what they come to.
CliOptions(i, wait) ==
  <<With("lockTimeout", wait)>>
    \o Given(i.flags.lockID # 0, With("lockID", i.flags.lockID))
    \o Given(i.flags.table # << >>, With("table", i.flags.table))
    \o Given(i.flags.schema # << >>, With("schema", i.flags.schema))
    \o Given(i.cmd = "reconcile" /\ "rollback" \in i.flags.allow, With("rollback", TRUE))
    \o Given(i.cmd = "reconcile" /\ "interleaved" \in i.flags.allow, With("interleaved", TRUE))

Configured(c, wait, id, name, schema, run) ==
  /\ c \in Config
  /\ c.lockTimeout = wait /\ c.lockTimeoutSet
  /\ c.lockID = id
  /\ c.table.name = name /\ c.table.schema = schema
  /\ c.run = run

\* An option changes the one field it names.
LEMMA ConfiguredFurther ==
  ASSUME NEW c, NEW wait, NEW id, NEW name, NEW schema, NEW run, NEW o \in Option,
         Configured(c, wait, id, name, schema, run)
  PROVE  /\ DOMAIN o = {"lockID"} => Configured(ApplyOption(c, o), wait, o["lockID"], name, schema, run)
         /\ DOMAIN o = {"table"} => Configured(ApplyOption(c, o), wait, id, o["table"], schema, run)
         /\ DOMAIN o = {"schema"} => Configured(ApplyOption(c, o), wait, id, name, o["schema"], run)
         /\ \A f \in RunFlags : DOMAIN o = {f} =>
              Configured(ApplyOption(c, o), wait, id, name, schema, run \cup {f})
  <1>1. c \in Config
    BY DEF Configured
  <1>2. PICK d : d = ApplyOption(c, o)
    OBVIOUS
  <1>3. /\ d \in Config
        /\ d.lockTimeout = IF Sets(o, "lockTimeout") THEN o["lockTimeout"] ELSE c.lockTimeout
        /\ d.lockTimeoutSet = (Sets(o, "lockTimeout") \/ c.lockTimeoutSet)
        /\ d.lockID = IF Sets(o, "lockID") THEN o["lockID"] ELSE c.lockID
        /\ d.table.name = IF Sets(o, "table") THEN o["table"] ELSE c.table.name
        /\ d.table.schema = IF Sets(o, "schema") THEN o["schema"] ELSE c.table.schema
        /\ d.run = c.run \cup {f \in RunFlags : Sets(o, f)}
    BY <1>1, <1>2, ApplyIs
  <1>4. ASSUME DOMAIN o = {"lockID"} PROVE Configured(d, wait, o["lockID"], name, schema, run)
    <2>1. {f \in RunFlags : Sets(o, f)} = {}
      BY <1>4 DEF Sets, RunFlags
    <2> QED BY <1>3, <1>4, <2>1 DEF Sets, Configured
  <1>5. ASSUME DOMAIN o = {"table"} PROVE Configured(d, wait, id, o["table"], schema, run)
    <2>1. {f \in RunFlags : Sets(o, f)} = {}
      BY <1>5 DEF Sets, RunFlags
    <2> QED BY <1>3, <1>5, <2>1 DEF Sets, Configured
  <1>6. ASSUME DOMAIN o = {"schema"} PROVE Configured(d, wait, id, name, o["schema"], run)
    <2>1. {f \in RunFlags : Sets(o, f)} = {}
      BY <1>6 DEF Sets, RunFlags
    <2> QED BY <1>3, <1>6, <2>1 DEF Sets, Configured
  <1>7. ASSUME NEW f \in RunFlags, DOMAIN o = {f}
        PROVE  Configured(d, wait, id, name, schema, run \cup {f})
    <2>1. {g \in RunFlags : Sets(o, g)} = {f}
      BY <1>7 DEF Sets
    <2> QED BY <1>3, <1>7, <2>1 DEF Sets, Configured, RunFlags
  <1> QED BY <1>2, <1>4, <1>5, <1>6, <1>7

CliRun(i) == {f \in {"rollback", "interleaved"} : i.cmd = "reconcile" /\ f \in i.flags.allow}

\* The options the command builds configure what its flags say.
LEMMA CliOptionsSay ==
  ASSUME NEW i, i.flags \in Flags, NEW wait \in Int
  PROVE  /\ CliOptions(i, wait) \in Seq(Option)
         /\ Configured(Options(CliOptions(i, wait)), wait, i.flags.lockID, i.flags.table, i.flags.schema, CliRun(i))
  <1> DEFINE o1 == With("lockTimeout", wait)
             o2 == With("lockID", i.flags.lockID)
             o3 == With("table", i.flags.table)
             o4 == With("schema", i.flags.schema)
             o5 == With("rollback", TRUE)
             o6 == With("interleaved", TRUE)
             y2 == i.flags.lockID # 0
             y3 == i.flags.table # << >>
             y4 == i.flags.schema # << >>
             y5 == i.cmd = "reconcile" /\ "rollback" \in i.flags.allow
             y6 == i.cmd = "reconcile" /\ "interleaved" \in i.flags.allow
             s1 == <<o1>>
             s2 == s1 \o Given(y2, o2)
             s3 == s2 \o Given(y3, o3)
             s4 == s3 \o Given(y4, o4)
             s5 == s4 \o Given(y5, o5)
             s6 == s5 \o Given(y6, o6)
             id == i.flags.lockID
             name == i.flags.table
             schema == i.flags.schema
  <1>1. /\ o1 \in Option /\ o2 \in Option /\ o3 \in Option /\ o4 \in Option /\ o5 \in Option /\ o6 \in Option
        /\ DOMAIN o1 = {"lockTimeout"} /\ o1["lockTimeout"] = wait
        /\ DOMAIN o2 = {"lockID"} /\ o2["lockID"] = id
        /\ DOMAIN o3 = {"table"} /\ o3["table"] = name
        /\ DOMAIN o4 = {"schema"} /\ o4["schema"] = schema
        /\ DOMAIN o5 = {"rollback"} /\ DOMAIN o6 = {"interleaved"}
    BY WithIs DEF Flags
  <1>2. CliOptions(i, wait) = s6
    BY DEF CliOptions
  <1> HIDE DEF o1, o2, o3, o4, o5, o6
  <1>3. y2 \in BOOLEAN /\ y3 \in BOOLEAN /\ y4 \in BOOLEAN /\ y5 \in BOOLEAN /\ y6 \in BOOLEAN
    OBVIOUS
  <1>4. s1 \in Seq(Option) /\ Configured(Options(s1), wait, 0, << >>, << >>, {})
    <2>1. << >> \in Seq(Option) /\ s1 = Append(<< >>, o1)
      BY <1>1, EmptySeq
    <2>2. PICK d : d = ApplyOption(Unconfigured, o1)
      OBVIOUS
    <2>3. Options(s1) = d /\ s1 \in Seq(Option)
      <3>1. Append(<< >>, o1) \in Seq(Option)
        BY <1>1, <2>1, AppendProperties
      <3>2. Options(Append(<< >>, o1)) = ApplyOption(Options(<< >>), o1) /\ Options(<< >>) = Unconfigured
        BY <1>1, <2>1, OptionsGo, Zenon
      <3> HIDE DEF s1
      <3> QED BY <2>1, <2>2, <3>1, <3>2
    <2>4. /\ d \in Config
          /\ d.lockTimeout = IF Sets(o1, "lockTimeout") THEN o1["lockTimeout"] ELSE Unconfigured.lockTimeout
          /\ d.lockTimeoutSet = (Sets(o1, "lockTimeout") \/ Unconfigured.lockTimeoutSet)
          /\ d.lockID = IF Sets(o1, "lockID") THEN o1["lockID"] ELSE Unconfigured.lockID
          /\ d.table.name = IF Sets(o1, "table") THEN o1["table"] ELSE Unconfigured.table.name
          /\ d.table.schema = IF Sets(o1, "schema") THEN o1["schema"] ELSE Unconfigured.table.schema
          /\ d.run = Unconfigured.run \cup {f \in RunFlags : Sets(o1, f)}
      BY <1>1, <2>2, UnconfiguredType, ApplyIs
    <2>5. {f \in RunFlags : Sets(o1, f)} = {}
      BY <1>1 DEF Sets, RunFlags
    <2>6. Configured(d, wait, 0, << >>, << >>, {})
      BY <1>1, <2>4, <2>5 DEF Sets, Unconfigured, Configured
    <2> QED BY <2>3, <2>6
  <1> HIDE DEF y2, y3, y4, y5, y6, s1, id, name, schema
  <1>5. s2 \in Seq(Option) /\ Configured(Options(s2), wait, id, << >>, << >>, {})
    <2>1. s2 \in Seq(Option) /\ Options(s2) = IF y2 THEN ApplyOption(Options(s1), o2) ELSE Options(s1)
      BY <1>1, <1>3, <1>4, GivenIs
    <2>2. Configured(ApplyOption(Options(s1), o2), wait, id, << >>, << >>, {})
      BY <1>1, <1>4, ConfiguredFurther
    <2>3. ~y2 => id = 0
      BY DEF y2, id
    <2> QED BY <1>4, <2>1, <2>2, <2>3
  <1> HIDE DEF s2
  <1>6. s3 \in Seq(Option) /\ Configured(Options(s3), wait, id, name, << >>, {})
    <2>1. s3 \in Seq(Option) /\ Options(s3) = IF y3 THEN ApplyOption(Options(s2), o3) ELSE Options(s2)
      BY <1>1, <1>3, <1>5, GivenIs
    <2>2. Configured(ApplyOption(Options(s2), o3), wait, id, name, << >>, {})
      BY <1>1, <1>5, ConfiguredFurther
    <2>3. ~y3 => name = << >>
      BY DEF y3, name
    <2> QED BY <1>5, <2>1, <2>2, <2>3
  <1> HIDE DEF s3
  <1>7. s4 \in Seq(Option) /\ Configured(Options(s4), wait, id, name, schema, {})
    <2>1. s4 \in Seq(Option) /\ Options(s4) = IF y4 THEN ApplyOption(Options(s3), o4) ELSE Options(s3)
      BY <1>1, <1>3, <1>6, GivenIs
    <2>2. Configured(ApplyOption(Options(s3), o4), wait, id, name, schema, {})
      BY <1>1, <1>6, ConfiguredFurther
    <2>3. ~y4 => schema = << >>
      BY DEF y4, schema
    <2> QED BY <1>6, <2>1, <2>2, <2>3
  <1> HIDE DEF s4
  <1> DEFINE r5 == IF y5 THEN {} \cup {"rollback"} ELSE {}
             r6 == IF y6 THEN r5 \cup {"interleaved"} ELSE r5
  <1>8. s5 \in Seq(Option) /\ Configured(Options(s5), wait, id, name, schema, r5)
    <2>1. s5 \in Seq(Option) /\ Options(s5) = IF y5 THEN ApplyOption(Options(s4), o5) ELSE Options(s4)
      BY <1>1, <1>3, <1>7, GivenIs
    <2>2. Configured(ApplyOption(Options(s4), o5), wait, id, name, schema, {} \cup {"rollback"})
      BY <1>1, <1>7, ConfiguredFurther DEF RunFlags
    <2> QED BY <1>7, <2>1, <2>2
  <1> HIDE DEF s5, r5
  <1>9. s6 \in Seq(Option) /\ Configured(Options(s6), wait, id, name, schema, r6)
    <2>1. s6 \in Seq(Option) /\ Options(s6) = IF y6 THEN ApplyOption(Options(s5), o6) ELSE Options(s5)
      BY <1>1, <1>3, <1>8, GivenIs
    <2>2. Configured(ApplyOption(Options(s5), o6), wait, id, name, schema, r5 \cup {"interleaved"})
      BY <1>1, <1>8, ConfiguredFurther DEF RunFlags
    <2> QED BY <1>8, <2>1, <2>2
  <1>10. r6 = CliRun(i)
    BY DEF r5, y5, y6, CliRun
  <1> QED BY <1>2, <1>9, <1>10 DEF id, name, schema

-----------------------------------------------------------------------------
(***************************************************************************)
(* Invocations and their steps.                                            *)
(***************************************************************************)
\* An invocation is a command with flags and environment, or a call of the library.
LEMMA InvocationFacts ==
  ASSUME NEW i \in Invocations
  PROVE  /\ i.by \in {"cli", "library"}
         /\ i.by = "library" => /\ i.cmd \in DatabaseCommands /\ i.arg \in String /\ i.count \in Int
                                /\ i.given \in BOOLEAN /\ i.opts \in Seq(Option)
         /\ i.by = "cli" => /\ i.env \in Env /\ i.flags \in Flags
                            /\ i.cmd \in DatabaseCommands \cup {"validate", "new"}
                            /\ i.cmd = "new" => i.name \in Seq(String)
                            /\ i.cmd # "new" => i.arg \in String
  BY InvocationsAssumption DEF Commands, LibraryCalls, DatabaseCommands, SourceCommands

\* A duration that parses is a number of seconds.
LEMMA DurationFacts ==
  \A d \in DOMAIN ParseDuration : ParseDuration[d] \in Int
  BY DEF ParseDuration

\* A count that parses is a number; "all" is none.
LEMMA AtoiFacts ==
  /\ \A a \in DOMAIN Atoi : Atoi[a] \in Int
  /\ \A a \in DOMAIN Atoi : Atoi[a] > 0 => a = "2"
  /\ "all" \notin DOMAIN Atoi
  BY DEF Atoi

Precedes(s, a, b) == \A k \in 1 .. Len(s) : s[k] = b => \E j \in 1 .. k - 1 : s[j] = a

StepNames ==
  {"config", "logging", "options", "count", "path", "connect", "call", "answer", "slug", "files"}

InOrder(i, s) ==
  /\ \A j, k \in 1 .. Len(s) : s[j] = s[k] => j = k
  /\ Precedes(s, "call", "answer")
  /\ i.by = "library" => \A k \in 1 .. Len(s) : s[k] \in {"call", "answer"}
  /\ i.by = "cli" =>
       /\ \A st \in {"logging", "options", "count", "path", "connect", "call", "slug", "files"} : Precedes(s, "config", st)
       /\ \A st \in {"options", "connect", "logging"} : Precedes(s, st, "call")
       /\ i.cmd = "down" => Precedes(s, "count", "call")
       /\ i.cmd \in SourceCommands => Precedes(s, "path", "call")
  /\ \A k \in 1 .. Len(s) :
       /\ s[k] \in {"config", "logging", "options", "count", "path", "connect", "slug", "files"} => i.by = "cli"
       /\ s[k] = "count" => i.cmd = "down"
       /\ s[k] = "path" => i.cmd \in SourceCommands \cup {"new", "validate"}
       /\ s[k] = "slug" => i.cmd = "new"
       /\ s[k] = "files" => i.cmd \in {"new", "validate"}
       /\ s[k] \in {"options", "connect", "call", "answer"} => i.cmd \in DatabaseCommands

\* In the steps of every invocation each comes after those whose results it needs.
LEMMA StepsFacts ==
  ASSUME NEW i \in Invocations
  PROVE  Steps(i) \in Seq(StepNames) /\ Len(Steps(i)) \in Nat /\ InOrder(i, Steps(i))
  <1>1. CASE i.by = "library"
    <2>1. Steps(i) = <<"call", "answer">>
      BY <1>1, InvocationFacts DEF Steps, SourceCommands
    <2>2. PICK s : s = <<"call", "answer">>
      OBVIOUS
    <2>3. /\ s \in Seq(StepNames) /\ Len(s) = 2
          /\ s[1] = "call" /\ s[2] = "answer"
      BY <2>2 DEF StepNames
    <2>4. InOrder(i, s)
      BY <1>1, <2>3, InvocationFacts DEF InOrder, Precedes, SourceCommands, DatabaseCommands
    <2> QED BY <2>1, <2>2, <2>3, <2>4
  <1>2. CASE i.by = "cli" /\ i.cmd = "new"
    <2>1. Steps(i) = <<"config", "logging", "path", "slug", "files">>
      BY <1>2, InvocationFacts DEF Steps, SourceCommands
    <2>2. PICK s : s = <<"config", "logging", "path", "slug", "files">>
      OBVIOUS
    <2>3. /\ s \in Seq(StepNames) /\ Len(s) = 5
          /\ s[1] = "config" /\ s[2] = "logging" /\ s[3] = "path" /\ s[4] = "slug" /\ s[5] = "files"
      BY <2>2 DEF StepNames
    <2>4. InOrder(i, s)
      BY <1>2, <2>3, InvocationFacts DEF InOrder, Precedes, SourceCommands, DatabaseCommands
    <2> QED BY <2>1, <2>2, <2>3, <2>4
  <1>3. CASE i.by = "cli" /\ i.cmd = "validate"
    <2>1. Steps(i) = <<"config", "logging", "path", "files">>
      BY <1>3, InvocationFacts DEF Steps, SourceCommands
    <2>2. PICK s : s = <<"config", "logging", "path", "files">>
      OBVIOUS
    <2>3. /\ s \in Seq(StepNames) /\ Len(s) = 4
          /\ s[1] = "config" /\ s[2] = "logging" /\ s[3] = "path" /\ s[4] = "files"
      BY <2>2 DEF StepNames
    <2>4. InOrder(i, s)
      BY <1>3, <2>3, InvocationFacts DEF InOrder, Precedes, SourceCommands, DatabaseCommands
    <2> QED BY <2>1, <2>2, <2>3, <2>4
  <1>4. CASE i.by = "cli" /\ i.cmd = "down"
    <2>1. Steps(i) = <<"config", "logging", "options", "count", "connect", "call", "answer">>
      BY <1>4, InvocationFacts DEF Steps, SourceCommands
    <2>2. PICK s : s = <<"config", "logging", "options", "count", "connect", "call", "answer">>
      OBVIOUS
    <2>3. /\ s \in Seq(StepNames) /\ Len(s) = 7
          /\ s[1] = "config" /\ s[2] = "logging" /\ s[3] = "options" /\ s[4] = "count" /\ s[5] = "connect" /\ s[6] = "call" /\ s[7] = "answer"
      BY <2>2 DEF StepNames
    <2>4. InOrder(i, s)
      BY <1>4, <2>3, InvocationFacts DEF InOrder, Precedes, SourceCommands, DatabaseCommands
    <2> QED BY <2>1, <2>2, <2>3, <2>4
  <1>5. CASE i.by = "cli" /\ i.cmd \in SourceCommands
    <2>1. Steps(i) = <<"config", "logging", "options", "path", "connect", "call", "answer">>
      BY <1>5, InvocationFacts DEF Steps, SourceCommands
    <2>2. PICK s : s = <<"config", "logging", "options", "path", "connect", "call", "answer">>
      OBVIOUS
    <2>3. /\ s \in Seq(StepNames) /\ Len(s) = 7
          /\ s[1] = "config" /\ s[2] = "logging" /\ s[3] = "options" /\ s[4] = "path" /\ s[5] = "connect" /\ s[6] = "call" /\ s[7] = "answer"
      BY <2>2 DEF StepNames
    <2>4. InOrder(i, s)
      BY <1>5, <2>3, InvocationFacts DEF InOrder, Precedes, SourceCommands, DatabaseCommands
    <2> QED BY <2>1, <2>2, <2>3, <2>4
  <1>6. CASE i.by = "cli" /\ i.cmd \in {"status", "forget"}
    <2>1. Steps(i) = <<"config", "logging", "options", "connect", "call", "answer">>
      BY <1>6, InvocationFacts DEF Steps, SourceCommands
    <2>2. PICK s : s = <<"config", "logging", "options", "connect", "call", "answer">>
      OBVIOUS
    <2>3. /\ s \in Seq(StepNames) /\ Len(s) = 6
          /\ s[1] = "config" /\ s[2] = "logging" /\ s[3] = "options" /\ s[4] = "connect" /\ s[5] = "call" /\ s[6] = "answer"
      BY <2>2 DEF StepNames
    <2>4. InOrder(i, s)
      BY <1>6, <2>3, InvocationFacts DEF InOrder, Precedes, SourceCommands, DatabaseCommands
    <2> QED BY <2>1, <2>2, <2>3, <2>4
  <1> QED BY <1>1, <1>2, <1>3, <1>4, <1>5, <1>6, InvocationFacts DEF DatabaseCommands

-----------------------------------------------------------------------------
(***************************************************************************)
(* Texts built of pieces.                                                  *)
(***************************************************************************)
\* A sequence of one element.
LEMMA SingleFacts ==
  ASSUME NEW C, NEW c \in C
  PROVE  <<c>> \in Seq(C) /\ Len(<<c>>) = 1 /\ <<c>>[1] = c /\ << >> \in Seq(C) /\ <<c>> = Append(<< >>, c)
  OBVIOUS

\* FlattenSeq goes on by concatenation.
Joiner(C) == [p \in Seq(C) \X Seq(C) |-> p[1] \o p[2]]

\* Flattening joins the pieces from the left.
LEMMA FlattenIsResult ==
  ASSUME NEW C, NEW ss \in Seq(Seq(C))
  PROVE  FlattenSeq(ss) = Result(ss, << >>, Joiner(C))
  <1> DEFINE T == Seq(C)
             e == << >>
             j == Joiner(C)
  <1>0. e \in T
    BY EmptySeq
  <1>1. IsReader(j, T, T)
    BY ConcatProperties DEF IsReader, Joiner
  <1>a. \A x, y \in T : j[<<x, y>>] = x \o y
    BY DEF Joiner
  <1>b. ss \in Seq(T)
    OBVIOUS
  <1>c. \A x \in T : e \o x = x
    BY ConcatEmptySeq
  <1>2. PICK n \in Nat : n = Len(ss) /\ \A k \in 1 .. n : ss[k] \in T
    BY LenProperties, ElementOfSeq
  <1> HIDE DEF T, e, j
  <1>3. PICK f \in [0 .. n -> T] : Reads(f, ss, e, j)
    BY <1>0, <1>1, <1>b, <1>2, ReaderExists
  <1>4. f[0] = e /\ \A k \in 1 .. n : f[k] = f[k - 1] \o ss[k]
    <2>a. Len(ss) = n /\ Reads(f, ss, e, j)
      BY <1>2, <1>3
    <2>1. f[0] = e /\ \A k \in 1 .. n : f[k] = j[<<f[k - 1], ss[k]>>]
      BY <2>a DEF Reads
    <2>2. ASSUME NEW k \in 1 .. n PROVE f[k] = f[k - 1] \o ss[k]
      <3>1. f[k - 1] \in T /\ ss[k] \in T
        <4>1. k - 1 \in 0 .. n
          OBVIOUS
        <4>2. f[k - 1] \in T
          BY <4>1, Zenon
        <4> QED BY <1>2, <4>2, Zenon
      <3>2. f[k] = j[<<f[k - 1], ss[k]>>]
        BY <2>1
      <3> QED BY <1>a, <3>1, <3>2
    <2> QED BY <2>1, <2>2
  <1>5. f[n] = Result(ss, << >>, Joiner(C))
    <2>1. f[Len(ss)] = Result(ss, e, j)
      BY <1>0, <1>1, <1>b, <1>3, ResultFacts
    <2> QED BY <1>2, <2>1 DEF e, j
  <1>6. CASE n = 0
    <2>1. ss = << >>
      BY <1>2, <1>6, EmptySeq
    <2>2. FlattenSeq(ss) = ss
      BY <1>2, <1>6 DEF FlattenSeq
    <2>3. f[n] = << >>
      BY <1>4, <1>6 DEF e
    <2> QED BY <1>5, <2>1, <2>2, <2>3
  <1>7. CASE n # 0
    <2> DEFINE Is(g) == g = [i \in 1 .. Len(ss) |-> IF i = 1 THEN ss[i] ELSE g[i - 1] \o ss[i]]
               h == CHOOSE g : Is(g)
               f1 == [i \in 1 .. n |-> f[i]]
    <2>1. f[1] = ss[1]
      <3>1. 1 \in 1 .. n /\ 1 - 1 = 0
        BY <1>7
      <3>2. f[1] = f[0] \o ss[1] /\ ss[1] \in T
        BY <1>2, <1>4, <3>1
      <3> QED BY <1>c, <1>4, <3>2
    <2>2. Is(f1)
      <3>1. ASSUME NEW i \in 1 .. n PROVE f1[i] = IF i = 1 THEN ss[i] ELSE f1[i - 1] \o ss[i]
        <4>1. CASE i = 1
          BY <2>1, <4>1
        <4>2. CASE i # 1
          <5>1. f1[i] = f[i] /\ f1[i - 1] = f[i - 1]
            BY <4>2
          <5> QED BY <1>4, <4>2, <5>1
        <4> QED BY <4>1, <4>2
      <3> QED BY <1>2, <3>1
    <2>3. Is(h)
      BY <2>2
    <2>4. FlattenSeq(ss) = h[n]
      BY <1>2, <1>7 DEF FlattenSeq
    <2> HIDE DEF h
    <2>5. \A i \in 1 .. n : h[i] = IF i = 1 THEN ss[1] ELSE h[i - 1] \o ss[i]
      BY <1>2, <2>3
    <2> DEFINE a == [k \in 0 .. n |-> IF k = 0 THEN e ELSE h[k]]
    <2>6. a[0] = f[0] /\ \A k \in 1 .. n : a[k - 1] = f[k - 1] => a[k] = f[k]
      <3>1. a[0] = f[0]
        BY <1>4
      <3>2. ASSUME NEW k \in 1 .. n, a[k - 1] = f[k - 1] PROVE a[k] = f[k]
        <4>a. a[k] = h[k] /\ h[k] = IF k = 1 THEN ss[1] ELSE h[k - 1] \o ss[k]
          BY <2>5
        <4>1. CASE k = 1
          <5>1. a[k] = ss[1]
            BY <4>a, <4>1
          <5> QED BY <2>1, <4>1, <5>1
        <4>2. CASE k # 1
          <5>1. a[k - 1] = h[k - 1]
            BY <4>2
          <5>2. a[k] = a[k - 1] \o ss[k]
            BY <4>a, <4>2, <5>1
          <5>3. f[k] = f[k - 1] \o ss[k]
            BY <1>4
          <5> QED BY <3>2, <5>2, <5>3
        <4> QED BY <4>1, <4>2
      <3> QED BY <3>1, <3>2
    <2> HIDE DEF a
    <2>7. a[n] = f[n]
      BY <2>6, ReaderIsUnique
    <2>8. a[n] = h[n]
      BY <1>7 DEF a
    <2> QED BY <1>5, <2>4, <2>7, <2>8
  <1> QED BY <1>6, <1>7

\* One more piece is joined at the end.
LEMMA FlattenGoes ==
  ASSUME NEW C
  PROVE  /\ FlattenSeq(<< >>) = << >>
         /\ \A ss \in Seq(Seq(C)) : FlattenSeq(ss) \in Seq(C)
         /\ \A ss \in Seq(Seq(C)), t \in Seq(C) : FlattenSeq(Append(ss, t)) = FlattenSeq(ss) \o t
  <1> DEFINE T == Seq(C)
             e == << >>
             j == Joiner(C)
             R(s) == Result(s, e, j)
  <1>0. e \in T
    BY EmptySeq
  <1>1. IsReader(j, T, T)
    BY ConcatProperties DEF IsReader, Joiner
  <1>a. \A x, y \in T : j[<<x, y>>] = x \o y
    BY DEF Joiner
  <1>3. \A s \in Seq(T) : FlattenSeq(s) = R(s)
    BY FlattenIsResult
  <1> HIDE DEF T, e, j
  <1>2. /\ R(<< >>) = e
        /\ \A s \in Seq(T), c \in T : R(Append(s, c)) = j[<<R(s), c>>]
        /\ \A s \in Seq(T) : R(s) \in T
    BY <1>0, <1>1, ResultFacts
  <1> HIDE DEF R
  <1>4. << >> \in Seq(T) /\ \A s \in Seq(T), c \in T : Append(s, c) \in Seq(T)
    BY EmptySeq, AppendProperties
  <1>6. ASSUME NEW s \in Seq(T), NEW c \in T
        PROVE  FlattenSeq(Append(s, c)) = FlattenSeq(s) \o c
    <2>1. FlattenSeq(Append(s, c)) = R(Append(s, c)) /\ FlattenSeq(s) = R(s) /\ R(s) \in T
      BY <1>2, <1>3, <1>4
    <2>2. R(Append(s, c)) = j[<<R(s), c>>]
      BY <1>2
    <2> QED BY <1>a, <2>1, <2>2
  <1>7. FlattenSeq(<< >>) = << >>
    BY <1>2, <1>3, <1>4 DEF e
  <1>8. \A s \in Seq(T) : FlattenSeq(s) \in T
    BY <1>2, <1>3
  <1> QED BY <1>6, <1>7, <1>8 DEF T

-----------------------------------------------------------------------------
(***************************************************************************)
(* PostgreSQL reading an identifier.                                       *)
(***************************************************************************)
\* A double quote is neither the dot nor NUL.
LEMMA QuoteDiffers == Quote # "." /\ Quote # NUL
  BY Zenon DEF Quote, NUL

\* The characters the texts are built of are strings.
LEMMA StringFacts ==
  /\ Quote \in String /\ Apostrophe \in String /\ Backslash \in String /\ NUL \in String
  /\ "." \in String /\ "=" \in String /\ " " \in String /\ "" \in String
  /\ "migrations" \in String /\ ToSet(Keys) \subseteq String
  BY StringAssumption

\* The default table name is an ordinary text.
LEMMA DefaultDiffers == "migrations" # Accented /\ "migrations" # NUL
  BY Zenon DEF Accented, NUL

\* Front and Last undo Append.
LEMMA FrontLast ==
  ASSUME NEW C, NEW s \in Seq(C), NEW c \in C
  PROVE  Front(Append(s, c)) = s /\ Last(Append(s, c)) = c
  <1>1. PICK n \in Nat : n = Len(s)
    BY LenProperties
  <1>2. Append(s, c) \in Seq(C) /\ Len(Append(s, c)) = n + 1 /\ Append(s, c)[n + 1] = c
        /\ \A k \in 1 .. n : Append(s, c)[k] = s[k]
    BY <1>1, AppendProperties
  <1> DEFINE t == Append(s, c)
             u == SubSeq(t, 1, n)
  <1> HIDE DEF t
  <1>3. \A i \in 1 .. n : t[i] \in C
    BY <1>1, <1>2, ElementOfSeq DEF t
  <1>4. u \in Seq(C) /\ Len(u) = n /\ \A i \in 1 .. n : u[i] = t[i]
    <2>1. t \in Seq(C) /\ Len(t) = n + 1
      BY <1>2 DEF t
    <2>2. u \in Seq(C)
      BY <2>1
    <2>3. Len(u) = n
      BY <2>1
    <2>4. \A i \in 1 .. n : u[i] = t[i]
      BY <2>1
    <2> QED BY <2>2, <2>3, <2>4
  <1> HIDE DEF u
  <1>5. u = s
    BY <1>1, <1>2, <1>4, SeqEqual DEF t
  <1>6. Front(t) = u
    BY <1>2 DEF Front, t, u
  <1> QED BY <1>2, <1>5, <1>6 DEF Last, t

IdState ==
  {st \in [at : {"start", "inside", "quote", "error"}, parts : Seq(Seq(String))] :
     st.at \in {"inside", "quote"} => st.parts # << >>}

IsIdState(st) == st = [at |-> st.at, parts |-> st.parts]

Grown(ps, c) == Append(Front(ps), Append(Last(ps), c))
IdAt(at, ps) == [at |-> at, parts |-> ps]

\* What PostgreSQL does with a character, by where it is in the identifier.
LEMMA IdSteps ==
  ASSUME NEW ps, NEW c
  PROVE  /\ c = Quote => ReadIdentifierChar(IdAt("start", ps), c) = IdAt("inside", Append(ps, << >>))
         /\ c = Quote => ReadIdentifierChar(IdAt("inside", ps), c) = IdAt("quote", ps)
         /\ c # Quote /\ c # NUL => ReadIdentifierChar(IdAt("inside", ps), c) = IdAt("inside", Grown(ps, c))
         /\ c = Quote => ReadIdentifierChar(IdAt("quote", ps), c) = IdAt("inside", Grown(ps, c))
         /\ c = "." => ReadIdentifierChar(IdAt("quote", ps), c) = IdAt("start", ps)
  <1>1. CASE c = Quote
    BY <1>1, QuoteDiffers DEF ReadIdentifierChar, IdAt, Grown
  <1>2. CASE c # Quote
    BY <1>2, QuoteDiffers DEF ReadIdentifierChar, IdAt, Grown
  <1> QED BY <1>1, <1>2

\* Whatever it reads, one of these is the outcome.
LEMMA IdKinds ==
  ASSUME NEW st, IsIdState(st), NEW c
  PROVE  \/ ReadIdentifierChar(st, c) = IdAt("inside", Append(st.parts, << >>))
         \/ st.at = "inside" /\ ReadIdentifierChar(st, c) = IdAt("quote", st.parts)
         \/ st.at \in {"inside", "quote"} /\ ReadIdentifierChar(st, c) = IdAt("inside", Grown(st.parts, c))
         \/ ReadIdentifierChar(st, c) = IdAt("start", st.parts)
         \/ ReadIdentifierChar(st, c) = IdAt("error", st.parts)
  <1> USE DEF IdAt, IsIdState, Grown
  <1>1. CASE st.at = "start"
    <2>2. CASE c = Quote
      BY <1>1, <2>2 DEF ReadIdentifierChar
    <2>3. CASE c # Quote
      BY <1>1, <2>3 DEF ReadIdentifierChar
    <2> QED BY <1>1, <2>2, <2>3
  <1>2. CASE st.at = "inside"
    <2>2. CASE c = Quote
      BY <1>2, <2>2 DEF ReadIdentifierChar
    <2>3. CASE c # Quote
      BY <1>2, <2>3 DEF ReadIdentifierChar
    <2> QED BY <1>2, <2>2, <2>3
  <1>3. CASE st.at = "quote"
    <2>2. CASE c = Quote
      BY <1>3, <2>2, QuoteDiffers DEF ReadIdentifierChar
    <2>3. CASE c # Quote
      BY <1>3, <2>3 DEF ReadIdentifierChar
    <2> QED BY <1>3, <2>2, <2>3
  <1>4. CASE st.at \notin {"start", "inside", "quote"}
    BY <1>4 DEF ReadIdentifierChar
  <1> QED BY <1>1, <1>2, <1>3, <1>4

Word == Seq(String)
IdStart == IdAt("start", << >>)
IdReader == [p \in IdState \X String |-> ReadIdentifierChar(p[1], p[2])]

\* The states of the reader are records of a place and the parts so far.
LEMMA IdStateIs ==
  /\ \A st \in IdState : IsIdState(st) /\ st.parts \in Seq(Word)
  /\ \A ps \in Seq(Word) : IdAt("start", ps) \in IdState /\ IdAt("error", ps) \in IdState
  /\ \A ps \in Seq(Word) : ps # << >> => IdAt("inside", ps) \in IdState /\ IdAt("quote", ps) \in IdState
  BY DEF IdState, Word, IsIdState, IdAt

\* A character goes to the last part.
LEMMA GrownIs ==
  ASSUME NEW ps \in Seq(Word), NEW w \in Word, NEW c \in String
  PROVE  /\ Append(w, c) \in Word
         /\ Grown(Append(ps, w), c) = Append(ps, Append(w, c))
         /\ Append(ps, w) \in Seq(Word) /\ Append(ps, w) # << >>
  <1>1. Front(Append(ps, w)) = ps /\ Last(Append(ps, w)) = w
    BY FrontLast
  <1>2. Append(w, c) \in Word
    BY AppendProperties DEF Word
  <1> QED BY <1>1, <1>2, AppendProperties DEF Grown

\* A character leads from a state of the reader to one.
LEMMA IdCharType ==
  ASSUME NEW st \in IdState, NEW c \in String
  PROVE  ReadIdentifierChar(st, c) \in IdState
  <1> DEFINE ps == st.parts
  <1>1. IsIdState(st) /\ ps \in Seq(Word)
    BY IdStateIs
  <1>2. st.at \in {"inside", "quote"} => ps # << >>
    BY DEF IdState
  <1>3. Append(ps, << >>) \in Seq(Word) /\ Append(ps, << >>) # << >>
    <2>1. << >> \in Word
      BY EmptySeq DEF Word
    <2> QED BY <1>1, <2>1, AppendProperties
  <1>4. ps # << >> => Grown(ps, c) \in Seq(Word) /\ Grown(ps, c) # << >>
    <2> SUFFICES ASSUME ps # << >> PROVE Grown(ps, c) \in Seq(Word) /\ Grown(ps, c) # << >>
      OBVIOUS
    <2>1. PICK qs \in Seq(Word), w \in Word : ps = Append(qs, w)
      BY <1>1, SequenceEmptyOrAppend
    <2>2. Append(w, c) \in Word /\ Grown(ps, c) = Append(qs, Append(w, c))
      BY <2>1, GrownIs
    <2> QED BY <2>2, AppendProperties
  <1> QED BY <1>1, <1>2, <1>3, <1>4, IdStateIs, IdKinds

\* The identifiers are read from the left.
LEMMA ReadingIsResult ==
  ASSUME NEW s \in Word
  PROVE  ReadIdentifiers(s) = Result(s, IdStart, IdReader)
  <1>0. IdStart \in IdState
    BY EmptySeq, IdStateIs DEF IdStart, Word
  <1>1. IsReader(IdReader, IdState, String)
    BY IdCharType DEF IsReader, IdReader
  <1>a. s \in Seq(String)
    BY DEF Word
  <1>2. PICK n \in Nat : n = Len(s) /\ \A k \in 1 .. n : s[k] \in String
    BY <1>a, LenProperties, ElementOfSeq
  <1>3. PICK f \in [0 .. n -> IdState] : Reads(f, s, IdStart, IdReader)
    BY <1>0, <1>1, <1>a, <1>2, ReaderExists
  <1>4. f[0] = IdStart /\ \A k \in 1 .. n : f[k] = ReadIdentifierChar(f[k - 1], s[k])
    <2>1. f[0] = IdStart /\ \A k \in 1 .. n : f[k] = IdReader[<<f[k - 1], s[k]>>]
      BY <1>2, <1>3, ReaderAt
    <2>2. ASSUME NEW k \in 1 .. n PROVE f[k] = ReadIdentifierChar(f[k - 1], s[k])
      <3>1. f[k - 1] \in IdState /\ s[k] \in String
        BY <1>2
      <3>2. f[k] = IdReader[<<f[k - 1], s[k]>>]
        BY <2>1
      <3>3. \A st \in IdState, c \in String : IdReader[<<st, c>>] = ReadIdentifierChar(st, c)
        BY DEF IdReader
      <3> QED BY <3>1, <3>2, <3>3
    <2> QED BY <2>1, <2>2
  <1> DEFINE Is(g) == g = [k \in 0 .. Len(s) |-> IF k = 0 THEN IdStart ELSE ReadIdentifierChar(g[k - 1], s[k])]
             h == CHOOSE g : Is(g)
  <1>5. Is(f)
    BY <1>2, <1>3, <1>4
  <1>6. Is(h)
    BY <1>5
  <1>7. ReadIdentifiers(s) = h[n]
    BY <1>2 DEF ReadIdentifiers, IdStart, IdAt
  <1>8. h[0] = f[0] /\ \A k \in 1 .. n : h[k - 1] = f[k - 1] => h[k] = f[k]
    <2> HIDE DEF h
    <2> QED BY <1>2, <1>4, <1>6
  <1>9. h[n] = f[n]
    <2> HIDE DEF h
    <2> QED BY <1>8, ReaderIsUnique
  <1>10. f[n] = Result(s, IdStart, IdReader)
    BY <1>0, <1>1, <1>a, <1>2, <1>3, ResultFacts
  <1> QED BY <1>7, <1>9, <1>10

\* One more character is one more step of the reader.
LEMMA ReadingGoes ==
  /\ ReadIdentifiers(<< >>) = IdStart
  /\ \A s \in Word, c \in String : ReadIdentifiers(s \o <<c>>) = ReadIdentifierChar(ReadIdentifiers(s), c)
  /\ \A s \in Word : ReadIdentifiers(s) \in IdState
  <1>0. IdStart \in IdState
    BY EmptySeq, IdStateIs DEF IdStart, Word
  <1>1. IsReader(IdReader, IdState, String)
    BY IdCharType DEF IsReader, IdReader
  <1> DEFINE R(s) == Result(s, IdStart, IdReader)
  <1>2. /\ R(<< >>) = IdStart
        /\ \A s \in Word, c \in String : R(Append(s, c)) = IdReader[<<R(s), c>>]
        /\ \A s \in Word : R(s) \in IdState
    BY <1>0, <1>1, ResultFacts DEF Word
  <1> HIDE DEF R
  <1>3. << >> \in Word /\ \A s \in Word, c \in String : Append(s, c) \in Word /\ Append(s, c) = s \o <<c>>
    BY EmptySeq, AppendProperties, AppendIsConcat DEF Word
  <1>4. \A st \in IdState, c \in String : IdReader[<<st, c>>] = ReadIdentifierChar(st, c)
    BY DEF IdReader
  <1>5. \A s \in Word : ReadIdentifiers(s) = R(s)
    BY ReadingIsResult DEF R
  <1>6. ASSUME NEW s \in Word, NEW c \in String
        PROVE  ReadIdentifiers(s \o <<c>>) = ReadIdentifierChar(ReadIdentifiers(s), c)
    <2>0. s \o <<c>> = Append(s, c)
      BY <1>3
    <2>1. ReadIdentifiers(Append(s, c)) = R(Append(s, c)) /\ ReadIdentifiers(s) = R(s) /\ R(s) \in IdState
      BY <1>2, <1>3, <1>5
    <2>2. R(Append(s, c)) = IdReader[<<R(s), c>>]
      BY <1>2
    <2> QED BY <1>4, <2>0, <2>1, <2>2
  <1> QED BY <1>2, <1>3, <1>5, <1>6

-----------------------------------------------------------------------------
(***************************************************************************)
(* A name with its quotes doubled, and read back.                          *)
(***************************************************************************)
DoubledChar(c) == IF c = Quote THEN <<c, c>> ELSE <<c>>
DoubledChars(s) == [k \in DOMAIN s |-> DoubledChar(s[k])]
Doubled(s) == FlattenSeq(DoubledChars(s))

\* Texts: their pieces, joined in any order of joining.
LEMMA WordFacts ==
  /\ << >> \in Word
  /\ \A c \in String : <<c>> \in Word /\ <<c, c>> \in Word /\ <<c, c>> = <<c>> \o <<c>>
  /\ \A s \in Word, t \in Word : s \o t \in Word
  /\ \A s \in Word, c \in String : Append(s, c) \in Word /\ Append(s, c) = s \o <<c>>
  /\ \A s \in Word, t \in Word, u \in Word : (s \o t) \o u = s \o (t \o u)
  /\ \A s \in Word : s \o << >> = s /\ << >> \o s = s
  <1>1. << >> \in Word
    BY EmptySeq DEF Word
  <1>2. ASSUME NEW c \in String PROVE <<c>> \in Word /\ <<c, c>> \in Word /\ <<c, c>> = <<c>> \o <<c>>
    BY DEF Word
  <1>3. \A s \in Word, t \in Word : s \o t \in Word
    BY ConcatProperties DEF Word
  <1>4. \A s \in Word, c \in String : Append(s, c) \in Word /\ Append(s, c) = s \o <<c>>
    BY AppendProperties, AppendIsConcat DEF Word
  <1>5. \A s \in Word, t \in Word, u \in Word : (s \o t) \o u = s \o (t \o u)
    BY ConcatAssociative DEF Word
  <1>6. \A s \in Word : s \o << >> = s /\ << >> \o s = s
    BY ConcatEmptySeq DEF Word
  <1> QED BY <1>1, <1>2, <1>3, <1>4, <1>5, <1>6

\* Joined to nothing, a text is itself.
LEMMA EmptyJoins == \A s \in Word : s \o << >> = s /\ << >> \o s = s
  BY WordFacts

\* Appending is joining one character.
LEMMA AppendJoins == \A s \in Word, c \in String : Append(s, c) = s \o <<c>>
  BY WordFacts

Cat(a, b) == a \o b

\* Joining texts is associative.
LEMMA Associative ==
  \A a, b, c \in Word : Cat(a, b) \in Word /\ Cat(Cat(a, b), c) = Cat(a, Cat(b, c))
  <1>1. \A a \in Word, b \in Word : Cat(a, b) \in Word
    BY WordFacts DEF Cat
  <1>2. \A a \in Word, b \in Word, c \in Word : (a \o b) \o c = a \o (b \o c)
    BY WordFacts
  <1> QED BY <1>1, <1>2, Zenon DEF Cat

\* A text with every character spelled as m has it.
Spelling(m, s) == [k \in DOMAIN s |-> m[s[k]]]
Spelled(m, s) == FlattenSeq(Spelling(m, s))

\* A text spelled character by character grows with the text.
LEMMA SpelledGoes ==
  ASSUME NEW m \in [String -> Word]
  PROVE  /\ Spelled(m, << >>) = << >>
         /\ \A s \in Word : Spelled(m, s) \in Word
         /\ \A s \in Word, c \in String : Spelled(m, Append(s, c)) = Spelled(m, s) \o m[c]
  <1>1. \A c \in String : m[c] \in Word
    OBVIOUS
  <1>2. ASSUME NEW s \in Word PROVE Spelling(m, s) \in Seq(Word)
    <2>1. PICK n \in Nat : n = Len(s) /\ DOMAIN s = 1 .. n /\ \A k \in 1 .. n : s[k] \in String
      BY LenProperties, ElementOfSeq DEF Word
    <2>2. Spelling(m, s) \in [1 .. n -> Word]
      BY <1>1, <2>1 DEF Spelling
    <2> QED BY <2>2, SeqDef
  <1>3. ASSUME NEW s \in Word, NEW c \in String
        PROVE  Spelling(m, Append(s, c)) = Append(Spelling(m, s), m[c])
    <2>1. PICK n \in Nat : n = Len(s) /\ DOMAIN s = 1 .. n
      BY LenProperties DEF Word
    <2> DEFINE t == Append(s, c)
               a == Spelling(m, t)
               b == Append(Spelling(m, s), m[c])
    <2>2. t \in Word /\ Len(t) = n + 1 /\ t[n + 1] = c /\ \A k \in 1 .. n : t[k] = s[k]
      BY <2>1, AppendProperties DEF Word
    <2>3. DOMAIN t = 1 .. n + 1
      BY <2>2, LenProperties DEF Word
    <2>4. Spelling(m, s) \in Seq(Word) /\ m[c] \in Word /\ a \in Seq(Word)
      BY <1>1, <1>2, <2>2
    <2>5. Len(Spelling(m, s)) = n /\ \A k \in 1 .. n : Spelling(m, s)[k] = m[s[k]]
      <3>1. DOMAIN Spelling(m, s) = 1 .. n
        BY <2>1 DEF Spelling
      <3>2. Len(Spelling(m, s)) \in Nat /\ DOMAIN Spelling(m, s) = 1 .. Len(Spelling(m, s))
        BY <2>4, LenProperties
      <3> QED BY <2>1, <3>1, <3>2 DEF Spelling
    <2>6. b \in Seq(Word) /\ Len(b) = n + 1 /\ b[n + 1] = m[c] /\ \A k \in 1 .. n : b[k] = m[s[k]]
      BY <2>4, <2>5, AppendProperties
    <2> HIDE DEF b, t
    <2>7. Len(a) = n + 1 /\ \A k \in 1 .. n + 1 : a[k] = m[t[k]]
      <3>1. DOMAIN a = 1 .. n + 1
        BY <2>3 DEF Spelling
      <3>2. Len(a) \in Nat /\ DOMAIN a = 1 .. Len(a)
        BY <2>4, LenProperties
      <3> QED BY <2>1, <2>3, <3>1, <3>2 DEF Spelling
    <2> HIDE DEF a
    <2>8. ASSUME NEW k \in 1 .. n + 1 PROVE a[k] = b[k]
      <3>1. CASE k = n + 1
        BY <2>2, <2>6, <2>7, <3>1
      <3>2. CASE k # n + 1
        <4>1. k \in 1 .. n
          BY <3>2
        <4> QED BY <2>2, <2>6, <2>7, <4>1
      <3> QED BY <3>1, <3>2
    <2>9. a = b
      BY <2>4, <2>6, <2>7, <2>8, SeqEqual
    <2> QED BY <2>9 DEF a, b, t
  <1>4. /\ FlattenSeq(<< >>) = << >>
        /\ \A ss \in Seq(Word) : FlattenSeq(ss) \in Word
        /\ \A ss \in Seq(Word), t \in Word : FlattenSeq(Append(ss, t)) = FlattenSeq(ss) \o t
    BY FlattenGoes DEF Word
  <1>5. Spelling(m, << >>) = << >>
    BY DEF Spelling
  <1>6. ASSUME NEW s \in Word, NEW c \in String
        PROVE  Spelled(m, Append(s, c)) = Spelled(m, s) \o m[c]
    BY <1>1, <1>2, <1>3, <1>4 DEF Spelled
  <1> QED BY <1>2, <1>4, <1>5, <1>6 DEF Spelled

Doubling == [c \in String |-> DoubledChar(c)]

\* Doubling the quotes of a longer text doubles one more character.
LEMMA DoubledGoes ==
  /\ Doubled(<< >>) = << >>
  /\ \A s \in Word : Doubled(s) \in Word
  /\ \A s \in Word, c \in String : Doubled(Append(s, c)) = Doubled(s) \o DoubledChar(c)
  <1>1. Doubling \in [String -> Word] /\ \A c \in String : Doubling[c] = DoubledChar(c)
    BY WordFacts DEF Doubling, DoubledChar
  <1>2. ASSUME NEW s \in Word PROVE Doubled(s) = Spelled(Doubling, s)
    <2>1. \A k \in DOMAIN s : s[k] \in String
      BY LenProperties, ElementOfSeq DEF Word
    <2> QED BY <1>1, <2>1 DEF Doubled, DoubledChars, Spelled, Spelling
  <1>3. << >> \in Word /\ \A s \in Word, c \in String : Append(s, c) \in Word
    BY WordFacts
  <1>4. /\ Spelled(Doubling, << >>) = << >>
        /\ \A s \in Word : Spelled(Doubling, s) \in Word
        /\ \A s \in Word, c \in String : Spelled(Doubling, Append(s, c)) = Spelled(Doubling, s) \o Doubling[c]
    BY <1>1, SpelledGoes
  <1> QED BY <1>1, <1>2, <1>3, <1>4

\* Between the quotes, doubled quotes are read back as the text they stand for.
LEMMA ReadsBody ==
  ASSUME NEW t \in Word, NEW ps \in Seq(Word), ReadIdentifiers(t) = IdAt("inside", Append(ps, << >>)),
         NEW s \in Word, ~Contains(s, NUL)
  PROVE  ReadIdentifiers(t \o Doubled(s)) = IdAt("inside", Append(ps, s))
  <1> DEFINE P(w) == ~Contains(w, NUL) => ReadIdentifiers(t \o Doubled(w)) = IdAt("inside", Append(ps, w))
             S == {w \in Word : P(w)}
  <1>1. << >> \in S
    <2>1. t \o Doubled(<< >>) = t
      BY DoubledGoes, WordFacts
    <2> QED BY <2>1, WordFacts
  <1>2. ASSUME NEW w \in Word, NEW c \in String, w \in S PROVE Append(w, c) \in S
    <2>1. Append(w, c) \in Word
      BY WordFacts
    <2> SUFFICES ASSUME ~Contains(Append(w, c), NUL)
                 PROVE  ReadIdentifiers(t \o Doubled(Append(w, c))) = IdAt("inside", Append(ps, Append(w, c)))
      BY <2>1
    <2>2. c # NUL /\ ~Contains(w, NUL)
      <3>1. Len(w) \in Nat /\ Len(Append(w, c)) = Len(w) + 1 /\ Append(w, c)[Len(w) + 1] = c
            /\ \A k \in 1 .. Len(w) : Append(w, c)[k] = w[k]
        BY AppendProperties, LenProperties DEF Word
      <3> QED BY <3>1 DEF Contains
    <2> DEFINE u == t \o Doubled(w)
               qs == Append(ps, w)
    <2>3. ReadIdentifiers(u) = IdAt("inside", qs) /\ u \in Word
      BY <1>2, <2>2, DoubledGoes, WordFacts
    <2>4. Grown(qs, c) = Append(ps, Append(w, c))
      BY GrownIs
    <2>5. t \o Doubled(Append(w, c)) = u \o DoubledChar(c)
      <3>1. DoubledChar(c) \in Word /\ Doubled(w) \in Word
        BY WordFacts, DoubledGoes DEF DoubledChar
      <3>2. Doubled(Append(w, c)) = Doubled(w) \o DoubledChar(c)
        BY DoubledGoes
      <3>3. Cat(Cat(t, Doubled(w)), DoubledChar(c)) = Cat(t, Cat(Doubled(w), DoubledChar(c)))
        BY <3>1, Associative
      <3> QED BY <3>2, <3>3, Zenon DEF Cat
    <2> HIDE DEF u, qs
    <2>6. CASE c = Quote
      <3>1. u \o DoubledChar(c) = (u \o <<c>>) \o <<c>> /\ u \o <<c>> \in Word
        <4>1. DoubledChar(c) = <<c>> \o <<c>> /\ <<c>> \in Word
          BY <2>6, WordFacts DEF DoubledChar
        <4>2. Cat(Cat(u, <<c>>), <<c>>) = Cat(u, Cat(<<c>>, <<c>>)) /\ Cat(u, <<c>>) \in Word
          BY <2>3, <4>1, Associative
        <4> QED BY <4>1, <4>2, Zenon DEF Cat
      <3>2. ReadIdentifiers(u \o <<c>>) = IdAt("quote", qs)
        BY <2>3, <2>6, ReadingGoes, IdSteps
      <3>3. ReadIdentifiers((u \o <<c>>) \o <<c>>) = IdAt("inside", Grown(qs, c))
        BY <2>6, <3>1, <3>2, ReadingGoes, IdSteps
      <3> QED BY <2>4, <2>5, <3>1, <3>3
    <2>7. CASE c # Quote
      <3>1. u \o DoubledChar(c) = u \o <<c>>
        BY <2>7 DEF DoubledChar
      <3>2. ReadIdentifiers(u \o <<c>>) = IdAt("inside", Grown(qs, c))
        BY <2>2, <2>3, <2>7, ReadingGoes, IdSteps
      <3> QED BY <2>4, <2>5, <3>1, <3>2
    <2> QED BY <2>6, <2>7
  <1> HIDE DEF S
  <1>3. Word \subseteq S
    BY <1>1, <1>2, SeqInduct DEF Word
  <1> QED BY <1>3 DEF S

Width(c) == IF c = Accented THEN 2 ELSE 1
ByteReader == [p \in Nat \X String |-> p[1] + Width(p[2])]

\* A text has a number of bytes; one plain character is one byte.
LEMMA BytesFacts ==
  /\ \A s \in Word : Bytes(s) \in Nat
  /\ \A c \in String : c # Accented => Bytes(<<c>>) = 1
  <1>1. IsReader(ByteReader, Nat, String)
    BY DEF IsReader, ByteReader, Width
  <1>2. ASSUME NEW s \in Word
        PROVE  \E h : Bytes(s) = h[Len(s)] /\ h = [k \in 0 .. Len(s) |-> IF k = 0 THEN 0 ELSE h[k - 1] + Width(s[k])]
    <2>a. s \in Seq(String)
      BY DEF Word
    <2>1. PICK n \in Nat : n = Len(s) /\ \A k \in 1 .. n : s[k] \in String
      BY <2>a, LenProperties, ElementOfSeq
    <2>2. PICK f \in [0 .. n -> Nat] : Reads(f, s, 0, ByteReader)
      BY <1>1, <2>a, <2>1, ReaderExists
    <2>3. f[0] = 0 /\ \A k \in 1 .. n : f[k] = f[k - 1] + Width(s[k])
      <3>1. f[0] = 0 /\ \A k \in 1 .. n : f[k] = ByteReader[<<f[k - 1], s[k]>>]
        BY <2>1, <2>2, ReaderAt
      <3>2. ASSUME NEW k \in 1 .. n PROVE f[k] = f[k - 1] + Width(s[k])
        <4>1. f[k - 1] \in Nat /\ s[k] \in String
          BY <2>1
        <4>2. \A m \in Nat, c \in String : ByteReader[<<m, c>>] = m + Width(c)
          BY DEF ByteReader
        <4> QED BY <3>1, <4>1, <4>2
      <3> QED BY <3>1, <3>2
    <2> DEFINE Is(g) == g = [k \in 0 .. Len(s) |-> IF k = 0 THEN 0 ELSE g[k - 1] + Width(s[k])]
    <2>4. Is(f)
      BY <2>1, <2>2, <2>3
    <2>5. Bytes(s) = (CHOOSE g : Is(g))[Len(s)]
      BY DEF Bytes, Width
    <2> QED BY <2>4, <2>5
  <1>3. ASSUME NEW s \in Word PROVE Bytes(s) \in Nat
    <2>1. PICK h : Bytes(s) = h[Len(s)] /\ h = [k \in 0 .. Len(s) |-> IF k = 0 THEN 0 ELSE h[k - 1] + Width(s[k])]
      BY <1>2
    <2>2. PICK n \in Nat : n = Len(s)
      BY LenProperties DEF Word
    <2> DEFINE S == {k \in 0 .. n : h[k] \in Nat}
    <2>3. 0 \in S
      BY <2>1, <2>2
    <2>4. \A k \in 1 .. n : k - 1 \in S => k \in S
      <3> SUFFICES ASSUME NEW k \in 1 .. n, k - 1 \in S PROVE h[k] \in Nat
        OBVIOUS
      <3>1. h[k] = h[k - 1] + Width(s[k])
        BY <2>1, <2>2
      <3>2. Width(s[k]) \in Nat
        BY DEF Width
      <3> QED BY <3>1, <3>2
    <2> HIDE DEF S
    <2>5. \A k \in 0 .. n : k \in S
      BY <2>3, <2>4, Induct
    <2> QED BY <2>1, <2>2, <2>5 DEF S
  <1>4. ASSUME NEW c \in String, c # Accented PROVE Bytes(<<c>>) = 1
    <2> DEFINE s == <<c>>
    <2>1. s \in Word /\ Len(s) = 1 /\ s[1] = c
      BY WordFacts
    <2> HIDE DEF s
    <2>2. PICK h : Bytes(s) = h[Len(s)] /\ h = [k \in 0 .. Len(s) |-> IF k = 0 THEN 0 ELSE h[k - 1] + Width(s[k])]
      BY <1>2, <2>1
    <2>3. h[0] = 0 /\ h[1] = h[0] + Width(c)
      BY <2>1, <2>2
    <2> QED BY <1>4, <2>1, <2>2, <2>3 DEF Width, s
  <1> QED BY <1>3, <1>4

\* PostgreSQL cuts nothing of a name within the limit.
LEMMA TruncateIs ==
  ASSUME NEW s \in Word, Bytes(s) <= maxIdentifierBytes
  PROVE  Truncate(s) = s
  <1>1. PICK n \in Nat : n = Len(s)
    BY LenProperties DEF Word
  <1>2. SubSeq(s, 1, n) = s
    BY <1>1, SubSeqFull DEF Word
  <1>3. \A l \in 0 .. n : Len(SubSeq(s, 1, l)) = l
    BY <1>1 DEF Word
  <1>4. s \in Prefixes(s)
    BY <1>1, <1>2 DEF Prefixes
  <1>5. \A p \in Prefixes(s) : Len(p) <= n /\ (n <= Len(p) => p = s)
    <2> SUFFICES ASSUME NEW l \in 0 .. n PROVE Len(SubSeq(s, 1, l)) <= n /\ (n <= Len(SubSeq(s, 1, l)) => SubSeq(s, 1, l) = s)
      BY <1>1 DEF Prefixes
    <2>1. Len(SubSeq(s, 1, l)) = l
      BY <1>3
    <2>2. n <= l => l = n
      OBVIOUS
    <2> QED BY <1>2, <2>1, <2>2
  <1> DEFINE Is(p) == /\ Bytes(p) <= maxIdentifierBytes
                      /\ \A q \in Prefixes(s) : Bytes(q) <= maxIdentifierBytes => Len(q) <= Len(p)
             t == CHOOSE p \in Prefixes(s) : Is(p)
  <1>6. Is(s)
    BY <1>1, <1>5
  <1>7. t \in Prefixes(s) /\ Is(t)
    BY <1>4, <1>6
  <1> HIDE DEF t
  <1>8. n <= Len(t)
    BY <1>1, <1>4, <1>7
  <1>9. t = s
    BY <1>5, <1>7, <1>8
  <1> QED BY <1>9 DEF Truncate, t

QuotedText(s) == <<Quote>> \o Doubled(s) \o <<Quote>>

\* quoteIdentifier refuses the empty, the long and the NUL, and quotes the rest.
LEMMA QuoteIs ==
  ASSUME NEW s \in Word
  PROVE  quoteIdentifier(s) = IF s = << >> \/ Unnameable(s) THEN Unwritable ELSE Written(QuotedText(s))
  BY DEF quoteIdentifier, Unnameable, QuotedText, Doubled, DoubledChars, DoubledChar, MapSeq

\* A quoted name is read back as one more part, the name itself.
LEMMA ReadsQuoted ==
  ASSUME NEW t \in Word, NEW ps \in Seq(Word), ReadIdentifiers(t) = IdAt("start", ps),
         NEW s \in Word, ~Contains(s, NUL)
  PROVE  /\ QuotedText(s) \in Word /\ t \o QuotedText(s) \in Word
         /\ ReadIdentifiers(t \o QuotedText(s)) = IdAt("quote", Append(ps, s))
  <1> DEFINE q == <<Quote>>
             d == Doubled(s)
             u == t \o q
  <1>1. q \in Word /\ d \in Word /\ u \in Word
    BY WordFacts, StringFacts, DoubledGoes
  <1>2. QuotedText(s) \in Word /\ t \o QuotedText(s) \in Word
    <2>1. Cat(Cat(q, d), q) \in Word /\ Cat(t, Cat(Cat(q, d), q)) \in Word
      BY <1>1, Associative
    <2> QED BY <2>1, Zenon DEF QuotedText, Cat
  <1>3. t \o QuotedText(s) = (u \o d) \o q
    <2>1. Cat(Cat(q, d), q) = Cat(q, Cat(d, q)) /\ Cat(d, q) \in Word /\ Cat(t, q) \in Word
      BY <1>1, Associative
    <2>2. Cat(Cat(t, q), Cat(d, q)) = Cat(t, Cat(q, Cat(d, q)))
      BY <1>1, <2>1, Associative
    <2>3. Cat(Cat(Cat(t, q), d), q) = Cat(Cat(t, q), Cat(d, q))
      BY <1>1, <2>1, Associative
    <2>4. Cat(t, Cat(Cat(q, d), q)) = Cat(Cat(Cat(t, q), d), q)
      BY <2>1, <2>2, <2>3
    <2> QED BY <2>4, Zenon DEF QuotedText, Cat
  <1>4. ReadIdentifiers(u) = IdAt("inside", Append(ps, << >>))
    <2>1. ReadIdentifiers(t \o <<Quote>>) = ReadIdentifierChar(ReadIdentifiers(t), Quote)
      BY StringFacts, ReadingGoes
    <2> QED BY <2>1, IdSteps
  <1>5. ReadIdentifiers(u \o d) = IdAt("inside", Append(ps, s)) /\ u \o d \in Word
    <2> HIDE DEF u
    <2> QED BY <1>1, <1>4, ReadsBody, WordFacts
  <1>6. ReadIdentifiers((u \o d) \o q) = IdAt("quote", Append(ps, s))
    <2> DEFINE v == u \o d
    <2> HIDE DEF v, u, d
    <2>1. ReadIdentifiers(v \o q) = ReadIdentifierChar(ReadIdentifiers(v), Quote)
      BY <1>5, StringFacts, ReadingGoes DEF v
    <2> QED BY <1>5, <2>1, IdSteps DEF v
  <1> QED BY <1>2, <1>3, <1>6, Zenon

-----------------------------------------------------------------------------
(***************************************************************************)
(* The table reference, written and read back.                             *)
(***************************************************************************)
Table == [schema : Word, name : Word]
Named(name) == IF name = << >> THEN DefaultTableName ELSE name
Nameable(s) == s \in Word /\ s # << >> /\ ~Unnameable(s)
Reference(schema, name) == IF schema = << >> THEN <<Named(name)>> ELSE <<schema, Named(name)>>

\* The default table name can be written.
LEMMA DefaultFacts ==
  DefaultTableName \in Word /\ DefaultTableName # << >> /\ ~Unnameable(DefaultTableName)
  <1> DEFINE s == <<"migrations">>
  <1>1. s \in Word /\ s # << >> /\ Len(s) = 1 /\ s[1] = "migrations"
    BY StringFacts, WordFacts
  <1>2. Bytes(s) = 1
    BY StringFacts, BytesFacts, DefaultDiffers
  <1>3. ~Contains(s, NUL)
    <2> HIDE DEF s
    <2> QED BY <1>1, DefaultDiffers DEF Contains
  <1> HIDE DEF s
  <1>4. ~Unnameable(s)
    BY <1>2, <1>3, LimitsAssumption DEF Unnameable
  <1> QED BY <1>1, <1>4 DEF DefaultTableName, s

\* A name that can be written is quoted, and read back uncut.
LEMMA NameableFacts ==
  ASSUME NEW s, Nameable(s)
  PROVE  /\ quoteIdentifier(s) = Written(QuotedText(s)) /\ ~Contains(s, NUL) /\ Truncate(s) = s
  <1>1. Bytes(s) \in Nat /\ Bytes(s) <= maxIdentifierBytes /\ ~Contains(s, NUL)
    BY BytesFacts, LimitsAssumption DEF Nameable, Unnameable
  <1> QED BY <1>1, QuoteIs, TruncateIs DEF Nameable

\* A reference whose parts can be named is those parts.
LEMMA ReadsParts ==
  ASSUME NEW text \in Word, NEW ps \in Seq(Word), ReadIdentifiers(text) = IdAt("quote", ps),
         NEW n \in Nat, Len(ps) = n, \A k \in 1 .. n : Nameable(ps[k])
  PROVE  ReadReference(text) = ps
  <1>1. DOMAIN ps = 1 .. n
    BY LenProperties
  <1>2. ~Contains(ps, << >>)
    BY DEF Contains, Nameable
  <1>3. \A k \in 1 .. n : Truncate(ps[k]) = ps[k]
    BY NameableFacts
  <1>4. [k \in DOMAIN ps |-> Truncate(ps[k])] = ps
    <2>1. ps = [k \in 1 .. n |-> ps[k]]
      BY <1>1
    <2> QED BY <1>1, <1>3, <2>1
  <1>5. ReadIdentifiers(text).at = "quote" /\ ReadIdentifiers(text).parts = ps
    BY DEF IdAt
  <1> QED BY <1>2, <1>4, <1>5 DEF ReadReference, MapSeq

\* A quoted name alone is a reference of one part.
LEMMA ReadsOne ==
  ASSUME NEW s, Nameable(s)
  PROVE  QuotedText(s) \in Word /\ ReadReference(QuotedText(s)) = <<s>>
  <1>1. s \in Word /\ << >> \in Word /\ << >> \in Seq(Word) /\ ~Contains(s, NUL)
    BY NameableFacts, WordFacts, EmptySeq DEF Nameable
  <1>2. ReadIdentifiers(<< >>) = IdAt("start", << >>)
    BY ReadingGoes DEF IdStart
  <1>3. /\ QuotedText(s) \in Word
        /\ ReadIdentifiers(<< >> \o QuotedText(s)) = IdAt("quote", Append(<< >>, s))
    BY <1>1, <1>2, ReadsQuoted
  <1>4. << >> \o QuotedText(s) = QuotedText(s)
    BY <1>3, EmptyJoins
  <1>5. <<s>> \in Seq(Word) /\ Len(<<s>>) = 1 /\ <<s>>[1] = s /\ <<s>> = Append(<< >>, s)
    BY <1>1, SingleFacts
  <1> DEFINE ps == <<s>>
  <1> HIDE DEF ps
  <1>6. ReadIdentifiers(QuotedText(s)) = IdAt("quote", ps)
    BY <1>3, <1>4, <1>5 DEF ps
  <1>7. ps \in Seq(Word) /\ Len(ps) = 1 /\ \A k \in 1 .. 1 : Nameable(ps[k])
    BY <1>5 DEF ps
  <1>8. ReadReference(QuotedText(s)) = ps
    BY <1>3, <1>6, <1>7, ReadsParts
  <1> QED BY <1>3, <1>8 DEF ps

\* A sequence of two elements.
LEMMA PairFacts ==
  ASSUME NEW C, NEW c \in C, NEW d \in C
  PROVE  Append(<<c>>, d) = <<c, d>> /\ Append(<<c>>, d) \in Seq(C)
  <1>1. PICK a \in Seq(C) : a = <<c>>
    BY SingleFacts
  <1>2. Len(a) = 1 /\ a[1] = c
    BY <1>1
  <1>3. PICK v : v = <<c, d>>
    OBVIOUS
  <1>4. v \in Seq(C) /\ Len(v) = 2 /\ v[1] = c /\ v[2] = d
    BY <1>3
  <1>5. PICK u \in Seq(C) : u = Append(a, d)
    BY AppendProperties
  <1>6. Len(u) = Len(a) + 1 /\ u[Len(a) + 1] = d /\ \A k \in 1 .. Len(a) : u[k] = a[k]
    BY <1>5, AppendProperties
  <1>7. Len(u) = 2 /\ u[1] = c /\ u[2] = d
    BY <1>2, <1>6
  <1>8. u = v
    BY <1>4, <1>7, SeqEqual
  <1> QED BY <1>1, <1>3, <1>5, <1>8

\* Two quoted names with a dot between them are a reference of two parts.
LEMMA ReadsTwo ==
  ASSUME NEW s, Nameable(s), NEW t, Nameable(t)
  PROVE  /\ QuotedText(s) \o <<".">> \o QuotedText(t) \in Word
         /\ ReadReference(QuotedText(s) \o <<".">> \o QuotedText(t)) = <<s, t>>
  <1>1. s \in Word /\ t \in Word /\ << >> \in Word /\ << >> \in Seq(Word) /\ ~Contains(s, NUL) /\ ~Contains(t, NUL)
    BY NameableFacts, WordFacts, EmptySeq DEF Nameable
  <1>2. ReadIdentifiers(<< >>) = IdAt("start", << >>)
    BY ReadingGoes DEF IdStart
  <1> DEFINE a == QuotedText(s)
             b == a \o <<".">>
             one == Append(<< >>, s)
             two == Append(one, t)
  <1>3. a \in Word /\ ReadIdentifiers(<< >> \o a) = IdAt("quote", one)
    BY <1>1, <1>2, ReadsQuoted
  <1>4. << >> \o a = a /\ b \in Word
    <2>1. <<".">> \in Word
      BY StringFacts, WordFacts
    <2>2. Cat(a, <<".">>) \in Word
      BY <1>3, <2>1, Associative
    <2> QED BY <1>3, <2>2, EmptyJoins, Zenon DEF Cat
  <1>5. one \in Seq(Word) /\ two \in Seq(Word) /\ two = <<s, t>>
    <2>1. one = <<s>> /\ one \in Seq(Word)
      BY <1>1, SingleFacts
    <2>2. Append(<<s>>, t) = <<s, t>> /\ Append(<<s>>, t) \in Seq(Word)
      BY <1>1, PairFacts
    <2> QED BY <2>1, <2>2
  <1>6. Len(two) = 2 /\ two[1] = s /\ two[2] = t
    BY <1>1
  <1> HIDE DEF a, one
  <1>7. ReadIdentifiers(b) = ReadIdentifierChar(ReadIdentifiers(a), ".")
    BY <1>3, StringFacts, ReadingGoes
  <1>8. ReadIdentifiers(b) = IdAt("start", one)
    BY <1>3, <1>4, <1>7, IdSteps
  <1> HIDE DEF b
  <1>9. b \o QuotedText(t) \in Word /\ ReadIdentifiers(b \o QuotedText(t)) = IdAt("quote", two)
    BY <1>1, <1>4, <1>5, <1>8, ReadsQuoted
  <1> HIDE DEF two
  <1>10. \A k \in 1 .. 2 : Nameable(two[k])
    BY <1>6
  <1>11. ReadReference(b \o QuotedText(t)) = two
    BY <1>5, <1>6, <1>9, <1>10, ReadsParts
  <1> QED BY <1>5, <1>9, <1>11 DEF a, b

\* resolve writes a reference that is read back as schema and table, or refuses a
\* name PostgreSQL could not take.
LEMMA ResolveIs ==
  ASSUME NEW c \in Table
  PROVE  /\ resolve(c).text \in Word
         /\ resolve(c).ok => ReadReference(resolve(c).text) = Reference(c.schema, c.name)
         /\ ~resolve(c).ok => Unnameable(c.name) \/ Unnameable(c.schema)
  <1> DEFINE name == Named(c.name)
             schema == c.schema
             qn == quoteIdentifier(name)
             qs == quoteIdentifier(schema)
  <1>1. c.name \in Word /\ schema \in Word /\ name \in Word /\ name # << >>
    BY DefaultFacts DEF Table, Named
  <1>2. resolve(c) = IF ~qn.ok THEN Unwritable
                     ELSE IF schema = << >> THEN qn
                     ELSE IF ~qs.ok THEN Unwritable
                     ELSE Written(qs.text \o <<".">> \o qn.text)
    BY DEF resolve, Named
  <1>3. ~Unwritable.ok /\ Unwritable.text \in Word /\ \A w : Written(w).ok /\ Written(w).text = w
    BY WordFacts DEF Unwritable, Written
  <1>4. qn = IF Unnameable(name) THEN Unwritable ELSE Written(QuotedText(name))
    BY <1>1, QuoteIs
  <1>5. schema # << >> => qs = IF Unnameable(schema) THEN Unwritable ELSE Written(QuotedText(schema))
    BY <1>1, QuoteIs
  <1>6. Unnameable(name) => Unnameable(c.name)
    BY DefaultFacts DEF Named
  <1> DEFINE r == resolve(c)
  <1> HIDE DEF name, schema, qn, qs, r
  <1>7. CASE Unnameable(name)
    <2>1. r = Unwritable
      BY <1>2, <1>3, <1>4, <1>7 DEF r
    <2> QED BY <1>3, <1>6, <1>7, <2>1 DEF r
  <1>8. CASE ~Unnameable(name) /\ schema = << >>
    <2>1. r = Written(QuotedText(name))
      BY <1>2, <1>3, <1>4, <1>8 DEF r
    <2>2. QuotedText(name) \in Word /\ ReadReference(QuotedText(name)) = <<name>>
      BY <1>1, <1>8, ReadsOne DEF Nameable
    <2>3. r.ok /\ r.text = QuotedText(name)
      BY <1>3, <2>1
    <2>4. Reference(c.schema, c.name) = <<name>>
      BY <1>8 DEF Reference, name, schema
    <2> QED BY <2>2, <2>3, <2>4 DEF r
  <1>9. CASE ~Unnameable(name) /\ schema # << >> /\ Unnameable(schema)
    <2>1. r = Unwritable
      BY <1>2, <1>3, <1>4, <1>5, <1>9 DEF r
    <2> QED BY <1>3, <1>9, <2>1 DEF r, schema
  <1>10. CASE ~Unnameable(name) /\ schema # << >> /\ ~Unnameable(schema)
    <2> DEFINE w == QuotedText(schema) \o <<".">> \o QuotedText(name)
    <2>1. r = Written(w)
      BY <1>2, <1>3, <1>4, <1>5, <1>10 DEF r
    <2>2. w \in Word /\ ReadReference(w) = <<schema, name>>
      BY <1>1, <1>10, ReadsTwo DEF Nameable
    <2> HIDE DEF w
    <2>3. r.ok /\ r.text = w
      BY <1>3, <2>1
    <2>4. Reference(c.schema, c.name) = <<schema, name>>
      BY <1>10 DEF Reference, name, schema
    <2> QED BY <2>2, <2>3, <2>4 DEF r
  <1> QED BY <1>7, <1>8, <1>9, <1>10

-----------------------------------------------------------------------------
(***************************************************************************)
(* The driver reading a connection string.                                 *)
(***************************************************************************)
KeySet == ToSet(Keys)
Space == " "

\* The characters that mean something in a connection string differ.
LEMMA CharsDiffer ==
  /\ Apostrophe # Backslash /\ Apostrophe \notin Blanks /\ Backslash \notin Blanks
  /\ Space \in Blanks /\ Space # Apostrophe /\ Space # Backslash
  /\ "=" \notin Blanks
  BY Zenon DEF Apostrophe, Backslash, Blanks, Space

\* The six keys.
LEMMA KeysFacts ==
  /\ Len(Keys) = 6
  /\ \A n \in 1 .. 6 : Keys[n] \in KeySet
  /\ \A k \in KeySet : \E n \in 1 .. 6 : k = Keys[n]
  /\ \A k \in KeySet : k \notin Blanks /\ k \in String
  /\ "sslmode" \in KeySet
  <1>1. PICK ks : ks = Keys
    OBVIOUS
  <1>2. /\ Len(ks) = 6 /\ DOMAIN ks = 1 .. 6
        /\ ks[1] = "host" /\ ks[2] = "port" /\ ks[3] = "user"
        /\ ks[4] = "password" /\ ks[5] = "dbname" /\ ks[6] = "sslmode"
    BY <1>1 DEF Keys
  <1>3. KeySet = {ks[n] : n \in 1 .. 6}
    BY <1>1, <1>2 DEF KeySet, ToSet
  <1>4. \A n \in 1 .. 6 : ks[n] \notin Blanks
    <2>1. /\ "host" \notin Blanks /\ "port" \notin Blanks /\ "user" \notin Blanks
          /\ "password" \notin Blanks /\ "dbname" \notin Blanks /\ "sslmode" \notin Blanks
      BY Zenon DEF Blanks
    <2> QED BY <1>2, <2>1
  <1>5. \A k \in KeySet : k \in String
    BY StringFacts DEF KeySet
  <1>6. "sslmode" \in KeySet
    BY <1>2, <1>3
  <1> QED BY <1>1, <1>2, <1>3, <1>4, <1>5, <1>6

DsnState ==
  [at : {"gap", "key", "equals", "bare", "bareEscape", "quoted", "quotedEscape", "error"},
   key : String, value : Word, pairs : Seq(String \X Word)]

DsnAt(at, key, value, pairs) == [at |-> at, key |-> key, value |-> value, pairs |-> pairs]
IsDsnState(st) == st = [at |-> st.at, key |-> st.key, value |-> st.value, pairs |-> st.pairs]
Pair(k, v) == <<k, v>>

\* What the driver does with a character, by where it is in the connection string.
LEMMA DsnSteps ==
  ASSUME NEW k, NEW v, NEW ps, NEW c
  PROVE  /\ c \in KeySet => ReadDSNChar(DsnAt("gap", k, v, ps), c) = DsnAt("key", c, v, ps)
         /\ c \in Blanks => ReadDSNChar(DsnAt("gap", k, v, ps), c) = DsnAt("gap", k, v, ps)
         /\ c = Apostrophe => ReadDSNChar(DsnAt("equals", k, v, ps), c) = DsnAt("quoted", k, v, ps)
         /\ c \notin Blanks /\ c # Apostrophe /\ c # Backslash
              => ReadDSNChar(DsnAt("equals", k, v, ps), c) = DsnAt("bare", k, Append(v, c), ps)
         /\ c \notin Blanks /\ c # Backslash
              => ReadDSNChar(DsnAt("bare", k, v, ps), c) = DsnAt("bare", k, Append(v, c), ps)
         /\ c \in Blanks
              => ReadDSNChar(DsnAt("bare", k, v, ps), c) = DsnAt("gap", k, << >>, Append(ps, Pair(k, v)))
         /\ c = Apostrophe
              => ReadDSNChar(DsnAt("quoted", k, v, ps), c) = DsnAt("gap", k, << >>, Append(ps, Pair(k, v)))
         /\ c = Backslash => ReadDSNChar(DsnAt("quoted", k, v, ps), c) = DsnAt("quotedEscape", k, v, ps)
         /\ ReadDSNChar(DsnAt("quotedEscape", k, v, ps), c) = DsnAt("quoted", k, Append(v, c), ps)
         /\ c # Apostrophe /\ c # Backslash
              => ReadDSNChar(DsnAt("quoted", k, v, ps), c) = DsnAt("quoted", k, Append(v, c), ps)
  <1> USE DEF DsnAt, Pair, Emit, Take
  <1>1. ASSUME c \in KeySet
        PROVE  ReadDSNChar(DsnAt("gap", k, v, ps), c) = DsnAt("key", c, v, ps)
    <2>1. c \notin Blanks
      BY <1>1, KeysFacts
    <2> QED BY <1>1, <2>1 DEF ReadDSNChar, KeySet
  <1>2. ASSUME c \in Blanks
        PROVE  /\ ReadDSNChar(DsnAt("gap", k, v, ps), c) = DsnAt("gap", k, v, ps)
               /\ ReadDSNChar(DsnAt("bare", k, v, ps), c) = DsnAt("gap", k, << >>, Append(ps, Pair(k, v)))
    <2>1. c # Backslash /\ c \notin KeySet
      BY <1>2, CharsDiffer, KeysFacts
    <2> QED BY <1>2, <2>1 DEF ReadDSNChar, KeySet
  <1>4. ASSUME c = Apostrophe
        PROVE  /\ ReadDSNChar(DsnAt("equals", k, v, ps), c) = DsnAt("quoted", k, v, ps)
               /\ ReadDSNChar(DsnAt("quoted", k, v, ps), c) = DsnAt("gap", k, << >>, Append(ps, Pair(k, v)))
    <2>1. c \notin Blanks /\ c # Backslash
      BY <1>4, CharsDiffer
    <2> QED BY <1>4, <2>1 DEF ReadDSNChar
  <1>5. ASSUME c \notin Blanks, c # Backslash
        PROVE  /\ ReadDSNChar(DsnAt("bare", k, v, ps), c) = DsnAt("bare", k, Append(v, c), ps)
               /\ c # Apostrophe
                    => ReadDSNChar(DsnAt("equals", k, v, ps), c) = DsnAt("bare", k, Append(v, c), ps)
    BY <1>5 DEF ReadDSNChar
  <1>6. ASSUME c = Backslash
        PROVE  ReadDSNChar(DsnAt("quoted", k, v, ps), c) = DsnAt("quotedEscape", k, v, ps)
    <2>1. c # Apostrophe
      BY <1>6, CharsDiffer
    <2> QED BY <1>6, <2>1 DEF ReadDSNChar
  <1>7. ReadDSNChar(DsnAt("quotedEscape", k, v, ps), c) = DsnAt("quoted", k, Append(v, c), ps)
    BY DEF ReadDSNChar
  <1>8. ASSUME c # Apostrophe, c # Backslash
        PROVE  ReadDSNChar(DsnAt("quoted", k, v, ps), c) = DsnAt("quoted", k, Append(v, c), ps)
    BY <1>8 DEF ReadDSNChar
  <1> QED BY <1>1, <1>2, <1>4, <1>5, <1>6, <1>7, <1>8

\* Whatever it reads, one of these is the outcome.
LEMMA DsnKinds ==
  ASSUME NEW st, IsDsnState(st), NEW c
  PROVE  LET k == st.key
             v == st.value
             ps == st.pairs
             r == ReadDSNChar(st, c)
         IN \/ r = st
            \/ c \in KeySet /\ r = DsnAt("key", c, v, ps)
            \/ \E at \in {"equals", "bareEscape", "quoted", "quotedEscape", "error"} : r = DsnAt(at, k, v, ps)
            \/ \E at \in {"bare", "quoted"} : r = DsnAt(at, k, Append(v, c), ps)
            \/ r = DsnAt("gap", k, << >>, Append(ps, Pair(k, v)))
  <1> USE DEF DsnAt, Pair, Emit, Take, IsDsnState, KeySet
  <1>1. CASE st.at = "gap"
    <2>1. CASE c \in Blanks
      BY <1>1, <2>1, KeysFacts DEF ReadDSNChar
    <2>2. CASE c \in KeySet
      BY <1>1, <2>2, KeysFacts DEF ReadDSNChar
    <2>3. CASE c \notin Blanks /\ c \notin KeySet
      BY <1>1, <2>3 DEF ReadDSNChar
    <2> QED BY <2>1, <2>2, <2>3
  <1>2. CASE st.at = "key"
    <2>1. CASE c \in Blanks
      BY <1>2, <2>1, CharsDiffer DEF ReadDSNChar
    <2>2. CASE c \notin Blanks
      BY <1>2, <2>2 DEF ReadDSNChar
    <2> QED BY <2>1, <2>2
  <1>3. CASE st.at = "equals"
    <2>1. CASE c \in Blanks
      BY <1>3, <2>1, CharsDiffer DEF ReadDSNChar
    <2>2. CASE c = Apostrophe
      BY <1>3, <2>2, CharsDiffer DEF ReadDSNChar
    <2>3. CASE c \notin Blanks /\ c # Apostrophe
      BY <1>3, <2>3 DEF ReadDSNChar
    <2> QED BY <2>1, <2>2, <2>3
  <1>4. CASE st.at = "bare"
    <2>1. CASE c \in Blanks
      BY <1>4, <2>1, CharsDiffer DEF ReadDSNChar
    <2>2. CASE c \notin Blanks
      BY <1>4, <2>2 DEF ReadDSNChar
    <2> QED BY <2>1, <2>2
  <1>5. CASE st.at = "bareEscape"
    BY <1>5 DEF ReadDSNChar
  <1>6. CASE st.at = "quoted"
    <2>1. CASE c = Apostrophe
      BY <1>6, <2>1, CharsDiffer DEF ReadDSNChar
    <2>2. CASE c # Apostrophe
      BY <1>6, <2>2 DEF ReadDSNChar
    <2> QED BY <2>1, <2>2
  <1>7. CASE st.at = "quotedEscape"
    BY <1>7 DEF ReadDSNChar
  <1>8. CASE st.at \notin {"gap", "key", "equals", "bare", "bareEscape", "quoted", "quotedEscape"}
    BY <1>8 DEF ReadDSNChar
  <1> QED BY <1>1, <1>2, <1>3, <1>4, <1>5, <1>6, <1>7, <1>8

Pairs == String \X Word
DsnStart == DsnAt("gap", "", << >>, << >>)
DsnReader == [p \in DsnState \X String |-> ReadDSNChar(p[1], p[2])]
DsnPlaces == {"gap", "key", "equals", "bare", "bareEscape", "quoted", "quotedEscape", "error"}

\* The states of the reader are records of a place, a key, a value and the pairs
\* so far.
LEMMA DsnStateIs ==
  /\ \A st \in DsnState : IsDsnState(st) /\ st.at \in DsnPlaces /\ st.key \in String /\ st.value \in Word /\ st.pairs \in Seq(Pairs)
  /\ \A at \in DsnPlaces, k \in String, v \in Word, ps \in Seq(Pairs) : DsnAt(at, k, v, ps) \in DsnState
  /\ DsnStart \in DsnState
  <1>1. \A st \in DsnState : IsDsnState(st) /\ st.at \in DsnPlaces /\ st.key \in String /\ st.value \in Word /\ st.pairs \in Seq(Pairs)
    BY DEF DsnState, IsDsnState, Pairs, DsnPlaces
  <1>2. \A at \in DsnPlaces, k \in String, v \in Word, ps \in Seq(Pairs) : DsnAt(at, k, v, ps) \in DsnState
    BY DEF DsnState, DsnAt, Pairs, DsnPlaces
  <1>3. "gap" \in DsnPlaces /\ "" \in String /\ << >> \in Word /\ << >> \in Seq(Pairs)
    BY StringFacts, WordFacts, EmptySeq DEF DsnPlaces
  <1> QED BY <1>1, <1>2, <1>3 DEF DsnStart

\* A character leads from a state of the reader to one.
LEMMA DsnCharType ==
  ASSUME NEW st \in DsnState, NEW c \in String
  PROVE  ReadDSNChar(st, c) \in DsnState
  <1> DEFINE k == st.key
             v == st.value
             ps == st.pairs
             r == ReadDSNChar(st, c)
  <1>1. IsDsnState(st) /\ k \in String /\ v \in Word /\ ps \in Seq(Pairs)
    BY DsnStateIs
  <1>2. Append(v, c) \in Word /\ << >> \in Word
    BY <1>1, WordFacts
  <1>3. Append(ps, Pair(k, v)) \in Seq(Pairs)
    <2>1. Pair(k, v) \in Pairs
      BY <1>1 DEF Pair, Pairs
    <2> QED BY <1>1, <2>1, AppendProperties
  <1>4. \/ r = st
        \/ c \in KeySet /\ r = DsnAt("key", c, v, ps)
        \/ \E at \in {"equals", "bareEscape", "quoted", "quotedEscape", "error"} : r = DsnAt(at, k, v, ps)
        \/ \E at \in {"bare", "quoted"} : r = DsnAt(at, k, Append(v, c), ps)
        \/ r = DsnAt("gap", k, << >>, Append(ps, Pair(k, v)))
    BY <1>1, DsnKinds
  <1> HIDE DEF k, v, ps, r
  <1>5. r \in DsnState
    <2>1. CASE r = st
      BY <2>1
    <2>2. CASE r = DsnAt("key", c, v, ps)
      BY <1>1, <2>2, DsnStateIs DEF DsnPlaces
    <2>3. CASE \E at \in {"equals", "bareEscape", "quoted", "quotedEscape", "error"} : r = DsnAt(at, k, v, ps)
      BY <1>1, <2>3, DsnStateIs DEF DsnPlaces
    <2>4. CASE \E at \in {"bare", "quoted"} : r = DsnAt(at, k, Append(v, c), ps)
      BY <1>1, <1>2, <2>4, DsnStateIs DEF DsnPlaces
    <2>5. CASE r = DsnAt("gap", k, << >>, Append(ps, Pair(k, v)))
      BY <1>1, <1>2, <1>3, <2>5, DsnStateIs DEF DsnPlaces
    <2> QED BY <1>4, <2>1, <2>2, <2>3, <2>4, <2>5
  <1> QED BY <1>5 DEF r

\* The connection string is read from the left.
LEMMA SettingsIsResult ==
  ASSUME NEW s \in Word
  PROVE  ReadSettings(s) = Result(s, DsnStart, DsnReader)
  <1>0. DsnStart \in DsnState
    BY DsnStateIs
  <1>1. IsReader(DsnReader, DsnState, String)
    BY DsnCharType DEF IsReader, DsnReader
  <1>a. s \in Seq(String)
    BY DEF Word
  <1>2. PICK n \in Nat : n = Len(s) /\ \A k \in 1 .. n : s[k] \in String
    BY <1>a, LenProperties, ElementOfSeq
  <1>3. PICK f \in [0 .. n -> DsnState] : Reads(f, s, DsnStart, DsnReader)
    BY <1>0, <1>1, <1>a, <1>2, ReaderExists
  <1>4. f[0] = DsnStart /\ \A k \in 1 .. n : f[k] = ReadDSNChar(f[k - 1], s[k])
    <2>1. f[0] = DsnStart /\ \A k \in 1 .. n : f[k] = DsnReader[<<f[k - 1], s[k]>>]
      BY <1>2, <1>3, ReaderAt
    <2>2. ASSUME NEW k \in 1 .. n PROVE f[k] = ReadDSNChar(f[k - 1], s[k])
      <3>1. f[k - 1] \in DsnState /\ s[k] \in String
        BY <1>2
      <3>2. f[k] = DsnReader[<<f[k - 1], s[k]>>]
        BY <2>1
      <3>3. \A st \in DsnState, c \in String : DsnReader[<<st, c>>] = ReadDSNChar(st, c)
        BY DEF DsnReader
      <3> QED BY <3>1, <3>2, <3>3
    <2> QED BY <2>1, <2>2
  <1> DEFINE Is(g) == g = [k \in 0 .. Len(s) |-> IF k = 0 THEN DsnStart ELSE ReadDSNChar(g[k - 1], s[k])]
             h == CHOOSE g : Is(g)
  <1>5. Is(f)
    BY <1>2, <1>3, <1>4
  <1>6. Is(h)
    BY <1>5
  <1>7. ReadSettings(s) = h[n]
    BY <1>2 DEF ReadSettings, DsnStart, DsnAt
  <1>8. h[0] = f[0] /\ \A k \in 1 .. n : h[k - 1] = f[k - 1] => h[k] = f[k]
    <2> HIDE DEF h
    <2> QED BY <1>2, <1>4, <1>6
  <1>9. h[n] = f[n]
    <2> HIDE DEF h
    <2> QED BY <1>8, ReaderIsUnique
  <1>10. f[n] = Result(s, DsnStart, DsnReader)
    BY <1>0, <1>1, <1>a, <1>2, <1>3, ResultFacts
  <1> QED BY <1>7, <1>9, <1>10

\* One more character is one more step of the reader.
LEMMA SettingsGo ==
  /\ ReadSettings(<< >>) = DsnStart
  /\ \A s \in Word, c \in String : ReadSettings(s \o <<c>>) = ReadDSNChar(ReadSettings(s), c)
  /\ \A s \in Word : ReadSettings(s) \in DsnState
  <1>0. DsnStart \in DsnState
    BY DsnStateIs
  <1>1. IsReader(DsnReader, DsnState, String)
    BY DsnCharType DEF IsReader, DsnReader
  <1> DEFINE R(s) == Result(s, DsnStart, DsnReader)
  <1>2. /\ R(<< >>) = DsnStart
        /\ \A s \in Word, c \in String : R(Append(s, c)) = DsnReader[<<R(s), c>>]
        /\ \A s \in Word : R(s) \in DsnState
    BY <1>0, <1>1, ResultFacts DEF Word
  <1> HIDE DEF R
  <1>3. << >> \in Word /\ \A s \in Word, c \in String : Append(s, c) \in Word /\ Append(s, c) = s \o <<c>>
    BY WordFacts
  <1>4. \A st \in DsnState, c \in String : DsnReader[<<st, c>>] = ReadDSNChar(st, c)
    BY DEF DsnReader
  <1>5. \A s \in Word : ReadSettings(s) = R(s)
    BY SettingsIsResult DEF R
  <1>6. ASSUME NEW s \in Word, NEW c \in String
        PROVE  ReadSettings(s \o <<c>>) = ReadDSNChar(ReadSettings(s), c)
    <2>0. s \o <<c>> = Append(s, c)
      BY <1>3
    <2>1. ReadSettings(Append(s, c)) = R(Append(s, c)) /\ ReadSettings(s) = R(s) /\ R(s) \in DsnState
      BY <1>2, <1>3, <1>5
    <2>2. R(Append(s, c)) = DsnReader[<<R(s), c>>]
      BY <1>2
    <2> QED BY <1>4, <2>0, <2>1, <2>2
  <1> QED BY <1>2, <1>3, <1>5, <1>6

-----------------------------------------------------------------------------
(***************************************************************************)
(* A value, written and read back.                                         *)
(***************************************************************************)
EscapedChar(c) == IF c \in {Apostrophe, Backslash} THEN <<Backslash, c>> ELSE <<c>>
EscapedChars(s) == [k \in DOMAIN s |-> EscapedChar(s[k])]
Escaped(s) == FlattenSeq(EscapedChars(s))
Escaping == [c \in String |-> EscapedChar(c)]
QuotedValue(s) == <<Apostrophe>> \o Escaped(s) \o <<Apostrophe>>

\* An escaped character has a backslash before it.
LEMMA EscapedCharIs ==
  ASSUME NEW c \in String
  PROVE  /\ EscapedChar(c) \in Word
         /\ EscapedChar(c) = IF c \in {Apostrophe, Backslash} THEN <<Backslash>> \o <<c>> ELSE <<c>>
  <1>1. PICK b \in String : b = Backslash
    BY StringFacts
  <1>2. <<b, c>> \in Word /\ <<b>> \o <<c>> = <<b, c>>
    <2>1. Append(<<b>>, c) = <<b, c>> /\ Append(<<b>>, c) \in Word /\ <<b>> \in Word
      BY PairFacts, WordFacts DEF Word
    <2>2. Append(<<b>>, c) = <<b>> \o <<c>>
      BY <2>1, AppendJoins
    <2> QED BY <2>1, <2>2, Zenon
  <1>3. <<c>> \in Word
    BY WordFacts
  <1> QED BY <1>1, <1>2, <1>3 DEF EscapedChar

\* Escaping a longer text escapes one more character.
LEMMA EscapedGoes ==
  /\ Escaped(<< >>) = << >>
  /\ \A s \in Word : Escaped(s) \in Word
  /\ \A s \in Word, c \in String : Escaped(Append(s, c)) = Escaped(s) \o EscapedChar(c)
  <1>1. Escaping \in [String -> Word] /\ \A c \in String : Escaping[c] = EscapedChar(c)
    BY EscapedCharIs DEF Escaping
  <1>2. ASSUME NEW s \in Word PROVE Escaped(s) = Spelled(Escaping, s)
    <2>1. \A k \in DOMAIN s : s[k] \in String
      BY LenProperties, ElementOfSeq DEF Word
    <2> QED BY <1>1, <2>1 DEF Escaped, EscapedChars, Spelled, Spelling
  <1>3. << >> \in Word /\ \A s \in Word, c \in String : Append(s, c) \in Word
    BY WordFacts
  <1>4. /\ Spelled(Escaping, << >>) = << >>
        /\ \A s \in Word : Spelled(Escaping, s) \in Word
        /\ \A s \in Word, c \in String : Spelled(Escaping, Append(s, c)) = Spelled(Escaping, s) \o Escaping[c]
    BY <1>1, SpelledGoes
  <1> QED BY <1>1, <1>2, <1>3, <1>4

BareChar(c) == c \notin Blanks /\ c # Apostrophe /\ c # Backslash
Bare(s) == \A k \in 1 .. Len(s) : BareChar(s[k])
NoTab(s) == \A k \in 1 .. Len(s) : s[k] # "TAB"

\* quoteDSNValue leaves a bare value as it is and quotes the others.
LEMMA ValueIs ==
  ASSUME NEW s \in Word, NoTab(s)
  PROVE  quoteDSNValue(s) = IF Bare(s) THEN s ELSE QuotedValue(s)
  <1>1. DOMAIN s = 1 .. Len(s)
    BY LenProperties DEF Word
  <1>2. quoteDSNValue(s) = IF \A k \in DOMAIN s : s[k] \notin {Space, Apostrophe, Backslash} THEN s ELSE QuotedValue(s)
    BY DEF quoteDSNValue, QuotedValue, Escaped, EscapedChars, EscapedChar, MapSeq, Space
  <1>3. Blanks = {Space, "TAB"}
    BY Zenon DEF Blanks, Space
  <1> QED BY <1>1, <1>2, <1>3 DEF Bare, BareChar, NoTab

\* A bare value is read back as it stands.
LEMMA ReadsBare ==
  ASSUME NEW t \in Word, NEW k \in String, NEW ps \in Seq(Pairs),
         ReadSettings(t) = DsnAt("equals", k, << >>, ps),
         NEW s \in Word, Bare(s), s # << >>
  PROVE  ReadSettings(t \o s) = DsnAt("bare", k, s, ps)
  <1> DEFINE P(w) == Bare(w) => ReadSettings(t \o w) = IF w = << >> THEN DsnAt("equals", k, w, ps) ELSE DsnAt("bare", k, w, ps)
             S == {w \in Word : P(w)}
  <1>1. << >> \in S
    <2>1. t \o << >> = t
      BY WordFacts
    <2> QED BY <2>1, WordFacts
  <1>2. ASSUME NEW w \in Word, NEW c \in String, w \in S PROVE Append(w, c) \in S
    <2>1. Append(w, c) \in Word /\ Append(w, c) = w \o <<c>> /\ <<c>> \in Word /\ Append(w, c) # << >>
      BY WordFacts, AppendProperties DEF Word
    <2> SUFFICES ASSUME Bare(Append(w, c))
                 PROVE  ReadSettings(t \o Append(w, c)) = DsnAt("bare", k, Append(w, c), ps)
      BY <2>1
    <2>2. BareChar(c) /\ Bare(w)
      <3>1. Len(w) \in Nat /\ Len(Append(w, c)) = Len(w) + 1 /\ Append(w, c)[Len(w) + 1] = c
            /\ \A j \in 1 .. Len(w) : Append(w, c)[j] = w[j]
        BY AppendProperties, LenProperties DEF Word
      <3> QED BY <3>1 DEF Bare
    <2> DEFINE u == t \o w
    <2>3. u \in Word /\ t \o Append(w, c) = u \o <<c>>
      <3>1. u \in Word
        BY Associative DEF Cat
      <3>2. Cat(Cat(t, w), <<c>>) = Cat(t, Cat(w, <<c>>))
        BY <2>1, Associative
      <3> QED BY <2>1, <3>1, <3>2 DEF Cat
    <2>4. ReadSettings(u) = DsnAt("equals", k, w, ps) \/ ReadSettings(u) = DsnAt("bare", k, w, ps)
      BY <1>2, <2>2
    <2> HIDE DEF u
    <2>5. ReadSettings(u \o <<c>>) = ReadDSNChar(ReadSettings(u), c)
      BY <2>3, SettingsGo
    <2>6. /\ ReadDSNChar(DsnAt("equals", k, w, ps), c) = DsnAt("bare", k, Append(w, c), ps)
          /\ ReadDSNChar(DsnAt("bare", k, w, ps), c) = DsnAt("bare", k, Append(w, c), ps)
      BY <2>2, DsnSteps DEF BareChar
    <2> QED BY <2>3, <2>4, <2>5, <2>6
  <1> HIDE DEF S
  <1>3. Word \subseteq S
    BY <1>1, <1>2, SeqInduct DEF Word
  <1> QED BY <1>3 DEF S

\* Between apostrophes, an escaped value is read back as what it stands for.
LEMMA ReadsEscaped ==
  ASSUME NEW t \in Word, NEW k \in String, NEW ps \in Seq(Pairs),
         ReadSettings(t) = DsnAt("quoted", k, << >>, ps), NEW s \in Word
  PROVE  ReadSettings(t \o Escaped(s)) = DsnAt("quoted", k, s, ps)
  <1> DEFINE P(w) == ReadSettings(t \o Escaped(w)) = DsnAt("quoted", k, w, ps)
             S == {w \in Word : P(w)}
  <1>1. << >> \in S
    <2>1. t \o Escaped(<< >>) = t
      BY EscapedGoes, WordFacts
    <2> QED BY <2>1, WordFacts
  <1>2. ASSUME NEW w \in Word, NEW c \in String, w \in S PROVE Append(w, c) \in S
    <2>1. Append(w, c) \in Word
      BY WordFacts
    <2> DEFINE u == t \o Escaped(w)
               e == EscapedChar(c)
               b == <<Backslash>>
               l == <<c>>
    <2>2. Escaped(w) \in Word /\ e \in Word /\ u \in Word /\ b \in Word /\ l \in Word
      BY EscapedGoes, EscapedCharIs, StringFacts, WordFacts
    <2>3. t \o Escaped(Append(w, c)) = u \o e
      <3>1. Escaped(Append(w, c)) = Escaped(w) \o e
        BY EscapedGoes
      <3>2. (t \o Escaped(w)) \o e = t \o (Escaped(w) \o e)
        <4>1. Escaped(w) \in Word /\ e \in Word
          BY <2>2
        <4> HIDE DEF e
        <4>2. Cat(Cat(t, Escaped(w)), e) = Cat(t, Cat(Escaped(w), e))
          BY <4>1, Associative
        <4> QED BY <4>2, Zenon DEF Cat
      <3> QED BY <3>1, <3>2, Zenon
    <2>4. ReadSettings(u) = DsnAt("quoted", k, w, ps)
      BY <1>2
    <2> HIDE DEF u
    <2>5. CASE c \in {Apostrophe, Backslash}
      <3>1. u \o e = (u \o b) \o l /\ u \o b \in Word
        <4>1. e = b \o l
          BY <2>5, EscapedCharIs
        <4>2. (u \o b) \o l = u \o (b \o l) /\ u \o b \in Word
          <5>1. u \in Word /\ b \in Word /\ l \in Word
            BY <2>2
          <5> HIDE DEF b, l
          <5>2. Cat(Cat(u, b), l) = Cat(u, Cat(b, l)) /\ Cat(u, b) \in Word
            BY <5>1, Associative
          <5> QED BY <5>2, Zenon DEF Cat
        <4> QED BY <4>1, <4>2, Zenon
      <3>2. ReadSettings(u \o b) = ReadDSNChar(ReadSettings(u), Backslash)
        BY <2>2, StringFacts, SettingsGo
      <3>3. ReadSettings(u \o b) = DsnAt("quotedEscape", k, w, ps)
        BY <2>4, <3>2, DsnSteps
      <3> DEFINE v == u \o b
      <3> HIDE DEF v
      <3>4. ReadSettings(v \o l) = ReadDSNChar(ReadSettings(v), c)
        BY <3>1, SettingsGo DEF v
      <3>5. ReadSettings(v \o l) = DsnAt("quoted", k, Append(w, c), ps)
        BY <3>3, <3>4, DsnSteps DEF v
      <3> QED BY <2>1, <2>3, <3>1, <3>5 DEF v
    <2>6. CASE c \notin {Apostrophe, Backslash}
      <3>1. e = l
        BY <2>6, EscapedCharIs
      <3>2. ReadSettings(u \o l) = ReadDSNChar(ReadSettings(u), c)
        BY <2>2, SettingsGo
      <3>3. ReadSettings(u \o l) = DsnAt("quoted", k, Append(w, c), ps)
        BY <2>4, <2>6, <3>2, DsnSteps
      <3> QED BY <2>1, <2>3, <3>1, <3>3
    <2> QED BY <2>5, <2>6
  <1> HIDE DEF S
  <1>3. Word \subseteq S
    BY <1>1, <1>2, SeqInduct DEF Word
  <1> QED BY <1>3 DEF S

\* All of ps has been read: the last value is complete, or complete if the text ends here.
Settled(st, ps) ==
  \E k \in String, v \in Word, qs \in Seq(Pairs) :
     \/ st = DsnAt("gap", k, << >>, ps)
     \/ st = DsnAt("bare", k, v, qs) /\ ps = Append(qs, Pair(k, v))

\* Bare or quoted, the value is read back, and the pair is complete.
LEMMA ReadsValue ==
  ASSUME NEW t \in Word, NEW k \in String, NEW ps \in Seq(Pairs),
         ReadSettings(t) = DsnAt("equals", k, << >>, ps),
         NEW s \in Word, s # << >>, NoTab(s)
  PROVE  /\ quoteDSNValue(s) \in Word
         /\ Settled(ReadSettings(t \o quoteDSNValue(s)), Append(ps, Pair(k, s)))
  <1>1. CASE Bare(s)
    <2>1. quoteDSNValue(s) = s
      BY <1>1, ValueIs
    <2>2. ReadSettings(t \o s) = DsnAt("bare", k, s, ps)
      BY <1>1, ReadsBare
    <2> QED BY <2>1, <2>2 DEF Settled
  <1>2. CASE ~Bare(s)
    <2> DEFINE a == <<Apostrophe>>
               e == Escaped(s)
    <2>1. quoteDSNValue(s) = (a \o e) \o a
      BY <1>2, ValueIs DEF QuotedValue
    <2>2. a \in Word /\ e \in Word
      BY StringFacts, WordFacts, EscapedGoes
    <2> HIDE DEF a, e
    <2>3. /\ Cat(Cat(a, e), a) \in Word /\ Cat(t, a) \in Word /\ Cat(Cat(t, a), e) \in Word
          /\ Cat(t, Cat(Cat(a, e), a)) = Cat(Cat(Cat(t, a), e), a)
      BY <2>2, Associative
    <2>4. /\ (a \o e) \o a \in Word /\ t \o a \in Word /\ (t \o a) \o e \in Word
          /\ t \o ((a \o e) \o a) = ((t \o a) \o e) \o a
      BY <2>3, Zenon DEF Cat
    <2>5. ReadSettings(t \o a) = DsnAt("quoted", k, << >>, ps)
      <3>1. ReadSettings(t \o <<Apostrophe>>) = ReadDSNChar(ReadSettings(t), Apostrophe)
        BY StringFacts, SettingsGo
      <3> QED BY <3>1, DsnSteps DEF a
    <2> DEFINE u == t \o a
               v == u \o e
    <2> HIDE DEF u
    <2>6. ReadSettings(v) = DsnAt("quoted", k, s, ps)
      BY <2>4, <2>5, ReadsEscaped DEF u, e
    <2> HIDE DEF v
    <2>7. ReadSettings(v \o <<Apostrophe>>) = ReadDSNChar(ReadSettings(v), Apostrophe)
      BY <2>4, StringFacts, SettingsGo DEF u, v
    <2>8. ReadSettings(v \o a) = DsnAt("gap", k, << >>, Append(ps, Pair(k, s)))
      BY <2>6, <2>7, DsnSteps DEF a
    <2>9. Settled(ReadSettings(v \o a), Append(ps, Pair(k, s)))
      BY <2>8 DEF Settled
    <2>10. t \o quoteDSNValue(s) = v \o a /\ quoteDSNValue(s) \in Word
      BY <2>1, <2>4, Zenon DEF u, v
    <2> QED BY <2>9, <2>10
  <1> QED BY <1>1, <1>2

PairText(k, s) == <<k, "=">> \o quoteDSNValue(s)

\* After a key comes the equals sign.
LEMMA KeyStep ==
  ASSUME NEW k, NEW v, NEW ps
  PROVE  ReadDSNChar(DsnAt("key", k, v, ps), "=") = DsnAt("equals", k, v, ps)
  BY CharsDiffer DEF ReadDSNChar, DsnAt

\* A pair written behind complete ones is one more complete pair.
LEMMA ReadsPair ==
  ASSUME NEW t \in Word, NEW k0 \in String, NEW ps \in Seq(Pairs),
         ReadSettings(t) = DsnAt("gap", k0, << >>, ps),
         NEW k \in KeySet, NEW s \in Word, s # << >>, NoTab(s)
  PROVE  /\ PairText(k, s) \in Word
         /\ Settled(ReadSettings(t \o PairText(k, s)), Append(ps, Pair(k, s)))
  <1>0. k \in String /\ "=" \in String
    BY KeysFacts, StringFacts
  <1> DEFINE a == <<k>>
             b == <<"=">>
             q == quoteDSNValue(s)
             u == t \o a
             v == u \o b
  <1>1. a \in Word /\ b \in Word
    BY <1>0, WordFacts
  <1>2. <<k, "=">> = a \o b
    <2>1. Append(<<k>>, "=") = <<k, "=">>
      BY <1>0, PairFacts
    <2>2. Append(<<k>>, "=") = <<k>> \o <<"=">>
      BY <1>0, <1>1, AppendJoins
    <2> QED BY <2>1, <2>2, Zenon
  <1> HIDE DEF a, b, q
  <1>3. u \in Word /\ v \in Word
    <2>1. Cat(t, a) \in Word /\ Cat(Cat(t, a), b) \in Word
      BY <1>1, Associative
    <2> QED BY <2>1, Zenon DEF Cat
  <1>4. ReadSettings(u) = DsnAt("key", k, << >>, ps)
    <2>1. ReadSettings(t \o <<k>>) = ReadDSNChar(ReadSettings(t), k)
      BY <1>0, SettingsGo
    <2> QED BY <2>1, DsnSteps DEF a
  <1> HIDE DEF u
  <1>5. ReadSettings(v) = DsnAt("equals", k, << >>, ps)
    <2>1. ReadSettings(u \o <<"=">>) = ReadDSNChar(ReadSettings(u), "=")
      BY <1>0, <1>3, SettingsGo
    <2>2. ReadDSNChar(DsnAt("key", k, << >>, ps), "=") = DsnAt("equals", k, << >>, ps)
      BY KeyStep
    <2> QED BY <1>4, <2>1, <2>2 DEF b
  <1> HIDE DEF v
  <1>6. q \in Word /\ Settled(ReadSettings(v \o q), Append(ps, Pair(k, s)))
    BY <1>0, <1>3, <1>5, ReadsValue DEF q
  <1>7. PairText(k, s) = (a \o b) \o q
    BY <1>2, Zenon DEF PairText, q
  <1>8. Cat(Cat(a, b), q) \in Word /\ Cat(t, Cat(Cat(a, b), q)) = Cat(Cat(Cat(t, a), b), q)
    BY <1>1, <1>6, Associative
  <1>9. (a \o b) \o q \in Word /\ t \o ((a \o b) \o q) = v \o q
    BY <1>8, Zenon DEF Cat, u, v
  <1> QED BY <1>6, <1>7, <1>9

\* A space keeps the pairs and ends a bare value.
LEMMA ReadsSpace ==
  ASSUME NEW t \in Word, NEW ps \in Seq(Pairs), Settled(ReadSettings(t), ps)
  PROVE  t \o <<Space>> \in Word /\ \E k \in String : ReadSettings(t \o <<Space>>) = DsnAt("gap", k, << >>, ps)
  <1>1. Space \in String /\ Space \in Blanks
    BY StringFacts, CharsDiffer DEF Space
  <1>2. t \o <<Space>> \in Word
    BY <1>1, WordFacts
  <1>3. ReadSettings(t \o <<Space>>) = ReadDSNChar(ReadSettings(t), Space)
    BY <1>1, SettingsGo
  <1>4. PICK k \in String, v \in Word, qs \in Seq(Pairs) :
             \/ ReadSettings(t) = DsnAt("gap", k, << >>, ps)
             \/ ReadSettings(t) = DsnAt("bare", k, v, qs) /\ ps = Append(qs, Pair(k, v))
    BY DEF Settled
  <1>5. ReadSettings(t \o <<Space>>) = DsnAt("gap", k, << >>, ps)
    <2>1. /\ ReadDSNChar(DsnAt("gap", k, << >>, ps), Space) = DsnAt("gap", k, << >>, ps)
          /\ ReadDSNChar(DsnAt("bare", k, v, qs), Space) = DsnAt("gap", k, << >>, Append(qs, Pair(k, v)))
      BY <1>1, DsnSteps
    <2> QED BY <1>3, <1>4, <2>1
  <1> QED BY <1>2, <1>5

\* When all pairs are complete, they are what the driver has read.
LEMMA SettledReads ==
  ASSUME NEW t \in Word, NEW ps \in Seq(Pairs), Settled(ReadSettings(t), ps)
  PROVE  ReadDSN(t) = ToSet(ps)
  <1>1. PICK k \in String, v \in Word, qs \in Seq(Pairs) :
             \/ ReadSettings(t) = DsnAt("gap", k, << >>, ps)
             \/ ReadSettings(t) = DsnAt("bare", k, v, qs) /\ ps = Append(qs, Pair(k, v))
    BY DEF Settled
  <1>2. CASE ReadSettings(t) = DsnAt("gap", k, << >>, ps)
    <2>1. ReadSettings(t).at = "gap" /\ ReadSettings(t).pairs = ps
      BY <1>2 DEF DsnAt
    <2> QED BY <2>1 DEF ReadDSN
  <1>3. CASE ReadSettings(t) = DsnAt("bare", k, v, qs) /\ ps = Append(qs, Pair(k, v))
    <2> DEFINE st == ReadSettings(t)
    <2>1. st.at = "bare" /\ Emit(st, "gap").pairs = ps
      BY <1>3 DEF DsnAt, Emit, Pair
    <2>2. ReadDSN(t) = ToSet(Emit(st, "gap").pairs)
      BY <2>1 DEF ReadDSN
    <2> QED BY <2>1, <2>2
  <1> QED BY <1>1, <1>2, <1>3

-----------------------------------------------------------------------------
(***************************************************************************)
(* The connection string of the discrete settings, written and read back.  *)
(***************************************************************************)
Discrete == [KeySet -> Word]

\* One more element in the sequence, one more in the set.
LEMMA ToSetAppend ==
  ASSUME NEW C, NEW s \in Seq(C), NEW x \in C
  PROVE  ToSet(Append(s, x)) = ToSet(s) \cup {x}
  <1>1. PICK n \in Nat : n = Len(s) /\ DOMAIN s = 1 .. n
    BY LenProperties
  <1>2. PICK t \in Seq(C) : t = Append(s, x)
    BY AppendProperties
  <1>3. Len(t) = n + 1 /\ t[n + 1] = x /\ \A k \in 1 .. n : t[k] = s[k]
    BY <1>1, <1>2, AppendProperties
  <1>4. DOMAIN t = 1 .. n + 1
    BY <1>3, LenProperties
  <1>5. {t[k] : k \in 1 .. n + 1} = {s[k] : k \in 1 .. n} \cup {x}
    <2>1. ASSUME NEW k \in 1 .. n + 1 PROVE t[k] \in {s[j] : j \in 1 .. n} \cup {x}
      <3>1. CASE k = n + 1
        BY <1>3, <3>1
      <3>2. CASE k # n + 1
        <4>1. k \in 1 .. n
          BY <3>2
        <4> QED BY <1>3, <4>1
      <3> QED BY <3>1, <3>2
    <2>2. ASSUME NEW k \in 1 .. n PROVE s[k] \in {t[j] : j \in 1 .. n + 1}
      BY <1>3
    <2>3. x \in {t[j] : j \in 1 .. n + 1}
      BY <1>3
    <2> QED BY <2>1, <2>2, <2>3
  <1> QED BY <1>1, <1>2, <1>4, <1>5 DEF ToSet

\* A pair is written as a text.
LEMMA ValueType ==
  ASSUME NEW s \in Word, NoTab(s), NEW k \in KeySet
  PROVE  PairText(k, s) \in Word
  <1> DEFINE a == <<Apostrophe>>
             e == Escaped(s)
             q == quoteDSNValue(s)
             p == <<k, "=">>
  <1>1. a \in Word /\ e \in Word
    BY StringFacts, WordFacts, EscapedGoes
  <1>2. q = IF Bare(s) THEN s ELSE (a \o e) \o a
    BY ValueIs DEF QuotedValue
  <1>3. p \in Word
    <2>1. k \in String /\ "=" \in String
      BY KeysFacts, StringFacts
    <2> QED BY <2>1 DEF Word
  <1> HIDE DEF a, e, q, p
  <1>4. Cat(Cat(a, e), a) \in Word
    BY <1>1, Associative
  <1>5. (a \o e) \o a \in Word
    BY <1>4, Zenon DEF Cat
  <1>6. q \in Word
    BY <1>2, <1>5
  <1>7. Cat(p, q) \in Word
    BY <1>3, <1>6, Associative
  <1> QED BY <1>7, Zenon DEF Cat, PairText, p, q

\* The string as it grows by a setting.
Extended(w, k, s) ==
  IF s = << >> THEN w ELSE w \o (IF w = << >> THEN << >> ELSE <<Space>>) \o PairText(k, s)

\* GetDataSource leaves out a setting that is not given and puts a space between others.
LEMMA ExtendedIs ==
  ASSUME NEW w \in Word, NEW k \in KeySet, NEW s \in Word, NoTab(s)
  PROVE  /\ Extended(w, k, s) \in Word
         /\ s = << >> => Extended(w, k, s) = w
         /\ s # << >> /\ w = << >> => Extended(w, k, s) = w \o PairText(k, s)
         /\ s # << >> /\ w # << >> => Extended(w, k, s) = (w \o <<Space>>) \o PairText(k, s)
  <1> DEFINE p == PairText(k, s)
             b == <<Space>>
  <1>1. p \in Word /\ b \in Word
    BY ValueType, StringFacts, WordFacts DEF Space
  <1>2. w \o << >> = w
    BY WordFacts
  <1> HIDE DEF p, b
  <1>3. Cat(Cat(w, b), p) \in Word /\ Cat(w, p) \in Word
    BY <1>1, Associative
  <1>4. (w \o b) \o p \in Word /\ w \o p \in Word
    BY <1>3, Zenon DEF Cat
  <1>5. CASE s = << >>
    BY <1>5 DEF Extended
  <1>6. CASE s # << >> /\ w = << >>
    <2>1. Extended(w, k, s) = (w \o << >>) \o p
      BY <1>6 DEF Extended, p
    <2> QED BY <1>2, <1>4, <1>6, <2>1, Zenon DEF p
  <1>7. CASE s # << >> /\ w # << >>
    <2>1. Extended(w, k, s) = (w \o b) \o p
      BY <1>7 DEF Extended, p, b
    <2> QED BY <1>4, <1>7, <2>1, Zenon DEF p, b
  <1> QED BY <1>5, <1>6, <1>7

\* What is given of the first n settings.
GivenUpTo(c, n) == {Pair(Keys[j], c[Keys[j]]) : j \in {i \in 1 .. n : c[Keys[i]] # << >>}}
SoFar(c, n, w) == w \in Word /\ \E ps \in Seq(Pairs) : Settled(ReadSettings(w), ps) /\ ToSet(ps) = GivenUpTo(c, n)

\* One more setting: what has been written so far is still read back.
LEMMA SoFarExtends ==
  ASSUME NEW c \in Discrete, NEW n \in 1 .. 6, NoTab(c[Keys[n]]), NEW w, SoFar(c, n - 1, w)
  PROVE  SoFar(c, n, Extended(w, Keys[n], c[Keys[n]]))
  <1>0. PICK k \in KeySet : k = Keys[n]
    BY KeysFacts
  <1>1. PICK s \in Word : s = c[k]
    BY DEF Discrete
  <1>2. w \in Word /\ NoTab(s)
    BY <1>0, <1>1 DEF SoFar
  <1>3. PICK ps \in Seq(Pairs) : Settled(ReadSettings(w), ps) /\ ToSet(ps) = GivenUpTo(c, n - 1)
    BY DEF SoFar
  <1>4. GivenUpTo(c, n) = GivenUpTo(c, n - 1) \cup IF s = << >> THEN {} ELSE {Pair(k, s)}
    <2>1. 1 .. n = (1 .. n - 1) \cup {n}
      OBVIOUS
    <2> QED BY <1>0, <1>1, <2>1 DEF GivenUpTo
  <1>5. Extended(w, k, s) \in Word
    BY <1>2, ExtendedIs
  <1>6. CASE s = << >>
    <2>1. Extended(w, k, s) = w
      BY <1>2, <1>6, ExtendedIs
    <2> QED BY <1>0, <1>1, <1>2, <1>3, <1>4, <1>6, <2>1 DEF SoFar
  <1>7. CASE s # << >>
    <2> DEFINE qs == Append(ps, Pair(k, s))
    <2>1. Pair(k, s) \in Pairs
      BY KeysFacts DEF Pair, Pairs
    <2>2. qs \in Seq(Pairs) /\ ToSet(qs) = GivenUpTo(c, n)
      BY <1>3, <1>4, <1>7, <2>1, AppendProperties, ToSetAppend
    <2>3. Settled(ReadSettings(Extended(w, k, s)), qs)
      <3>1. CASE w = << >>
        <4>1. PICK e \in String : ReadSettings(w) = DsnAt("gap", e, << >>, << >>)
          BY <3>1, SettingsGo, StringFacts DEF DsnStart
        <4>2. ps = << >>
          <5>1. ReadSettings(w).at = "gap" /\ ReadSettings(w).pairs = << >>
            BY <4>1 DEF DsnAt
          <5> QED BY <1>3, <5>1 DEF Settled, DsnAt
        <4>3. Settled(ReadSettings(w \o PairText(k, s)), qs)
          BY <1>2, <1>7, <4>1, <4>2, StringFacts, ReadsPair
        <4> QED BY <1>2, <1>7, <3>1, <4>3, ExtendedIs
      <3>2. CASE w # << >>
        <4> DEFINE u == w \o <<Space>>
        <4>1. u \in Word /\ \E k0 \in String : ReadSettings(u) = DsnAt("gap", k0, << >>, ps)
          BY <1>2, <1>3, ReadsSpace
        <4> HIDE DEF u
        <4>2. PICK k0 \in String : ReadSettings(u) = DsnAt("gap", k0, << >>, ps)
          BY <4>1
        <4>3. Settled(ReadSettings(u \o PairText(k, s)), qs)
          BY <1>2, <1>7, <4>1, <4>2, ReadsPair
        <4> QED BY <1>2, <1>7, <3>2, <4>3, ExtendedIs DEF u
      <3> QED BY <3>1, <3>2
    <2> HIDE DEF qs
    <2> QED BY <1>0, <1>1, <1>5, <2>2, <2>3 DEF SoFar
  <1> QED BY <1>6, <1>7

\* GetDataSource goes through the keys one by one.
LEMMA SourceIs ==
  ASSUME NEW c \in Discrete, \A k \in KeySet : NoTab(c[k])
  PROVE  \E f : /\ GetDataSource(c) = f[6] /\ f[0] = << >>
                /\ \A n \in 1 .. 6 : f[n] = Extended(f[n - 1], Keys[n], c[Keys[n]])
  <1> DEFINE step == [p \in Word \X (1 .. 6) |-> Extended(p[1], Keys[p[2]], c[Keys[p[2]]])]
  <1>0. \A w \in Word, n \in 1 .. 6 : Extended(w, Keys[n], c[Keys[n]]) \in Word
    BY KeysFacts, ExtendedIs DEF Discrete
  <1>1. IsStep(step, 6, Word)
    BY <1>0 DEF IsStep
  <1>2. \A w \in Word, n \in 1 .. 6 : step[<<w, n>>] = Extended(w, Keys[n], c[Keys[n]])
    OBVIOUS
  <1> HIDE DEF step
  <1>3. << >> \in Word
    BY WordFacts
  <1>4. PICK f : Follows(f, 6, Word, << >>, step)
    BY <1>1, <1>3, Recursion
  <1>5. f \in [0 .. 6 -> Word] /\ f[0] = << >> /\ \A n \in 1 .. 6 : f[n] = step[<<f[n - 1], n>>]
    BY <1>4 DEF Follows
  <1>6. \A n \in 1 .. 6 : f[n] = Extended(f[n - 1], Keys[n], c[Keys[n]])
    <2> SUFFICES ASSUME NEW n \in 1 .. 6 PROVE f[n] = Extended(f[n - 1], Keys[n], c[Keys[n]])
      OBVIOUS
    <2>1. f[n - 1] \in Word
      BY <1>5
    <2> QED BY <1>2, <1>5, <2>1
  <1> DEFINE Is(g) == g = [n \in 0 .. 6 |-> IF n = 0 THEN << >> ELSE Extended(g[n - 1], Keys[n], c[Keys[n]])]
             h == CHOOSE g : Is(g)
  <1>7. Is(f)
    BY <1>5, <1>6
  <1>8. Is(h)
    BY <1>7
  <1>9. GetDataSource(c) = h[6]
    <2>1. Len(Keys) = 6
      BY KeysFacts
    <2> QED BY <2>1, Zenon DEF GetDataSource, Extended, PairText, Space
  <1> HIDE DEF h
  <1>10. h[0] = << >> /\ \A n \in 1 .. 6 : h[n] = Extended(h[n - 1], Keys[n], c[Keys[n]])
    BY <1>8
  <1> QED BY <1>9, <1>10

\* The driver reads the settings of GetDataSource back as exactly the ones given.
LEMMA SourceReads ==
  ASSUME NEW c \in Discrete, \A k \in KeySet : NoTab(c[k])
  PROVE  ReadDSN(GetDataSource(c)) = {Pair(k, c[k]) : k \in {j \in KeySet : c[j] # << >>}}
  <1>1. PICK f : /\ GetDataSource(c) = f[6] /\ f[0] = << >>
                 /\ \A n \in 1 .. 6 : f[n] = Extended(f[n - 1], Keys[n], c[Keys[n]])
    BY SourceIs
  <1> DEFINE S == {n \in 0 .. 6 : SoFar(c, n, f[n])}
  <1>2. 0 \in S
    <2>1. << >> \in Word /\ << >> \in Seq(Pairs) /\ "" \in String
      BY WordFacts, EmptySeq, StringFacts
    <2>2. ReadSettings(<< >>) = DsnAt("gap", "", << >>, << >>)
      BY SettingsGo DEF DsnStart
    <2>3. Settled(ReadSettings(<< >>), << >>)
      BY <2>1, <2>2 DEF Settled
    <2>4. GivenUpTo(c, 0) = {} /\ ToSet(<< >>) = {}
      BY DEF GivenUpTo, ToSet
    <2>5. SoFar(c, 0, << >>)
      BY <2>1, <2>3, <2>4 DEF SoFar
    <2> QED BY <1>1, <2>5
  <1>3. \A n \in 1 .. 6 : n - 1 \in S => n \in S
    <2> SUFFICES ASSUME NEW n \in 1 .. 6, n - 1 \in S PROVE SoFar(c, n, f[n])
      OBVIOUS
    <2>1. NoTab(c[Keys[n]])
      BY KeysFacts
    <2> QED BY <1>1, <2>1, SoFarExtends
  <1> HIDE DEF S
  <1>4. \A n \in 0 .. 6 : n \in S
    BY <1>2, <1>3, Induct
  <1>5. SoFar(c, 6, f[6])
    BY <1>4 DEF S
  <1>6. PICK ps \in Seq(Pairs) : Settled(ReadSettings(f[6]), ps) /\ ToSet(ps) = GivenUpTo(c, 6)
    BY <1>5 DEF SoFar
  <1>7. ReadDSN(f[6]) = GivenUpTo(c, 6)
    BY <1>5, <1>6, SettledReads DEF SoFar
  <1>8. GivenUpTo(c, 6) = {Pair(k, c[k]) : k \in {j \in KeySet : c[j] # << >>}}
    BY KeysFacts DEF GivenUpTo
  <1> QED BY <1>1, <1>7, <1>8

-----------------------------------------------------------------------------
(***************************************************************************)
(* The call of the service.                                                *)
(***************************************************************************)
Left(s, n) == SubSeq(s, n + 1, Len(s))

\* What is left of the steps loses its head with each step.
LEMMA LeftFacts ==
  ASSUME NEW C, NEW s \in Seq(C), NEW n \in 0 .. Len(s)
  PROVE  /\ Left(s, 0) = s
         /\ Left(s, n) # << >> => n + 1 \in 1 .. Len(s) /\ Head(Left(s, n)) = s[n + 1] /\ Tail(Left(s, n)) = Left(s, n + 1)
  <1>1. PICK m \in Nat : m = Len(s)
    BY LenProperties
  <1>2. Left(s, 0) = s
    BY <1>1, SubSeqFull DEF Left
  <1>3. ASSUME n < m
        PROVE  Head(Left(s, n)) = s[n + 1] /\ Tail(Left(s, n)) = Left(s, n + 1)
    <2> DEFINE t == SubSeq(s, n + 1, m)
    <2>1. t \in Seq(C) /\ Len(t) = m - n /\ \A k \in 1 .. m - n : t[k] = s[n + k]
      BY <1>1, <1>3
    <2> HIDE DEF t
    <2>2. t # << >> /\ Head(t) = t[1] /\ t[1] = s[n + 1]
      BY <1>1, <1>3, <2>1
    <2> DEFINE u == SubSeq(s, n + 2, m)
    <2>3. u \in Seq(C) /\ Len(u) = m - n - 1 /\ \A k \in 1 .. m - n - 1 : u[k] = s[n + 1 + k]
      <3>1. n + 2 \in 1 .. m + 1 /\ m - (n + 2) + 1 = m - n - 1 /\ m - n - 1 \in Nat
        BY <1>1, <1>3
      <3>2. u \in Seq(C) /\ Len(u) = m - n - 1
        BY <1>1, <3>1
      <3>3. ASSUME NEW k \in 1 .. m - n - 1 PROVE u[k] = s[n + 1 + k]
        <4>1. n + 2 + k - 1 = n + 1 + k /\ k \in 1 .. (m - (n + 2)) + 1
          BY <1>1, <3>1
        <4> QED BY <1>1, <3>1, <4>1
      <3> QED BY <3>2, <3>3
    <2> HIDE DEF u
    <2>4. Tail(t) \in Seq(C) /\ Len(Tail(t)) = m - n - 1 /\ \A k \in 1 .. m - n - 1 : Tail(t)[k] = t[k + 1]
      <3>1. PICK w \in Seq(C) : w = t /\ w # << >> /\ Len(w) = m - n
        BY <2>1, <2>2
      <3>2. Tail(w) \in Seq(C) /\ Len(Tail(w)) = Len(w) - 1 /\ \A k \in 1 .. Len(Tail(w)) : Tail(w)[k] = w[k + 1]
        BY <3>1, HeadTailProperties
      <3> QED BY <3>1, <3>2
    <2>5. \A k \in 1 .. m - n - 1 : Tail(t)[k] = u[k]
      <3> SUFFICES ASSUME NEW k \in 1 .. m - n - 1 PROVE Tail(t)[k] = u[k]
        OBVIOUS
      <3>1. k + 1 \in 1 .. m - n /\ n + (k + 1) = n + 1 + k
        BY <1>1, <1>3
      <3>2. Tail(t)[k] = t[k + 1] /\ u[k] = s[n + 1 + k] /\ t[k + 1] = s[n + (k + 1)]
        BY <2>1, <2>3, <2>4, <3>1
      <3> QED BY <3>1, <3>2
    <2>6. Tail(t) = u
      BY <1>1, <1>3, <2>3, <2>4, <2>5, SeqEqual
    <2>7. n + 1 + 1 = n + 2
      OBVIOUS
    <2> QED BY <1>1, <2>2, <2>6, <2>7 DEF Left, t, u
  <1>4. n = m => Left(s, n) = << >>
    BY <1>1 DEF Left
  <1> QED BY <1>1, <1>2, <1>3, <1>4

Operations == {"reconcile", "plan", "up", "forget", "status", "baseline", "rollback"}

\* What a call r hands to the service, made with the options o.
Handed(r, o, op, count, run) ==
  /\ r \in Calls
  /\ r.op = op /\ r.count = count /\ r.run = run
  /\ Options(o).lockTimeout >= 0
  /\ r.lock = NewPostgresFromDB(Options(o))
  /\ ReadReference(r.table) = Reference(Options(o).table.schema, Options(o).table.name)

\* Why a call with the options o is refused.
Faulty(o) ==
  \/ Options(o).lockTimeout < 0
  \/ Unnameable(Options(o).table.name)
  \/ Unnameable(Options(o).table.schema)

\* A refusal is not taken for a call.
LEMMA RefusedIsNoCall == Refused \notin Calls
  BY DEF Refused, Calls

\* The library hands the service what the options say, or refuses faulty ones.
LEMMA ServeIs ==
  ASSUME NEW o \in Seq(Option), NEW op \in Operations, NEW given \in BOOLEAN, NEW count \in Int,
         NEW id \in String, NEW run \in SUBSET RunFlags
  PROVE  \/ Serve(op, given, o, count, id, run) = Refused /\ (given => Faulty(o))
         \/ Handed(Serve(op, given, o, count, id, run), o, op, count, run)
  <1> DEFINE r == Serve(op, given, o, count, id, run)
             c == Options(o)
             tab == resolve(c.table)
  <1>1. c \in Config
    BY OptionsGo
  <1>2. c.table \in Table /\ c.lockTimeout \in Int /\ c.lockID \in Int
    BY <1>1 DEF Config, Table, Word
  <1>3. /\ tab.text \in Word
        /\ tab.ok => ReadReference(tab.text) = Reference(c.table.schema, c.table.name)
        /\ ~tab.ok => Unnameable(c.table.name) \/ Unnameable(c.table.schema)
    BY <1>2, ResolveIs
  <1>4. NewPostgresFromDB(c) \in [wait : Int, key : Int]
    BY <1>2, DefaultsAssumption DEF NewPostgresFromDB
  <1>5. r = IF ~given \/ ~(c.lockTimeout >= 0) \/ ~tab.ok THEN Refused
            ELSE [op |-> op, count |-> count, id |-> id, run |-> run, table |-> tab.text, lock |-> NewPostgresFromDB(c)]
    BY DEF Serve, resolveOptions
  <1> HIDE DEF r, c, tab
  <1>6. CASE given /\ c.lockTimeout >= 0 /\ tab.ok
    <2>1. r = [op |-> op, count |-> count, id |-> id, run |-> run, table |-> tab.text, lock |-> NewPostgresFromDB(c)]
      BY <1>5, <1>6
    <2>2. r \in Calls
      BY <1>3, <1>4, <2>1 DEF Calls, Operations, Word
    <2>3. /\ r.op = op /\ r.count = count /\ r.run = run
          /\ r.lock = NewPostgresFromDB(c) /\ r.table = tab.text
      BY <2>1
    <2>4. Handed(r, o, op, count, run)
      BY <1>3, <1>6, <2>2, <2>3 DEF Handed, c
    <2> QED BY <2>4 DEF r
  <1>7. CASE ~(given /\ c.lockTimeout >= 0 /\ tab.ok)
    <2>1. r = Refused
      BY <1>5, <1>7
    <2>2. given => Faulty(o)
      <3>1. given => c.lockTimeout < 0 \/ Unnameable(c.table.name) \/ Unnameable(c.table.schema)
        BY <1>2, <1>3, <1>7
      <3> QED BY <3>1 DEF Faulty, c
    <2> QED BY <2>1, <2>2 DEF r
  <1> QED BY <1>6, <1>7

Counted(i) == IF i.by = "library" THEN i.count ELSE Atoi[i.arg]

\* What the call of an invocation hands to the service.
Made(i, o, r) ==
  \E op \in Operations, count \in Int, run \in SUBSET RunFlags :
    /\ Handed(r, o, op, count, run)
    /\ op = "rollback" => /\ i.cmd = "down"
                          /\ i.arg = "all" => count = -1
                          /\ i.arg # "all" => count > 0 /\ count = Counted(i)
    /\ run # {} => i.cmd \in {"reconcile", "plan"} /\ run = Options(o).run

\* What is called, by command; only a mistake is refused.
LEMMA CallIs ==
  ASSUME inv \in Invocations, inv.cmd \in DatabaseCommands, opts \in Seq(Option), NEW given \in BOOLEAN,
         inv.cmd = "down" /\ inv.arg # "all" => Counted(inv) \in Int
  PROVE  \/ Made(inv, opts, CalledBy(given))
         \/ /\ CalledBy(given) = Refused
            /\ given => \/ Faulty(opts)
                        \/ inv.cmd = "baseline" /\ inv.arg = ""
                        \/ inv.cmd = "down" /\ inv.arg # "all" /\ Counted(inv) <= 0
  <1>1. Options(opts).run \in SUBSET RunFlags
    BY OptionsGo DEF Config
  <1>2. inv.arg \in String /\ "" \in String
    BY InvocationFacts, StringFacts DEF DatabaseCommands, SourceCommands
  <1> DEFINE r == CalledBy(given)
  <1>a. \A op \in Operations, count \in Int, id \in String, run \in SUBSET RunFlags :
             \/ Serve(op, given, opts, count, id, run) = Refused /\ (given => Faulty(opts))
             \/ Handed(Serve(op, given, opts, count, id, run), opts, op, count, run)
    BY ServeIs
  <1>b. 0 \in Int /\ -1 \in Int /\ {} \in SUBSET RunFlags
    OBVIOUS
  <1>3. CASE inv.cmd \in {"reconcile", "plan"}
    <2>1. PICK op \in {"reconcile", "plan"} : r = Serve(op, given, opts, 0, "", Options(opts).run)
      BY <1>3 DEF CalledBy, Reconcile, Plan, RunOptions
    <2>2. op \in Operations /\ op # "rollback"
      BY DEF Operations
    <2>3. (r = Refused /\ (given => Faulty(opts))) \/ Handed(r, opts, op, 0, Options(opts).run)
      BY <1>1, <1>2, <1>a, <1>b, <2>1, <2>2
    <2> HIDE DEF r
    <2>4. Handed(r, opts, op, 0, Options(opts).run) => Made(inv, opts, r)
      BY <1>1, <1>3, <1>b, <2>2 DEF Made
    <2> QED BY <2>3, <2>4 DEF r
  <1>4. CASE inv.cmd \in {"up", "status", "forget"}
    <2>1. \E op \in {"up", "status", "forget"}, id \in String : r = Serve(op, given, opts, 0, id, {})
      BY <1>2, <1>4 DEF CalledBy, Up, Status, Forget
    <2>2. PICK op \in {"up", "status", "forget"}, id \in String : r = Serve(op, given, opts, 0, id, {})
      BY <2>1
    <2>3. op \in Operations /\ op # "rollback"
      BY DEF Operations
    <2>4. (r = Refused /\ (given => Faulty(opts))) \/ Handed(r, opts, op, 0, {})
      BY <1>a, <1>b, <2>2, <2>3
    <2> HIDE DEF r
    <2>5. Handed(r, opts, op, 0, {}) => Made(inv, opts, r)
      BY <1>b, <2>3 DEF Made
    <2> QED BY <2>4, <2>5 DEF r
  <1>5. CASE inv.cmd = "baseline"
    <2>1. r = IF inv.arg = "" THEN Refused ELSE Serve("baseline", given, opts, 0, inv.arg, {})
      BY <1>5 DEF CalledBy, Baseline
    <2>2. "baseline" \in Operations
      BY DEF Operations
    <2>3. inv.arg # "" => ((r = Refused /\ (given => Faulty(opts))) \/ Handed(r, opts, "baseline", 0, {}))
      BY <1>2, <1>a, <1>b, <2>1, <2>2
    <2>4. inv.arg = "" => r = Refused
      BY <2>1
    <2> HIDE DEF r
    <2>5. Handed(r, opts, "baseline", 0, {}) => Made(inv, opts, r)
      BY <1>b, <2>2 DEF Made
    <2> QED BY <1>5, <2>3, <2>4, <2>5 DEF r
  <1>6. CASE inv.cmd = "down" /\ inv.arg = "all"
    <2>1. r = Serve("rollback", given, opts, -1, "", {})
      BY <1>6 DEF CalledBy, DownAll, rollback, allMigrations
    <2>2. "rollback" \in Operations
      BY DEF Operations
    <2>3. (r = Refused /\ (given => Faulty(opts))) \/ Handed(r, opts, "rollback", -1, {})
      BY <1>2, <1>a, <1>b, <2>1, <2>2
    <2> HIDE DEF r
    <2>4. Handed(r, opts, "rollback", -1, {}) => Made(inv, opts, r)
      BY <1>6, <1>b, <2>2 DEF Made
    <2> QED BY <2>3, <2>4 DEF r
  <1>7. CASE inv.cmd = "down" /\ inv.arg # "all"
    <2> DEFINE n == Counted(inv)
    <2>0. n \in Int
      BY <1>7
    <2>1. r = IF n <= 0 THEN Refused ELSE Serve("rollback", given, opts, n, "", {})
      BY <1>7 DEF CalledBy, Down, rollback, Count, Counted
    <2> HIDE DEF n
    <2>2. "rollback" \in Operations
      BY DEF Operations
    <2>3. n > 0 => ((r = Refused /\ (given => Faulty(opts))) \/ Handed(r, opts, "rollback", n, {}))
      <3>1. n > 0 => r = Serve("rollback", given, opts, n, "", {})
        <4>1. n > 0 => ~(n <= 0)
          BY <2>0
        <4> QED BY <2>1, <4>1, Zenon
      <3>2. \/ Serve("rollback", given, opts, n, "", {}) = Refused /\ (given => Faulty(opts))
            \/ Handed(Serve("rollback", given, opts, n, "", {}), opts, "rollback", n, {})
        BY <1>2, <1>a, <1>b, <2>0, <2>2
      <3> QED BY <3>1, <3>2
    <2>4. n <= 0 => r = Refused
      BY <2>1
    <2> HIDE DEF r
    <2>5. n > 0 /\ Handed(r, opts, "rollback", n, {}) => Made(inv, opts, r)
      BY <1>7, <1>b, <2>0, <2>2 DEF Made, n
    <2>6. n > 0 \/ n <= 0
      BY <2>0
    <2> QED BY <1>7, <2>3, <2>4, <2>5, <2>6 DEF r, n
  <1> QED BY <1>3, <1>4, <1>5, <1>6, <1>7 DEF DatabaseCommands, SourceCommands

-----------------------------------------------------------------------------
(***************************************************************************)
(* The invariant.                                                          *)
(***************************************************************************)
EnvGood(i) ==
  i.env.lockTimeout = "" \/ (i.env.lockTimeout \in DOMAIN ParseDuration /\ ParseDuration[i.env.lockTimeout] > 0)
EnvWait(i) == IF i.env.lockTimeout = "" THEN cliLockTimeout ELSE ParseDuration[i.env.lockTimeout]
FlagGood(i) == i.flags.lockTimeout = "" \/ i.flags.lockTimeout \in DOMAIN ParseDuration
WaitOf(i) == IF i.flags.lockTimeout = "" THEN EnvWait(i) ELSE ParseDuration[i.flags.lockTimeout]
CountGood(i) == i.arg = "all" \/ (i.arg \in DOMAIN Atoi /\ Atoi[i.arg] > 0)
PathGood(i) == firstNonEmpty(i.flags.path, i.env.path) # ""
EnvDSN(i) == firstNonEmpty(i.env.databaseURL, i.env.postgresDSN)
ConfigOf(i) ==
  [lockTimeout |-> EnvWait(i), path |-> i.env.path, dsn |-> EnvDSN(i), settings |-> i.env.settings]
SettingsOf(i) ==
  IF i.flags.sslmode = << >> THEN i.env.settings ELSE [i.env.settings EXCEPT !["sslmode"] = i.flags.sslmode]
ConnectionOf(i) == Connection(firstNonEmpty(i.flags.dsn, EnvDSN(i)), SettingsOf(i))
OptionsOf(i) == IF i.by = "library" THEN i.opts ELSE CliOptions(i, WaitOf(i))

\* No tab in any discrete setting.
TabFree(i) == i.by = "cli" => NoTab(i.flags.sslmode) /\ \A k \in KeySet : NoTab(i.env.settings[k])

\* A mistake in what a database command uses.
MistakenIn(i) ==
  \/ i.env.lockTimeout \notin {""} \cup {d \in DOMAIN ParseDuration : ParseDuration[d] > 0}
  \/ i.flags.lockTimeout \notin {""} \cup {d \in DOMAIN ParseDuration : ParseDuration[d] >= 0}
  \/ ~i.flags.logging
  \/ Unnameable(i.flags.table) \/ Unnameable(i.flags.schema)
  \/ i.cmd \in SourceCommands /\ i.flags.path = "" /\ i.env.path = ""
  \/ i.cmd = "down" /\ i.arg \notin {"all", "2"}
  \/ i.cmd = "baseline" /\ i.arg = ""

(***************************************************************************)
(* What the steps that are behind have left; a step of the command writes  *)
(* what no later one writes again.                                         *)
(***************************************************************************)
Done(st) ==
  /\ st = "config" => EnvGood(inv) /\ cfg = ConfigOf(inv)
  /\ st = "logging" => inv.flags.logging
  /\ st = "options" => FlagGood(inv) /\ opts = CliOptions(inv, WaitOf(inv))
  /\ st = "count" => CountGood(inv)
  /\ st = "path" => PathGood(inv)
  /\ st = "connect" => db = ConnectionOf(inv) /\ db.settings # Unreadable
  /\ st = "call" => Made(inv, OptionsOf(inv), reached)

Behind(n) ==
  /\ exit = "running" => todo = Left(Steps(inv), n)
  /\ \A k \in 1 .. n : Done(Steps(inv)[k])
  /\ reached # None => \E k \in 1 .. n : Steps(inv)[k] = "call"

CInv ==
  /\ inv \in Invocations
  /\ \E n \in 0 .. Len(Steps(inv)) : Behind(n)
  /\ inv.by = "library" => opts = inv.opts
  /\ exit = "error" /\ reached = None /\ inv.by = "cli" /\ inv.cmd \in DatabaseCommands
       => MistakenIn(inv) \/ ~TabFree(inv)

-----------------------------------------------------------------------------
(***************************************************************************)
(* The position in the steps.                                              *)
(***************************************************************************)
Stops == exit' # "running"
Moves(a) == exit' = "running" /\ todo' = Tail(todo) /\ Done(a)'

\* At a step the steps behind are done, and this one is not among them.
LEMMA AtStep ==
  ASSUME inv \in Invocations, NEW n \in 0 .. Len(Steps(inv)), Behind(n), NEW a, At(a)
  PROVE  /\ n + 1 \in 1 .. Len(Steps(inv)) /\ Steps(inv)[n + 1] = a /\ Tail(todo) = Left(Steps(inv), n + 1)
         /\ \A k \in 1 .. n : Steps(inv)[k] # a
         /\ \A b : Precedes(Steps(inv), b, a) => Done(b)
  <1>1. PICK s \in Seq(StepNames) : s = Steps(inv) /\ Len(s) \in Nat /\ InOrder(inv, s)
    BY StepsFacts
  <1>2. todo = Left(s, n) /\ todo # << >> /\ Head(todo) = a /\ \A k \in 1 .. n : Done(s[k])
    BY <1>1 DEF Behind, At
  <1>3. n + 1 \in 1 .. Len(s) /\ s[n + 1] = a /\ Tail(todo) = Left(s, n + 1)
    BY <1>1, <1>2, LeftFacts
  <1>4. \A k \in 1 .. n : s[k] # a
    BY <1>1, <1>3 DEF InOrder
  <1>5. \A b : Precedes(s, b, a) => Done(b)
    <2> SUFFICES ASSUME NEW b, Precedes(s, b, a) PROVE Done(b)
      OBVIOUS
    <2>1. PICK j \in 1 .. n + 1 - 1 : s[j] = b
      BY <1>1, <1>3 DEF Precedes
    <2>2. j \in 1 .. n
      OBVIOUS
    <2> QED BY <1>2, <2>1, <2>2
  <1> QED BY <1>1, <1>3, <1>4, <1>5

\* A step that stops the command, or does its part and moves on, keeps the position.
LEMMA Goes ==
  ASSUME inv \in Invocations, inv' = inv, NEW n \in 0 .. Len(Steps(inv)), Behind(n), NEW a, At(a),
         \A st \in StepNames : st # a /\ Done(st) => Done(st)',
         \/ Stops /\ (reached' # None => reached # None)
         \/ Moves(a) /\ (reached' # None => reached # None \/ a = "call")
  PROVE  (\E m \in 0 .. Len(Steps(inv)) : Behind(m))'
  <1>1. PICK s \in Seq(StepNames) : s = Steps(inv) /\ Len(s) \in Nat
    BY StepsFacts
  <1>2. s = Steps(inv')
    BY <1>1
  <1>3. /\ n + 1 \in 1 .. Len(s) /\ s[n + 1] = a /\ Tail(todo) = Left(s, n + 1)
        /\ \A k \in 1 .. n : s[k] # a
    BY <1>1, AtStep
  <1>4. \A k \in 1 .. n : Done(s[k])'
    <2> SUFFICES ASSUME NEW k \in 1 .. n PROVE Done(s[k])'
      OBVIOUS
    <2>1. Done(s[k]) /\ s[k] \in StepNames /\ s[k] # a
      <3>1. k \in 1 .. Len(s)
        BY <1>1
      <3> QED BY <1>1, <1>3, <3>1, ElementOfSeq DEF Behind
    <2> QED BY <2>1
  <1>5. reached # None => \E k \in 1 .. n : s[k] = "call"
    BY <1>1 DEF Behind
  <1>6. CASE Stops /\ (reached' # None => reached # None)
    <2>1. Behind(n)'
      BY <1>1, <1>2, <1>4, <1>5, <1>6 DEF Behind, Stops
    <2> QED BY <1>1, <1>2, <2>1
  <1>7. CASE Moves(a) /\ (reached' # None => reached # None \/ a = "call")
    <2>1. PICK m \in 0 .. Len(s) : m = n + 1 /\ 1 .. m = (1 .. n) \cup {m}
      BY <1>1, <1>3
    <2>2. todo' = Left(s, m)
      BY <1>3, <1>7, <2>1 DEF Moves
    <2>3. \A k \in 1 .. m : Done(s[k])'
      BY <1>3, <1>4, <1>7, <2>1 DEF Moves
    <2>4. reached' # None => \E k \in 1 .. m : s[k] = "call"
      BY <1>3, <1>5, <1>7, <2>1
    <2>5. Behind(m)'
      BY <1>1, <1>2, <2>2, <2>3, <2>4 DEF Behind
    <2> QED BY <1>1, <1>2, <2>1, <2>5
  <1> QED BY <1>6, <1>7

\* What the command and the step say of each other.
LEMMA StepOf ==
  ASSUME inv \in Invocations, NEW n \in 0 .. Len(Steps(inv)), Behind(n), NEW a, At(a)
  PROVE  /\ a \in {"config", "logging", "options", "count", "path", "connect", "slug", "files"} => inv.by = "cli"
         /\ a = "count" => inv.cmd = "down"
         /\ a = "path" => inv.cmd \in SourceCommands \cup {"new", "validate"}
         /\ a = "slug" => inv.cmd = "new"
         /\ a = "files" => inv.cmd \in {"new", "validate"}
         /\ a \in {"options", "connect", "call", "answer"} => inv.cmd \in DatabaseCommands
         /\ a = "answer" => Done("call")
         /\ inv.by = "cli" =>
              /\ a \in {"logging", "options", "count", "path", "connect", "call", "slug", "files"} => Done("config")
              /\ a = "call" => Done("options") /\ Done("connect") /\ Done("logging")
              /\ a = "call" /\ inv.cmd = "down" => Done("count")
              /\ a = "call" /\ inv.cmd \in SourceCommands => Done("path")
  <1>1. PICK s \in Seq(StepNames) : s = Steps(inv) /\ Len(s) \in Nat /\ InOrder(inv, s)
    BY StepsFacts
  <1>2. n + 1 \in 1 .. Len(s) /\ s[n + 1] = a /\ \A b : Precedes(s, b, a) => Done(b)
    BY <1>1, AtStep
  <1>3. PICK m \in 1 .. Len(s) : s[m] = a
    BY <1>2
  <1>4. /\ a \in {"config", "logging", "options", "count", "path", "connect", "slug", "files"} => inv.by = "cli"
        /\ a = "count" => inv.cmd = "down"
        /\ a = "path" => inv.cmd \in SourceCommands \cup {"new", "validate"}
        /\ a = "slug" => inv.cmd = "new"
        /\ a = "files" => inv.cmd \in {"new", "validate"}
        /\ a \in {"options", "connect", "call", "answer"} => inv.cmd \in DatabaseCommands
    BY <1>1, <1>3 DEF InOrder
  <1>5. /\ a = "answer" => Precedes(s, "call", a)
        /\ inv.by = "cli" =>
              /\ a \in {"logging", "options", "count", "path", "connect", "call", "slug", "files"} => Precedes(s, "config", a)
              /\ a = "call" => Precedes(s, "options", a) /\ Precedes(s, "connect", a) /\ Precedes(s, "logging", a)
              /\ a = "call" /\ inv.cmd = "down" => Precedes(s, "count", a)
              /\ a = "call" /\ inv.cmd \in SourceCommands => Precedes(s, "path", a)
    BY <1>1 DEF InOrder
  <1> QED BY <1>2, <1>4, <1>5

\* Nothing a step leaves alone comes undone.
LEMMA StaysDone ==
  ASSUME inv' = inv
  PROVE  /\ cfg' = cfg /\ opts' = opts /\ db' = db /\ reached' = reached => \A st : Done(st) => Done(st)'
         /\ opts' = opts /\ db' = db /\ reached' = reached => \A st : st # "config" /\ Done(st) => Done(st)'
         /\ cfg' = cfg /\ db' = db /\ reached' = reached => \A st : st # "options" /\ Done(st) => Done(st)'
         /\ cfg' = cfg /\ opts' = opts /\ reached' = reached => \A st : st # "connect" /\ Done(st) => Done(st)'
         /\ cfg' = cfg /\ opts' = opts /\ db' = db => \A st : st # "call" /\ Done(st) => Done(st)'
  BY DEF Done

-----------------------------------------------------------------------------
(***************************************************************************)
(* What each step needs to know.                                           *)
(***************************************************************************)
\* What the environment and the flags say of the wait, and the options built of it.
LEMMA WaitType ==
  ASSUME NEW i \in Invocations, i.by = "cli"
  PROVE  /\ EnvGood(i) => EnvWait(i) \in Int /\ EnvWait(i) > 0
         /\ EnvGood(i) /\ FlagGood(i) => WaitOf(i) \in Int
         /\ EnvGood(i) /\ FlagGood(i) => CliOptions(i, WaitOf(i)) \in Seq(Option)
         /\ EnvGood(i) /\ FlagGood(i) =>
              Configured(Options(CliOptions(i, WaitOf(i))), WaitOf(i), i.flags.lockID, i.flags.table, i.flags.schema, CliRun(i))
  <1>1. EnvGood(i) => EnvWait(i) \in Int /\ EnvWait(i) > 0
    <2>1. EnvGood(i) => \/ EnvWait(i) = cliLockTimeout
                        \/ \E d \in DOMAIN ParseDuration : EnvWait(i) = ParseDuration[d] /\ ParseDuration[d] > 0
      BY Zenon DEF EnvGood, EnvWait
    <2>2. cliLockTimeout \in Int /\ cliLockTimeout > 0
      BY CliAssumption
    <2> HIDE DEF EnvWait, EnvGood
    <2> QED BY <2>1, <2>2, DurationFacts
  <1>2. EnvGood(i) /\ FlagGood(i) => WaitOf(i) \in Int
    BY <1>1, DurationFacts DEF FlagGood, WaitOf
  <1>3. i.flags \in Flags
    BY InvocationFacts
  <1> QED BY <1>1, <1>2, <1>3, CliOptionsSay

\* The settings the command connects with.
LEMMA SettingsFacts ==
  ASSUME NEW i \in Invocations, i.by = "cli"
  PROVE  /\ SettingsOf(i) \in Discrete
         /\ i.env.settings \in Discrete /\ i.flags.sslmode \in Word
         /\ TabFree(i) => \A k \in KeySet : NoTab(SettingsOf(i)[k])
         /\ \A k \in KeySet : SettingsOf(i)[k] = IF i.flags.sslmode # << >> /\ k = "sslmode" THEN i.flags.sslmode ELSE i.env.settings[k]
  <1>1. i.env.settings \in Discrete /\ i.flags.sslmode \in Word
    BY InvocationFacts DEF Env, Flags, Discrete, Word, KeySet
  <1>2. SettingsOf(i) \in Discrete
    BY <1>1 DEF SettingsOf, Discrete
  <1>3. \A k \in KeySet : SettingsOf(i)[k] = IF i.flags.sslmode # << >> /\ k = "sslmode" THEN i.flags.sslmode ELSE i.env.settings[k]
    BY <1>1 DEF SettingsOf, Discrete
  <1>4. TabFree(i) => \A k \in KeySet : NoTab(SettingsOf(i)[k])
    BY <1>3 DEF TabFree
  <1> QED BY <1>1, <1>2, <1>3, <1>4

\* Without a tab in a setting the driver can read the connection string.
LEMMA Readable ==
  ASSUME NEW i \in Invocations, i.by = "cli", TabFree(i)
  PROVE  ConnectionOf(i).settings # Unreadable
  <1>1. PICK c \in Discrete : c = SettingsOf(i) /\ \A k \in KeySet : NoTab(c[k])
    BY SettingsFacts
  <1>2. ReadDSN(GetDataSource(c)) = {Pair(k, c[k]) : k \in {j \in KeySet : c[j] # << >>}}
    BY <1>1, SourceReads
  <1>3. {Pair(k, c[k]) : k \in {j \in KeySet : c[j] # << >>}} # Unreadable
    <2>1. ASSUME NEW k \in KeySet, c[k] # << >> PROVE Pair(k, c[k]) # <<"error", << >>>>
      BY <2>1 DEF Pair
    <2> QED BY <2>1 DEF Unreadable
  <1>4. {} # Unreadable
    BY DEF Unreadable
  <1>5. ConnectionOf(i).settings \in {{}, ReadDSN(GetDataSource(c))}
    BY <1>1 DEF ConnectionOf, Connection
  <1> QED BY <1>2, <1>3, <1>4, <1>5

\* firstNonEmpty is empty only if both are.
LEMMA FirstIs ==
  ASSUME NEW a, NEW b
  PROVE  firstNonEmpty(a, b) = "" => a = "" /\ b = ""
  BY DEF firstNonEmpty

\* Each way to fail is a mistake.
LEMMA Mistakes ==
  ASSUME NEW i \in Invocations, i.by = "cli"
  PROVE  /\ ~EnvGood(i) => MistakenIn(i)
         /\ ~FlagGood(i) => MistakenIn(i)
         /\ ~i.flags.logging => MistakenIn(i)
         /\ i.cmd = "down" /\ ~CountGood(i) => MistakenIn(i)
         /\ i.cmd \in SourceCommands /\ ~PathGood(i) => MistakenIn(i)
         /\ i.cmd = "baseline" /\ i.arg = "" => MistakenIn(i)
         /\ EnvGood(i) /\ FlagGood(i) /\ Faulty(CliOptions(i, WaitOf(i))) => MistakenIn(i)
  <1>1. ~EnvGood(i) => MistakenIn(i)
    BY DEF EnvGood, MistakenIn
  <1>2. ~FlagGood(i) => MistakenIn(i)
    BY DEF FlagGood, MistakenIn
  <1>3. ~i.flags.logging => MistakenIn(i)
    BY DEF MistakenIn
  <1>4. i.cmd = "down" /\ ~CountGood(i) => MistakenIn(i)
    <2>1. "2" \in DOMAIN Atoi /\ Atoi["2"] > 0
      BY DEF Atoi
    <2> QED BY <2>1 DEF CountGood, MistakenIn
  <1>5. i.cmd \in SourceCommands /\ ~PathGood(i) => MistakenIn(i)
    BY FirstIs DEF PathGood, MistakenIn
  <1>6. i.cmd = "baseline" /\ i.arg = "" => MistakenIn(i)
    BY DEF MistakenIn
  <1>7. ASSUME EnvGood(i), FlagGood(i), Faulty(CliOptions(i, WaitOf(i))) PROVE MistakenIn(i)
    <2>1. Configured(Options(CliOptions(i, WaitOf(i))), WaitOf(i), i.flags.lockID, i.flags.table, i.flags.schema, CliRun(i))
      BY <1>7, WaitType
    <2>2. WaitOf(i) < 0 \/ Unnameable(i.flags.table) \/ Unnameable(i.flags.schema)
      BY <1>7, <2>1 DEF Faulty, Configured
    <2>3. ASSUME WaitOf(i) < 0 PROVE MistakenIn(i)
      <3>1. EnvWait(i) \in Int /\ EnvWait(i) > 0 /\ WaitOf(i) \in Int
        BY <1>7, WaitType
      <3>2. i.flags.lockTimeout # "" /\ WaitOf(i) = ParseDuration[i.flags.lockTimeout]
        <4>1. WaitOf(i) # EnvWait(i)
          BY <2>3, <3>1
        <4> QED BY <4>1, Zenon DEF WaitOf
      <3>3. ~(ParseDuration[i.flags.lockTimeout] >= 0)
        <4>1. ~(WaitOf(i) >= 0)
          BY <2>3, <3>1
        <4> QED BY <3>2, <4>1, Zenon
      <3> QED BY <3>2, <3>3 DEF MistakenIn
    <2> QED BY <2>2, <2>3 DEF MistakenIn
  <1> QED BY <1>1, <1>2, <1>3, <1>4, <1>5, <1>6, <1>7

\* At the start nothing is behind.
LEMMA InitCInv == Init => CInv
  <1> SUFFICES ASSUME Init PROVE CInv
    OBVIOUS
  <1>1. PICK s \in Seq(StepNames) : s = Steps(inv) /\ Len(s) \in Nat
    BY StepsFacts DEF Init
  <1>2. Left(s, 0) = s
    BY <1>1, LeftFacts
  <1>3. Behind(0) /\ 0 \in 0 .. Len(s)
    BY <1>1, <1>2 DEF Init, Behind
  <1> QED BY <1>1, <1>3 DEF Init, CInv

-----------------------------------------------------------------------------
(***************************************************************************)
(* Each step keeps the invariant.                                          *)
(***************************************************************************)
\* A step that leaves the invocation and the options of a library call alone, and
\* that moves on or stops as it may.
Kept(a) ==
  /\ inv' = inv
  /\ \A st \in StepNames : st # a /\ Done(st) => Done(st)'
  /\ \/ Stops /\ (reached' # None => reached # None)
     \/ Moves(a) /\ (reached' # None => reached # None \/ a = "call")
  /\ inv.by = "library" => opts' = opts
  /\ exit' = "error" /\ reached' = None /\ inv.by = "cli" /\ inv.cmd \in DatabaseCommands
       => MistakenIn(inv) \/ ~TabFree(inv)

\* That is enough for the invariant.
LEMMA KeptIs ==
  ASSUME CInv, NEW a, At(a), Kept(a)
  PROVE  CInv'
  <1>1. inv \in Invocations /\ inv' = inv
    BY DEF CInv, Kept
  <1>2. PICK n \in 0 .. Len(Steps(inv)) : Behind(n)
    BY DEF CInv
  <1>3. (\E m \in 0 .. Len(Steps(inv)) : Behind(m))'
    BY <1>1, <1>2, Goes DEF Kept
  <1>4. (inv.by = "library" => opts = inv.opts)'
    BY <1>1 DEF CInv, Kept
  <1>5. (exit = "error" /\ reached = None /\ inv.by = "cli" /\ inv.cmd \in DatabaseCommands
           => MistakenIn(inv) \/ ~TabFree(inv))'
    <2>1. MistakenIn(inv)' <=> MistakenIn(inv)
      BY <1>1 DEF MistakenIn
    <2>2. TabFree(inv)' <=> TabFree(inv)
      BY <1>1 DEF TabFree
    <2> QED BY <1>1, <2>1, <2>2 DEF Kept
  <1> QED BY <1>1, <1>3, <1>4, <1>5 DEF CInv

\* A step that only checks: what it checks is what is done when it is behind.
LEMMA CheckedIs ==
  ASSUME NEW a, At(a), NEW good, Checked(good), inv' = inv, cfg' = cfg, opts' = opts, db' = db, reached' = reached,
         good => Done(a)',
         ~good => (inv.by = "cli" /\ inv.cmd \in DatabaseCommands => MistakenIn(inv))
  PROVE  Kept(a)
  <1>1. \A st \in StepNames : st # a /\ Done(st) => Done(st)'
    BY StaysDone
  <1>2. exit = "running"
    BY DEF At
  <1>3. CASE good
    BY <1>1, <1>2, <1>3 DEF Kept, Checked, Continue, Moves
  <1>4. CASE ~good
    BY <1>1, <1>2, <1>4 DEF Kept, Checked, Fail, Stops
  <1> QED BY <1>3, <1>4

\* NewConfig leaves what the environment says, or refuses a bad wait.
LEMMA ConfigKept ==
  ASSUME CInv, NewConfig
  PROVE  CInv'
  <1>1. inv \in Invocations /\ At("config") /\ inv' = inv /\ exit = "running"
    BY DEF CInv, NewConfig, At
  <1>2. PICK n \in 0 .. Len(Steps(inv)) : Behind(n)
    BY DEF CInv
  <1>3. inv.by = "cli"
    BY <1>1, <1>2, StepOf
  <1>4. opts' = opts /\ db' = db /\ reached' = reached
    BY DEF NewConfig
  <1>5. Checked(EnvGood(inv)) /\ cfg' = IF ~EnvGood(inv) THEN cfg ELSE ConfigOf(inv)
    BY DEF NewConfig, EnvGood, ConfigOf, EnvWait, EnvDSN
  <1>6. \A st \in StepNames : st # "config" /\ Done(st) => Done(st)'
    BY <1>1, <1>4, StaysDone
  <1>7. CASE EnvGood(inv)
    <2>1. Done("config")'
      BY <1>1, <1>5, <1>7 DEF Done, EnvGood, ConfigOf, EnvWait, EnvDSN
    <2>2. Moves("config") /\ exit' # "error"
      BY <1>1, <1>5, <1>7, <2>1 DEF Checked, Continue, Moves
    <2> QED BY <1>1, <1>4, <1>6, <2>2, KeptIs DEF Kept
  <1>8. CASE ~EnvGood(inv)
    <2>1. Stops
      BY <1>5, <1>8 DEF Checked, Fail, Stops
    <2>2. MistakenIn(inv)
      BY <1>1, <1>3, <1>8, Mistakes
    <2> QED BY <1>1, <1>4, <1>6, <2>1, <2>2, KeptIs DEF Kept
  <1> QED BY <1>7, <1>8

\* setupLogging refuses bad flags only.
LEMMA LoggingKept ==
  ASSUME CInv, setupLogging
  PROVE  CInv'
  <1>1. inv \in Invocations /\ At("logging") /\ inv' = inv
    BY DEF CInv, setupLogging
  <1>2. PICK n \in 0 .. Len(Steps(inv)) : Behind(n)
    BY DEF CInv
  <1>3. inv.by = "cli"
    BY <1>1, <1>2, StepOf
  <1>4. cfg' = cfg /\ opts' = opts /\ db' = db /\ reached' = reached /\ Checked(inv.flags.logging)
    BY DEF setupLogging
  <1>5. inv.flags.logging => Done("logging")'
    BY <1>1 DEF Done
  <1>6. ~inv.flags.logging => MistakenIn(inv)
    BY <1>1, <1>3, Mistakes
  <1>7. Kept("logging")
    BY <1>1, <1>4, <1>5, <1>6, CheckedIs
  <1> QED BY <1>1, <1>7, KeptIs

\* The count of down is checked before anything is connected.
LEMMA CountKept ==
  ASSUME CInv, ParseCount
  PROVE  CInv'
  <1>1. inv \in Invocations /\ At("count") /\ inv' = inv
    BY DEF CInv, ParseCount
  <1>2. PICK n \in 0 .. Len(Steps(inv)) : Behind(n)
    BY DEF CInv
  <1>3. inv.by = "cli" /\ inv.cmd = "down"
    BY <1>1, <1>2, StepOf
  <1>4. cfg' = cfg /\ opts' = opts /\ db' = db /\ reached' = reached /\ Checked(CountGood(inv))
    BY DEF ParseCount, CountGood
  <1>5. CountGood(inv) => Done("count")'
    BY <1>1 DEF Done, CountGood
  <1>6. ~CountGood(inv) => MistakenIn(inv)
    BY <1>1, <1>3, Mistakes
  <1>7. Kept("count")
    BY <1>1, <1>4, <1>5, <1>6, CheckedIs
  <1> QED BY <1>1, <1>7, KeptIs

\* The commands that read files have a path from here on.
LEMMA PathKept ==
  ASSUME CInv, resolvePath
  PROVE  CInv'
  <1>1. inv \in Invocations /\ At("path") /\ inv' = inv
    BY DEF CInv, resolvePath
  <1>2. PICK n \in 0 .. Len(Steps(inv)) : Behind(n)
    BY DEF CInv
  <1>3. inv.by = "cli" /\ inv.cmd \in SourceCommands \cup {"new", "validate"} /\ Done("config")
    BY <1>1, <1>2, StepOf
  <1>4. cfg.path = inv.env.path
    BY <1>3 DEF Done, ConfigOf
  <1>5. cfg' = cfg /\ opts' = opts /\ db' = db /\ reached' = reached /\ Checked(PathGood(inv))
    BY <1>4 DEF resolvePath, PathGood
  <1>6. PathGood(inv) => Done("path")'
    BY <1>1 DEF Done, PathGood
  <1>7. ~PathGood(inv) => (inv.cmd \in DatabaseCommands => MistakenIn(inv))
    <2>1. inv.cmd \in DatabaseCommands => inv.cmd \in SourceCommands
      BY <1>3 DEF DatabaseCommands, SourceCommands
    <2> QED BY <1>1, <1>3, <2>1, Mistakes
  <1>8. Kept("path")
    BY <1>1, <1>5, <1>6, <1>7, CheckedIs
  <1> QED BY <1>1, <1>8, KeptIs

\* buildOptions leaves the options the flags and the environment say.
LEMMA OptionsKept ==
  ASSUME CInv, buildOptions
  PROVE  CInv'
  <1>1. inv \in Invocations /\ At("options") /\ inv' = inv /\ exit = "running"
    BY DEF CInv, buildOptions, At
  <1>2. PICK n \in 0 .. Len(Steps(inv)) : Behind(n)
    BY DEF CInv
  <1>3. inv.by = "cli" /\ Done("config")
    BY <1>1, <1>2, StepOf
  <1>4. cfg' = cfg /\ db' = db /\ reached' = reached
    BY DEF buildOptions
  <1>5. cfg.lockTimeout = EnvWait(inv)
    BY <1>3 DEF Done, ConfigOf
  <1>6. Checked(FlagGood(inv)) /\ opts' = IF ~FlagGood(inv) THEN opts ELSE CliOptions(inv, WaitOf(inv))
    BY <1>5 DEF buildOptions, FlagGood, CliOptions, Given, WaitOf
  <1>7. \A st \in StepNames : st # "options" /\ Done(st) => Done(st)'
    BY <1>1, <1>4, StaysDone
  <1>8. CASE FlagGood(inv)
    <2>1. Done("options")'
      <3>1. FlagGood(inv') /\ opts' = CliOptions(inv', WaitOf(inv'))
        BY <1>1, <1>6, <1>8
      <3> QED BY <3>1 DEF Done, FlagGood, CliOptions, WaitOf, EnvWait
    <2>2. Moves("options") /\ exit' # "error"
      BY <1>1, <1>6, <1>8, <2>1 DEF Checked, Continue, Moves
    <2> QED BY <1>1, <1>3, <1>4, <1>7, <2>2, KeptIs DEF Kept
  <1>9. CASE ~FlagGood(inv)
    <2>1. Stops
      BY <1>6, <1>9 DEF Checked, Fail, Stops
    <2>2. MistakenIn(inv)
      BY <1>1, <1>3, <1>9, Mistakes
    <2> QED BY <1>1, <1>3, <1>4, <1>7, <2>1, <2>2, KeptIs DEF Kept
  <1> QED BY <1>8, <1>9

\* connectDB leaves a connection to the database named.
LEMMA ConnectKept ==
  ASSUME CInv, connectDB
  PROVE  CInv'
  <1>1. inv \in Invocations /\ At("connect") /\ inv' = inv /\ exit = "running"
    BY DEF CInv, connectDB, At
  <1>2. PICK n \in 0 .. Len(Steps(inv)) : Behind(n)
    BY DEF CInv
  <1>3. inv.by = "cli" /\ Done("config")
    BY <1>1, <1>2, StepOf
  <1>4. cfg' = cfg /\ opts' = opts /\ reached' = reached
    BY DEF connectDB
  <1>5. cfg.dsn = EnvDSN(inv) /\ cfg.settings = inv.env.settings
    BY <1>3 DEF Done, ConfigOf
  <1>6. OpenAndPing(ConnectionOf(inv))
    BY <1>5 DEF connectDB, ConnectionOf, Settings, SettingsOf
  <1>7. \A st \in StepNames : st # "connect" /\ Done(st) => Done(st)'
    BY <1>1, <1>4, StaysDone
  <1>8. CASE ConnectionOf(inv).settings = Unreadable /\ Fail
    <2>1. Stops
      BY <1>8 DEF Fail, Stops
    <2>2. ~TabFree(inv)
      BY <1>1, <1>3, <1>8, Readable
    <2> QED BY <1>1, <1>4, <1>7, <2>1, <2>2, KeptIs DEF Kept
  <1>9. CASE exit' = "unreachable"
    <2>1. Stops /\ exit' # "error"
      BY <1>9 DEF Stops
    <2> QED BY <1>1, <1>4, <1>7, <2>1, KeptIs DEF Kept
  <1>10. CASE ConnectionOf(inv).settings # Unreadable /\ Continue /\ db' = ConnectionOf(inv)
    <2>1. Done("connect")'
      <3>1. db' = ConnectionOf(inv') /\ db'.settings # Unreadable
        BY <1>1, <1>10
      <3> QED BY <3>1 DEF Done, ConnectionOf, SettingsOf, EnvDSN
    <2>2. Moves("connect") /\ exit' # "error"
      BY <1>1, <1>10, <2>1 DEF Continue, Moves
    <2> QED BY <1>1, <1>4, <1>7, <2>2, KeptIs DEF Kept
  <1> QED BY <1>6, <1>8, <1>9, <1>10 DEF OpenAndPing

\* The call carries what the steps before it left.
LEMMA CallKept ==
  ASSUME CInv, Call
  PROVE  CInv'
  <1>1. inv \in Invocations /\ At("call") /\ inv' = inv /\ exit = "running"
    BY DEF CInv, Call, At
  <1>2. PICK n \in 0 .. Len(Steps(inv)) : Behind(n)
    BY DEF CInv
  <1>3. /\ inv.cmd \in DatabaseCommands
        /\ inv.by = "cli" => /\ Done("config") /\ Done("options")
                             /\ inv.cmd = "down" => Done("count")
    BY <1>1, <1>2, StepOf
  <1>4. cfg' = cfg /\ opts' = opts /\ db' = db
    BY DEF Call
  <1>5. opts = OptionsOf(inv) /\ opts \in Seq(Option)
    <2>1. inv.by = "library" => opts = inv.opts /\ inv.opts \in Seq(Option)
      BY <1>1, InvocationFacts DEF CInv
    <2>2. inv.by = "cli" => opts = CliOptions(inv, WaitOf(inv)) /\ opts \in Seq(Option)
      BY <1>1, <1>3, WaitType DEF Done
    <2>3. inv.by \in {"cli", "library"}
      BY <1>1, InvocationFacts
    <2> QED BY <2>1, <2>2, <2>3 DEF OptionsOf
  <1>6. inv.cmd = "down" /\ inv.arg # "all" => Counted(inv) \in Int
    <2>1. inv.by = "library" => inv.count \in Int
      BY <1>1, InvocationFacts
    <2>2. inv.by = "cli" /\ inv.cmd = "down" /\ inv.arg # "all" => Atoi[inv.arg] \in Int
      BY <1>3, AtoiFacts DEF Done, CountGood
    <2>3. inv.by \in {"cli", "library"}
      BY <1>1, InvocationFacts
    <2> QED BY <2>1, <2>2, <2>3 DEF Counted
  <1> DEFINE given == inv.by = "cli" \/ inv.given
             r == CalledBy(given)
  <1>7. given \in BOOLEAN
    OBVIOUS
  <1>8. Checked(r # Refused) /\ reached' = IF r = Refused THEN None ELSE r
    BY DEF Call
  <1>9. \/ Made(inv, opts, r)
        \/ /\ r = Refused
           /\ given => \/ Faulty(opts)
                       \/ inv.cmd = "baseline" /\ inv.arg = ""
                       \/ inv.cmd = "down" /\ inv.arg # "all" /\ Counted(inv) <= 0
    BY <1>1, <1>3, <1>5, <1>6, <1>7, CallIs
  <1>10. inv.by = "cli" => given
    OBVIOUS
  <1> HIDE DEF r, given
  <1>11. \A st \in StepNames : st # "call" /\ Done(st) => Done(st)'
    BY <1>1, <1>4, StaysDone
  <1>12. CASE Made(inv, opts, r)
    <2>1. r \in Calls
      BY <1>12 DEF Made, Handed
    <2>2. r # Refused /\ reached' = r
      BY <1>8, <2>1, RefusedIsNoCall
    <2>3. Made(inv', OptionsOf(inv'), reached')
      BY <1>1, <1>5, <1>12, <2>2
    <2>4. Done("call")'
      BY <2>3 DEF Done, OptionsOf, CliOptions, WaitOf, EnvWait
    <2>5. Moves("call") /\ exit' # "error"
      BY <1>1, <1>8, <2>2, <2>4 DEF Checked, Continue, Moves
    <2> QED BY <1>1, <1>4, <1>11, <2>5, KeptIs DEF Kept
  <1>13. CASE /\ r = Refused
              /\ given => \/ Faulty(opts)
                          \/ inv.cmd = "baseline" /\ inv.arg = ""
                          \/ inv.cmd = "down" /\ inv.arg # "all" /\ Counted(inv) <= 0
    <2>1. Stops /\ reached' = None
      BY <1>8, <1>13 DEF Checked, Fail, Stops
    <2>2. ASSUME inv.by = "cli" PROVE MistakenIn(inv)
      <3>1. CASE Faulty(opts)
        <4>1. EnvGood(inv) /\ FlagGood(inv) /\ opts = CliOptions(inv, WaitOf(inv))
          BY <1>3, <2>2 DEF Done
        <4> QED BY <1>1, <2>2, <3>1, <4>1, Mistakes
      <3>2. CASE inv.cmd = "baseline" /\ inv.arg = ""
        BY <1>1, <2>2, <3>2, Mistakes
      <3>3. CASE inv.cmd = "down" /\ inv.arg # "all" /\ Counted(inv) <= 0
        <4>1. CountGood(inv) /\ Counted(inv) = Atoi[inv.arg] /\ Counted(inv) \in Int
          BY <1>3, <1>6, <2>2, <3>3 DEF Done, Counted
        <4>2. ~(Counted(inv) > 0)
          BY <3>3, <4>1
        <4> QED BY <3>3, <4>1, <4>2 DEF CountGood
      <3> QED BY <1>10, <1>13, <2>2, <3>1, <3>2, <3>3
    <2> QED BY <1>1, <1>4, <1>11, <2>1, <2>2, KeptIs DEF Kept
  <1> QED BY <1>9, <1>12, <1>13

\* The answer changes nothing of it.
LEMMA AnswerKept ==
  ASSUME CInv, Answer
  PROVE  CInv'
  <1>1. inv \in Invocations /\ At("answer") /\ inv' = inv
    BY DEF CInv, Answer
  <1>2. PICK n \in 0 .. Len(Steps(inv)) : Behind(n)
    BY DEF CInv
  <1>3. cfg' = cfg /\ opts' = opts /\ db' = db /\ reached' = reached
    BY DEF Answer
  <1>4. reached # None
    <2>1. Done("call")
      BY <1>1, <1>2, StepOf
    <2>2. reached \in Calls
      BY <2>1 DEF Done, Made, Handed
    <2> QED BY <2>2, NoneAssumption
  <1>5. Stops
    BY DEF Answer, Stops
  <1>6. \A st \in StepNames : st # "answer" /\ Done(st) => Done(st)'
    BY <1>1, <1>3, StaysDone
  <1> QED BY <1>1, <1>3, <1>4, <1>5, <1>6, KeptIs DEF Kept

\* Nor do the steps of new and validate that follow.
LEMMA FilesKept ==
  ASSUME CInv, MakeSlug \/ Files
  PROVE  CInv'
  <1>1. PICK a \in {"slug", "files"} : At(a)
    BY DEF MakeSlug, Files
  <1>2. inv \in Invocations /\ inv' = inv /\ exit = "running"
    BY <1>1 DEF CInv, MakeSlug, Files, At
  <1>3. PICK n \in 0 .. Len(Steps(inv)) : Behind(n)
    BY DEF CInv
  <1>4. inv.cmd \in {"new", "validate"}
    BY <1>1, <1>2, <1>3, StepOf
  <1>5. inv.cmd \notin DatabaseCommands
    BY <1>4 DEF DatabaseCommands, SourceCommands
  <1>6. cfg' = cfg /\ opts' = opts /\ db' = db /\ reached' = reached
    BY DEF MakeSlug, Files
  <1>7. \A st \in StepNames : st # a /\ Done(st) => Done(st)'
    BY <1>2, <1>6, StaysDone
  <1>8. Stops \/ Moves(a)
    <2>1. Done(a)'
      BY <1>1 DEF Done
    <2> QED BY <1>2, <2>1 DEF MakeSlug, Files, Checked, Continue, Fail, Stops, Moves
  <1> QED BY <1>1, <1>2, <1>5, <1>6, <1>7, <1>8, KeptIs DEF Kept

\* Every step keeps the invariant.
LEMMA NextCInv == CInv /\ [Next]_vars => CInv'
  <1> SUFFICES ASSUME CInv, [Next]_vars PROVE CInv'
    OBVIOUS
  <1>1. CASE UNCHANGED vars
    BY <1>1 DEF CInv, vars, Behind, Done, MistakenIn, TabFree
  <1> QED BY <1>1, ConfigKept, LoggingKept, OptionsKept, CountKept, PathKept, ConnectKept, CallKept, AnswerKept, FilesKept
          DEF Next

-----------------------------------------------------------------------------
(***************************************************************************)
(* The theorems about calls.                                               *)
(***************************************************************************)
\* The invariant holds for every set of invocations.
LEMMA SpecCInv == Spec => []CInv
  BY InitCInv, NextCInv, PTL DEF Spec

\* When the service has been called, everything before the call is behind.
LEMMA Reached ==
  ASSUME CInv, reached # None
  PROVE  /\ inv \in Invocations /\ inv.by \in {"cli", "library"} /\ inv.cmd \in DatabaseCommands
         /\ Made(inv, OptionsOf(inv), reached)
         /\ inv.by = "cli" => /\ EnvGood(inv) /\ FlagGood(inv) /\ db = ConnectionOf(inv)
                              /\ inv.cmd = "down" => CountGood(inv)
  <1>1. inv \in Invocations
    BY DEF CInv
  <1>2. PICK n \in 0 .. Len(Steps(inv)) : Behind(n)
    BY DEF CInv
  <1>3. PICK s \in Seq(StepNames) : s = Steps(inv) /\ Len(s) \in Nat /\ InOrder(inv, s)
    BY <1>1, StepsFacts
  <1>4. PICK k \in 1 .. n : s[k] = "call"
    BY <1>2, <1>3 DEF Behind
  <1>5. \A b : Precedes(s, b, "call") => Done(b)
    <2> SUFFICES ASSUME NEW b, Precedes(s, b, "call") PROVE Done(b)
      OBVIOUS
    <2>1. PICK j \in 1 .. k - 1 : s[j] = b
      BY <1>3, <1>4 DEF Precedes
    <2>2. j \in 1 .. n
      OBVIOUS
    <2> QED BY <1>2, <1>3, <2>1, <2>2 DEF Behind
  <1>6. Done("call")
    BY <1>2, <1>3, <1>4 DEF Behind
  <1>7. inv.cmd \in DatabaseCommands
    <2>1. k \in 1 .. Len(s)
      BY <1>3
    <2> QED BY <1>3, <1>4, <2>1 DEF InOrder
  <1>8. inv.by = "cli" => /\ Done("config") /\ Done("options") /\ Done("connect")
                          /\ inv.cmd = "down" => Done("count")
    BY <1>3, <1>5 DEF InOrder
  <1> QED BY <1>1, <1>6, <1>7, <1>8, InvocationFacts DEF Done

\* What the properties say of a caller's options is what OptionsSay says.
LEMMA AskedIs ==
  ASSUME NEW w
  PROVE  /\ Asked(w) <=> Has(inv.opts, w)
         /\ LastOf(w) = LastIn(inv.opts, w)
  BY DEF Asked, Has, LastOf, LastIn, Setting

\* The configuration a call of the command has reached the service with.
LEMMA CliConfigured ==
  ASSUME CInv, reached # None, inv.by = "cli"
  PROVE  Configured(Options(OptionsOf(inv)), WaitOf(inv), inv.flags.lockID, inv.flags.table, inv.flags.schema, CliRun(inv))
  <1>1. OptionsOf(inv) = CliOptions(inv, WaitOf(inv))
    BY DEF OptionsOf
  <1> QED BY <1>1, Reached, WaitType

\* The configuration a call of the library has reached the service with.
LEMMA LibraryConfigured ==
  ASSUME CInv, reached # None, inv.by # "cli"
  PROVE  LET c == Options(OptionsOf(inv))
         IN /\ c.lockTimeout = IF Asked("lockTimeout") THEN LastOf("lockTimeout") ELSE 0
            /\ c.lockTimeoutSet <=> Asked("lockTimeout")
            /\ c.lockID = IF Asked("lockID") THEN LastOf("lockID") ELSE 0
            /\ c.table.name = IF Asked("table") THEN LastOf("table") ELSE << >>
            /\ c.table.schema = IF Asked("schema") THEN LastOf("schema") ELSE << >>
            /\ c.run = {f \in RunFlags : Asked(f)}
            /\ c \in Config
  <1>1. inv.by = "library" /\ OptionsOf(inv) = inv.opts /\ inv.opts \in Seq(Option)
    BY Reached, InvocationFacts DEF OptionsOf
  <1> QED BY <1>1, OptionsSay, OptionsGo, AskedIs DEF Said

\* Whoever calls, and with whatever flags, options and counts: a rollback of
\* everything is reached only from `down all` or DownAll, any other count is the
\* one asked for, and Reconcile may only undo what the caller allowed.
THEOREM OnlyAskedDestruction == Spec => []DestructionIsAskedFor
  <1>1. CInv => DestructionIsAskedFor
    <2> SUFFICES ASSUME CInv, reached # None
                 PROVE  /\ reached.op = "rollback" =>
                             IF reached.count <= 0 THEN inv.cmd = "down" /\ inv.arg = "all"
                             ELSE inv.cmd = "down" /\ inv.arg # "all" /\ reached.count = Count
                        /\ "rollback" \in reached.run =>
                             IF Cli THEN inv.cmd = "reconcile" /\ "rollback" \in inv.flags.allow ELSE Asked("rollback")
                        /\ "emptySource" \in reached.run => ~Cli /\ Asked("emptySource")
      BY DEF DestructionIsAskedFor
    <2>1. PICK op \in Operations, count \in Int, run \in SUBSET RunFlags :
               /\ Handed(reached, OptionsOf(inv), op, count, run)
               /\ op = "rollback" => /\ inv.cmd = "down"
                                     /\ inv.arg = "all" => count = -1
                                     /\ inv.arg # "all" => count > 0 /\ count = Counted(inv)
               /\ run # {} => inv.cmd \in {"reconcile", "plan"} /\ run = Options(OptionsOf(inv)).run
      BY Reached DEF Made
    <2>2. reached.op = op /\ reached.count = count /\ reached.run = run
      BY <2>1 DEF Handed
    <2>3. reached.op = "rollback" =>
             IF reached.count <= 0 THEN inv.cmd = "down" /\ inv.arg = "all"
             ELSE inv.cmd = "down" /\ inv.arg # "all" /\ reached.count = Count
      <3>1. Counted(inv) = Count
        BY DEF Counted, Count
      <3> QED BY <2>1, <2>2, <3>1
    <2>4. CASE inv.by = "cli"
      <3>1. Options(OptionsOf(inv)).run = CliRun(inv)
        BY <2>4, CliConfigured DEF Configured
      <3>2. \A f \in run : f \in CliRun(inv)
        BY <2>1, <3>1
      <3> QED BY <2>2, <2>3, <2>4, <3>2 DEF CliRun, Cli
    <2>5. CASE inv.by # "cli"
      <3>1. Options(OptionsOf(inv)).run = {f \in RunFlags : Asked(f)}
        BY <2>5, LibraryConfigured
      <3>2. \A f \in run : Asked(f)
        BY <2>1, <3>1
      <3> QED BY <2>2, <2>3, <2>5, <3>2 DEF Cli
    <2> QED BY <2>4, <2>5
  <1> QED BY <1>1, SpecCInv, PTL

\* The lock a call takes has the key and the wait that were said, by flag,
\* environment, option or default; the zero that means "unset" in one layer and
\* "for ever" in the next is never taken for the other.
THEOREM TheLockSaid == Spec => []LockIsTheOneSaid
  <1>1. CInv => LockIsTheOneSaid
    <2> SUFFICES ASSUME CInv, reached # None PROVE LockIsTheOneSaid
      BY DEF LockIsTheOneSaid
    <2> DEFINE c == Options(OptionsOf(inv))
    <2>1. c.lockTimeout >= 0 /\ reached.lock = NewPostgresFromDB(c)
      BY Reached DEF Made, Handed
    <2>2. CASE inv.by = "cli"
      <3>1. c.lockTimeout = WaitOf(inv) /\ c.lockTimeoutSet /\ c.lockID = inv.flags.lockID
        BY <2>2, CliConfigured DEF Configured
      <3> HIDE DEF c
      <3>2. /\ reached.lock.wait = WaitOf(inv) /\ WaitOf(inv) >= 0
            /\ reached.lock.key = IF inv.flags.lockID = 0 THEN defaultLockID ELSE inv.flags.lockID
        BY <2>1, <3>1 DEF NewPostgresFromDB
      <3>3. WaitOf(inv) = IF inv.flags.lockTimeout # "" THEN ParseDuration[inv.flags.lockTimeout]
                          ELSE IF inv.env.lockTimeout # "" THEN ParseDuration[inv.env.lockTimeout]
                          ELSE cliLockTimeout
        BY Zenon DEF WaitOf, EnvWait
      <3> QED BY <2>2, <3>2, <3>3 DEF LockIsTheOneSaid, Cli
    <2>3. CASE inv.by # "cli"
      <3>1. /\ c.lockTimeout = IF Asked("lockTimeout") THEN LastOf("lockTimeout") ELSE 0
            /\ c.lockTimeoutSet <=> Asked("lockTimeout")
            /\ c.lockID = IF Asked("lockID") THEN LastOf("lockID") ELSE 0
        BY <2>3, LibraryConfigured
      <3> HIDE DEF c
      <3>2. reached.lock.wait = IF Asked("lockTimeout") THEN LastOf("lockTimeout") ELSE defaultLockTimeout
        BY <2>1, <3>1 DEF NewPostgresFromDB
      <3>3. reached.lock.key = IF c.lockID = 0 THEN defaultLockID ELSE c.lockID
        BY <2>1 DEF NewPostgresFromDB
      <3>4. reached.lock.wait >= 0
        BY <2>1, <3>1, <3>2, DefaultsAssumption
      <3> QED BY <2>3, <3>1, <3>2, <3>3, <3>4 DEF LockIsTheOneSaid, Cli
    <2> QED BY <2>2, <2>3
  <1> QED BY <1>1, SpecCInv, PTL

\* For every schema and table name, of any length and any characters: what
\* resolve writes into the statements is read by PostgreSQL as exactly these.
THEOREM TheTableNamed == Spec => []TableIsTheOneNamed
  <1>1. CInv => TableIsTheOneNamed
    <2> SUFFICES ASSUME CInv, reached # None PROVE TableIsTheOneNamed
      BY DEF TableIsTheOneNamed
    <2> DEFINE c == Options(OptionsOf(inv))
    <2>1. ReadReference(reached.table) = Reference(c.table.schema, c.table.name)
      BY Reached DEF Made, Handed
    <2>2. CASE inv.by = "cli"
      <3>1. c.table.name = inv.flags["table"] /\ c.table.schema = inv.flags["schema"]
        BY <2>2, CliConfigured DEF Configured
      <3> HIDE DEF c
      <3> QED BY <2>1, <2>2, <3>1 DEF TableIsTheOneNamed, Cli, Reference, Named
    <2>3. CASE inv.by # "cli"
      <3>1. /\ c.table.name = IF Asked("table") THEN LastOf("table") ELSE << >>
            /\ c.table.schema = IF Asked("schema") THEN LastOf("schema") ELSE << >>
        BY <2>3, LibraryConfigured
      <3> HIDE DEF c
      <3> QED BY <2>1, <2>3, <3>1 DEF TableIsTheOneNamed, Cli, Reference, Named
    <2> QED BY <2>2, <2>3
  <1> QED BY <1>1, SpecCInv, PTL

\* Unless a discrete setting has a tab in it, which quoteDSNValue does not quote, a
\* command fails before its call only for a mistake in what it uses.
THEOREM OnlyMistakes == Spec => [](TabFree(inv) => OnlyMistakesAreRefused)
  <1>1. CInv => (TabFree(inv) => OnlyMistakesAreRefused)
    BY DEF CInv, OnlyMistakesAreRefused, MistakenIn, Cli
  <1> QED BY <1>1, SpecCInv, PTL

\* The first of three that says something.
Saying(said, nothing) == {k \in DOMAIN said : said[k] # nothing}
FirstSaid(said, nothing) ==
  said[CHOOSE k \in Saying(said, nothing) : \A j \in Saying(said, nothing) : k <= j]

\* firstNonEmpty, twice, is the first of the three.
LEMMA FirstOfThree ==
  ASSUME NEW said, DOMAIN said = 1 .. 3, NEW e, NEW first,
         first = IF said[1] # e THEN said[1] ELSE IF said[2] # e THEN said[2] ELSE said[3]
  PROVE  IF Saying(said, e) # {} THEN first # e /\ first = FirstSaid(said, e) ELSE first = e
  <1> DEFINE named == Saying(said, e)
             least == CHOOSE k \in named : \A j \in named : k <= j
  <1>1. \A k : k \in named <=> k \in 1 .. 3 /\ said[k] # e
    BY DEF Saying
  <1>2. FirstSaid(said, e) = said[least]
    BY DEF FirstSaid
  <1> HIDE DEF named
  <1>3. ASSUME NEW m \in named, \A j \in named : m <= j PROVE least = m
    <2>1. least \in named /\ \A j \in named : least <= j
      BY <1>3
    <2>2. \A k \in named : k \in Int
      BY <1>1
    <2> HIDE DEF least
    <2>3. least <= m /\ m <= least /\ least \in Int /\ m \in Int
      BY <1>3, <2>1, <2>2
    <2> QED BY <2>3
  <1> HIDE DEF least
  <1>4. CASE said[1] # e
    <2>1. 1 \in named /\ \A j \in named : 1 <= j
      BY <1>1, <1>4
    <2>2. least = 1
      BY <1>3, <2>1
    <2> QED BY <1>2, <1>4, <2>1, <2>2 DEF named
  <1>5. CASE said[1] = e /\ said[2] # e
    <2>1. 2 \in named /\ \A j \in named : 2 <= j
      BY <1>1, <1>5
    <2>2. least = 2
      BY <1>3, <2>1
    <2> QED BY <1>2, <1>5, <2>1, <2>2 DEF named
  <1>6. CASE said[1] = e /\ said[2] = e /\ said[3] # e
    <2>1. 3 \in named /\ \A j \in named : 3 <= j
      BY <1>1, <1>6
    <2>2. least = 3
      BY <1>3, <2>1
    <2> QED BY <1>2, <1>6, <2>1, <2>2 DEF named
  <1>7. CASE said[1] = e /\ said[2] = e /\ said[3] = e
    <2>1. named = {}
      BY <1>1, <1>7
    <2> QED BY <1>7, <2>1 DEF named
  <1> QED BY <1>4, <1>5, <1>6, <1>7

\* A command connects to the database named by the first of --dsn, DATABASE_URL
\* and POSTGRES_DSN, and else with exactly the discrete settings: whatever
\* characters are in them, tabs excepted, the driver reads the string of
\* GetDataSource back as the settings it was built of.
THEOREM TheConnectionGiven == Spec => [](TabFree(inv) => ConnectionIsTheOneGiven)
  <1>1. CInv => (TabFree(inv) => ConnectionIsTheOneGiven)
    <2> SUFFICES ASSUME CInv, TabFree(inv), inv.by = "cli", reached # None PROVE ConnectionIsTheOneGiven
      BY DEF ConnectionIsTheOneGiven, Cli
    <2>1. inv \in Invocations /\ db = ConnectionOf(inv)
      BY Reached
    <2> DEFINE said == <<inv.flags.dsn, inv.env.databaseURL, inv.env.postgresDSN>>
               named == {k \in DOMAIN said : said[k] # ""}
               env == inv.env.settings
               ssl == inv.flags.sslmode
               first == firstNonEmpty(inv.flags.dsn, EnvDSN(inv))
               given == {k \in DOMAIN env : env[k] # << >>}
               flag == IF ssl = << >> THEN {} ELSE {"sslmode"}
    <2>2. /\ db.dsn = first
          /\ first = "" => db.settings = ReadDSN(GetDataSource(SettingsOf(inv)))
      BY <2>1 DEF ConnectionOf, Connection
    <2>3. IF named # {} THEN first # "" /\ first = said[CHOOSE k \in named : \A j \in named : k <= j] ELSE first = ""
      <3>1. PICK t : t = said
        OBVIOUS
      <3>2. DOMAIN t = 1 .. 3 /\ t[1] = inv.flags.dsn /\ t[2] = inv.env.databaseURL /\ t[3] = inv.env.postgresDSN
        BY <3>1
      <3>3. first = IF t[1] # "" THEN t[1] ELSE IF t[2] # "" THEN t[2] ELSE t[3]
        BY <3>2 DEF EnvDSN, firstNonEmpty
      <3> HIDE DEF first, said
      <3>4. IF Saying(t, "") # {} THEN first # "" /\ first = FirstSaid(t, "") ELSE first = ""
        <4>1. PICK e, w : e = "" /\ w = first
          OBVIOUS
        <4>2. w = IF t[1] # e THEN t[1] ELSE IF t[2] # e THEN t[2] ELSE t[3]
          BY <3>3, <4>1, Zenon
        <4>3. IF Saying(t, e) # {} THEN w # e /\ w = FirstSaid(t, e) ELSE w = e
          BY <3>2, <4>2, FirstOfThree
        <4> QED BY <4>1, <4>3, Zenon
      <3> QED BY <3>1, <3>4 DEF Saying, FirstSaid
    <2>4. ReadDSN(GetDataSource(SettingsOf(inv))) = {<<k, env[k]>> : k \in given \ flag} \cup {<<k, ssl>> : k \in flag}
      <3>1. PICK c \in Discrete : /\ c = SettingsOf(inv) /\ \A k \in KeySet : NoTab(c[k])
                                  /\ \A k \in KeySet : c[k] = IF ssl # << >> /\ k = "sslmode" THEN ssl ELSE env[k]
        BY <2>1, SettingsFacts
      <3>2. ReadDSN(GetDataSource(c)) = {Pair(k, c[k]) : k \in {j \in KeySet : c[j] # << >>}}
        BY <3>1, SourceReads
      <3>3. DOMAIN env = KeySet /\ "sslmode" \in KeySet
        BY <2>1, SettingsFacts, KeysFacts DEF Discrete
      <3> HIDE DEF env, ssl
      <3>4. CASE ssl = << >>
        <4>1. \A k \in KeySet : c[k] = env[k]
          BY <3>1, <3>4
        <4>2. {Pair(k, c[k]) : k \in {j \in KeySet : c[j] # << >>}} = {<<k, env[k]>> : k \in {j \in KeySet : env[j] # << >>}}
          BY <4>1 DEF Pair
        <4> QED BY <3>1, <3>2, <3>3, <3>4, <4>2
      <3>5. CASE ssl # << >>
        <4>1. c["sslmode"] = ssl /\ \A k \in KeySet \ {"sslmode"} : c[k] = env[k]
          BY <3>1, <3>3, <3>5
        <4>2. {j \in KeySet : c[j] # << >>} = (given \ {"sslmode"}) \cup {"sslmode"}
          BY <3>3, <3>5, <4>1
        <4>3. {Pair(k, c[k]) : k \in (given \ {"sslmode"}) \cup {"sslmode"}}
                = {<<k, env[k]>> : k \in given \ {"sslmode"}} \cup {<<k, ssl>> : k \in {"sslmode"}}
          BY <3>3, <4>1 DEF Pair
        <4> QED BY <3>1, <3>2, <3>5, <4>2, <4>3
      <3> QED BY <3>4, <3>5
    <2> HIDE DEF first
    <2>5. CASE named # {}
      BY <2>2, <2>3, <2>5 DEF ConnectionIsTheOneGiven
    <2>6. CASE named = {}
      <3>1. first = ""
        BY <2>3, <2>6
      <3>2. db.dsn = "" /\ db.settings = {<<k, env[k]>> : k \in given \ flag} \cup {<<k, ssl>> : k \in flag}
        BY <2>2, <2>4, <3>1
      <3> QED BY <2>6, <3>2 DEF ConnectionIsTheOneGiven
    <2> QED BY <2>5, <2>6
  <1> QED BY <1>1, SpecCInv, PTL

-----------------------------------------------------------------------------
(***************************************************************************)
(* The name of a new migration, read from the left.                        *)
(***************************************************************************)
\* The letters a slug is made of.
Small == {"a", "b"}

\* Which characters count as letters, and in which spelling.
LEMMA LowerFacts ==
  /\ \A c \in String : Lower(c) \in String
  /\ \A c : Lower(Lower(c)) = Lower(c)
  /\ \A c : Lower(c) \in Letters <=> Lower(c) \in Small
  /\ \A c \in Small : Lower(c) = c /\ c # "_" /\ c \notin Blanks /\ c \in Letters
  /\ "_" \in String /\ Lower("_") = "_" /\ "_" \notin Letters /\ "_" \notin Small /\ "_" \notin Blanks
  /\ \A c \in Blanks : Lower(c) \notin Letters
  <1>1. "_" \in String /\ Letters \subseteq String
    BY StringAssumption
  <1>2. \A c \in String : Lower(c) \in String
    BY <1>1 DEF Lower, Letters
  <1> QED BY <1>1, <1>2 DEF Lower, Letters, Small, Blanks

\* A character makes a text of a text.
LEMMA SlugCharType ==
  ASSUME NEW b \in Word, NEW c \in String
  PROVE  SlugChar(b, c) \in Word
  BY WordFacts, LowerFacts DEF SlugChar

SlugReader == [p \in Word \X String |-> SlugChar(p[1], p[2])]

\* SlugReader on a text and a character.
LEMMA SlugReaderIs == \A b \in Word, c \in String : SlugReader[<<b, c>>] = SlugChar(b, c)
  BY DEF SlugReader

\* The loop of slugify goes through the name from the left.
LEMMA SlugIsResult ==
  ASSUME NEW s \in Word
  PROVE  SlugOf(s) = Result(s, << >>, SlugReader)
  <1>1. IsReader(SlugReader, Word, String) /\ << >> \in Word
    BY SlugCharType, WordFacts DEF IsReader, SlugReader
  <1>2. PICK n \in Nat : n = Len(s) /\ \A k \in 1 .. n : s[k] \in String
    BY LenProperties, ElementOfSeq DEF Word
  <1>a. s \in Seq(String)
    BY DEF Word
  <1>3. PICK f \in [0 .. n -> Word] : Reads(f, s, << >>, SlugReader)
    BY <1>1, <1>2, <1>a, ReaderExists
  <1>4. f[0] = << >> /\ \A k \in 1 .. n : f[k] = SlugChar(f[k - 1], s[k])
    <2>1. f[0] = << >> /\ \A k \in 1 .. n : f[k] = SlugReader[<<f[k - 1], s[k]>>]
      BY <1>2, <1>3, ReaderAt
    <2>2. \A k \in 1 .. n : k - 1 \in 0 .. n /\ f[k - 1] \in Word
      BY <1>2
    <2> QED BY <1>2, <2>1, <2>2, SlugReaderIs
  <1> DEFINE Is(g) == g = [k \in 0 .. Len(s) |-> IF k = 0 THEN << >> ELSE SlugChar(g[k - 1], s[k])]
             h == CHOOSE g : Is(g)
  <1>5. Is(f)
    BY <1>2, <1>3, <1>4
  <1>6. Is(h)
    BY <1>5
  <1>7. SlugOf(s) = h[n]
    BY <1>2 DEF SlugOf
  <1>8. h[0] = f[0] /\ \A k \in 1 .. n : h[k - 1] = f[k - 1] => h[k] = f[k]
    <2> HIDE DEF h
    <2> QED BY <1>2, <1>4, <1>6
  <1>9. h[n] = f[n]
    <2> HIDE DEF h
    <2> QED BY <1>8, ReaderIsUnique
  <1>10. f[n] = Result(s, << >>, SlugReader)
    BY <1>1, <1>2, <1>3, <1>a, ResultFacts
  <1> QED BY <1>7, <1>9, <1>10

\* One more character is one more turn of the loop.
LEMMA SlugGoes ==
  /\ SlugOf(<< >>) = << >>
  /\ \A s \in Word, c \in String : SlugOf(Append(s, c)) = SlugChar(SlugOf(s), c)
  /\ \A s \in Word : SlugOf(s) \in Word
  <1>1. IsReader(SlugReader, Word, String)
    BY SlugCharType DEF IsReader, SlugReader
  <1> DEFINE R(s) == Result(s, << >>, SlugReader)
  <1>2. /\ R(<< >>) = << >>
        /\ \A s \in Word, c \in String : R(Append(s, c)) = SlugReader[<<R(s), c>>]
        /\ \A s \in Word : R(s) \in Word
    BY <1>1, WordFacts, ResultFacts DEF Word
  <1>3. \A s \in Word : SlugOf(s) = R(s)
    BY SlugIsResult
  <1> HIDE DEF R
  <1>4. << >> \in Word /\ \A s \in Word, c \in String : Append(s, c) \in Word
    BY WordFacts
  <1>5. ASSUME NEW s \in Word, NEW c \in String
        PROVE  SlugOf(Append(s, c)) = SlugChar(SlugOf(s), c)
    <2>1. R(s) \in Word /\ R(Append(s, c)) = SlugReader[<<R(s), c>>]
      BY <1>2
    <2>2. SlugReader[<<R(s), c>>] = SlugChar(R(s), c)
      BY <2>1, SlugReaderIs
    <2>3. SlugOf(s) = R(s) /\ SlugOf(Append(s, c)) = R(Append(s, c))
      BY <1>3, <1>4
    <2> QED BY <2>1, <2>2, <2>3
  <1> QED BY <1>2, <1>3, <1>4, <1>5

LetterChar(b, c) == IF Lower(c) \in Letters THEN Append(b, Lower(c)) ELSE b
LetterReader == [p \in Word \X String |-> LetterChar(p[1], p[2])]

\* LetterReader on a text and a character.
LEMMA LetterReaderIs == \A b \in Word, c \in String : LetterReader[<<b, c>>] = LetterChar(b, c)
  BY DEF LetterReader

\* A letter more makes a text of a text.
LEMMA LetterCharType ==
  ASSUME NEW b \in Word, NEW c \in String
  PROVE  LetterChar(b, c) \in Word
  BY WordFacts, LowerFacts DEF LetterChar

\* The letters of a name are collected from the left.
LEMMA LettersIsResult ==
  ASSUME NEW s \in Word
  PROVE  LettersOf(s) = Result(s, << >>, LetterReader)
  <1>1. IsReader(LetterReader, Word, String) /\ << >> \in Word
    BY LetterCharType, WordFacts DEF IsReader, LetterReader
  <1>2. PICK n \in Nat : n = Len(s) /\ \A k \in 1 .. n : s[k] \in String
    BY LenProperties, ElementOfSeq DEF Word
  <1>a. s \in Seq(String)
    BY DEF Word
  <1>3. PICK f \in [0 .. n -> Word] : Reads(f, s, << >>, LetterReader)
    BY <1>1, <1>2, <1>a, ReaderExists
  <1>4. f[0] = << >> /\ \A k \in 1 .. n : f[k] = LetterChar(f[k - 1], s[k])
    <2>1. f[0] = << >> /\ \A k \in 1 .. n : f[k] = LetterReader[<<f[k - 1], s[k]>>]
      BY <1>2, <1>3, ReaderAt
    <2>2. \A k \in 1 .. n : k - 1 \in 0 .. n /\ f[k - 1] \in Word
      BY <1>2
    <2> QED BY <1>2, <2>1, <2>2, LetterReaderIs
  <1> DEFINE Is(g) == g = [k \in 0 .. Len(s) |-> IF k = 0 THEN << >> ELSE LetterChar(g[k - 1], s[k])]
             h == CHOOSE g : Is(g)
  <1>5. Is(f)
    BY <1>2, <1>3, <1>4
  <1>6. Is(h)
    BY <1>5
  <1>7. LettersOf(s) = h[n]
    BY <1>2, Zenon DEF LettersOf, LetterChar
  <1>8. h[0] = f[0] /\ \A k \in 1 .. n : h[k - 1] = f[k - 1] => h[k] = f[k]
    <2> HIDE DEF h
    <2> QED BY <1>2, <1>4, <1>6
  <1>9. h[n] = f[n]
    <2> HIDE DEF h
    <2> QED BY <1>8, ReaderIsUnique
  <1>10. f[n] = Result(s, << >>, LetterReader)
    BY <1>1, <1>2, <1>3, <1>a, ResultFacts
  <1> QED BY <1>7, <1>9, <1>10

\* One more character is one more letter, or none.
LEMMA LettersGo ==
  /\ LettersOf(<< >>) = << >>
  /\ \A s \in Word, c \in String : LettersOf(Append(s, c)) = LetterChar(LettersOf(s), c)
  /\ \A s \in Word : LettersOf(s) \in Word
  <1>1. IsReader(LetterReader, Word, String)
    BY LetterCharType DEF IsReader, LetterReader
  <1> DEFINE R(s) == Result(s, << >>, LetterReader)
  <1>2. /\ R(<< >>) = << >>
        /\ \A s \in Word, c \in String : R(Append(s, c)) = LetterReader[<<R(s), c>>]
        /\ \A s \in Word : R(s) \in Word
    BY <1>1, WordFacts, ResultFacts DEF Word
  <1>3. \A s \in Word : LettersOf(s) = R(s)
    BY LettersIsResult
  <1> HIDE DEF R
  <1>4. << >> \in Word /\ \A s \in Word, c \in String : Append(s, c) \in Word
    BY WordFacts
  <1>5. ASSUME NEW s \in Word, NEW c \in String
        PROVE  LettersOf(Append(s, c)) = LetterChar(LettersOf(s), c)
    <2>1. R(s) \in Word /\ R(Append(s, c)) = LetterReader[<<R(s), c>>]
      BY <1>2
    <2>2. LetterReader[<<R(s), c>>] = LetterChar(R(s), c)
      BY <2>1, LetterReaderIs
    <2>3. LettersOf(s) = R(s) /\ LettersOf(Append(s, c)) = R(Append(s, c))
      BY <1>3, <1>4
    <2> QED BY <2>1, <2>2, <2>3
  <1> QED BY <1>2, <1>3, <1>4, <1>5

-----------------------------------------------------------------------------
(***************************************************************************)
(* The letters of a name.                                                  *)
(***************************************************************************)
\* A text with one more character, place by place.
LEMMA AppendAt ==
  ASSUME NEW s \in Word, NEW c \in String
  PROVE  /\ Len(s) \in Nat /\ Len(Append(s, c)) = Len(s) + 1 /\ Append(s, c)[Len(s) + 1] = c
         /\ \A k \in 1 .. Len(s) : Append(s, c)[k] = s[k] /\ s[k] \in String
         /\ Append(s, c) \in Word /\ Append(s, c) # << >>
  <1>1. /\ Len(s) \in Nat /\ Len(Append(s, c)) = Len(s) + 1 /\ Append(s, c)[Len(s) + 1] = c
        /\ \A k \in 1 .. Len(s) : Append(s, c)[k] = s[k]
        /\ Append(s, c) # << >>
    BY AppendProperties, LenProperties DEF Word
  <1>2. \A k \in 1 .. Len(s) : s[k] \in String
    BY ElementOfSeq DEF Word
  <1> QED BY <1>1, <1>2, WordFacts

\* Appending to the second of two texts is appending to both.
LEMMA AppendCat ==
  ASSUME NEW s \in Word, NEW t \in Word, NEW c \in String
  PROVE  Append(Cat(s, t), c) = Cat(s, Append(t, c)) /\ Cat(s, t) \in Word
  <1>1. Cat(s, t) \in Word /\ <<c>> \in Word
    BY Associative, WordFacts
  <1>2. Append(Cat(s, t), c) = Cat(Cat(s, t), <<c>>) /\ Append(t, c) = Cat(t, <<c>>)
    BY <1>1, AppendJoins DEF Cat
  <1>3. Cat(Cat(s, t), <<c>>) = Cat(s, Cat(t, <<c>>))
    BY <1>1, Associative
  <1> QED BY <1>1, <1>2, <1>3

\* The letters of two texts are the letters of one and then of the other.
LEMMA LettersJoin ==
  ASSUME NEW s \in Word, NEW t \in Word
  PROVE  LettersOf(Cat(s, t)) = Cat(LettersOf(s), LettersOf(t))
  <1> DEFINE P(w) == LettersOf(Cat(s, w)) = Cat(LettersOf(s), LettersOf(w))
             S == {w \in Word : P(w)}
  <1>0. LettersOf(s) \in Word /\ << >> \in Word
    BY LettersGo, WordFacts
  <1>1. << >> \in S
    <2>1. Cat(s, << >>) = s /\ Cat(LettersOf(s), << >>) = LettersOf(s)
      BY <1>0, EmptyJoins DEF Cat
    <2> QED BY <1>0, <2>1, LettersGo
  <1>2. ASSUME NEW w \in Word, NEW c \in String, w \in S PROVE Append(w, c) \in S
    <2>1. LettersOf(Cat(s, w)) = Cat(LettersOf(s), LettersOf(w)) /\ LettersOf(w) \in Word
      BY <1>2, LettersGo
    <2>2. Append(Cat(s, w), c) = Cat(s, Append(w, c)) /\ Cat(s, w) \in Word /\ Append(w, c) \in Word
      BY AppendCat, WordFacts
    <2>3. /\ LettersOf(Cat(s, Append(w, c))) = LetterChar(Cat(LettersOf(s), LettersOf(w)), c)
          /\ LettersOf(Append(w, c)) = LetterChar(LettersOf(w), c)
      BY <2>1, <2>2, LettersGo
    <2>4. Append(Cat(LettersOf(s), LettersOf(w)), Lower(c)) = Cat(LettersOf(s), Append(LettersOf(w), Lower(c)))
      <3> DEFINE x == Lower(c)
                 a == LettersOf(s)
                 b == LettersOf(w)
      <3>1. x \in String /\ a \in Word /\ b \in Word
        BY <1>0, <2>1, LowerFacts
      <3> HIDE DEF x, a, b
      <3>2. Append(Cat(a, b), x) = Cat(a, Append(b, x))
        BY <3>1, AppendCat
      <3> QED BY <3>2 DEF x, a, b
    <2> QED BY <2>2, <2>3, <2>4 DEF LetterChar
  <1> HIDE DEF S
  <1>3. Word \subseteq S
    BY <1>1, <1>2, SeqInduct DEF Word
  <1> QED BY <1>3 DEF S

\* A text without letters has none.
LEMMA NoLetters ==
  ASSUME NEW s \in Word, \A k \in 1 .. Len(s) : Lower(s[k]) \notin Letters
  PROVE  LettersOf(s) = << >>
  <1> DEFINE P(w) == (\A k \in 1 .. Len(w) : Lower(w[k]) \notin Letters) => LettersOf(w) = << >>
             S == {w \in Word : P(w)}
  <1>1. << >> \in S
    BY LettersGo, WordFacts
  <1>2. ASSUME NEW w \in Word, NEW c \in String, w \in S PROVE Append(w, c) \in S
    <2>1. /\ Len(w) \in Nat /\ Len(Append(w, c)) = Len(w) + 1 /\ Append(w, c)[Len(w) + 1] = c
          /\ \A k \in 1 .. Len(w) : Append(w, c)[k] = w[k]
          /\ Append(w, c) \in Word
      BY AppendAt
    <2> SUFFICES ASSUME \A k \in 1 .. Len(Append(w, c)) : Lower(Append(w, c)[k]) \notin Letters
                 PROVE  LettersOf(Append(w, c)) = << >>
      BY <2>1
    <2>2. Lower(c) \notin Letters /\ \A k \in 1 .. Len(w) : Lower(w[k]) \notin Letters
      BY <2>1
    <2>3. LettersOf(w) = << >>
      BY <1>2, <2>2
    <2> QED BY <2>2, <2>3, LettersGo DEF LetterChar
  <1> HIDE DEF S
  <1>3. Word \subseteq S
    BY <1>1, <1>2, SeqInduct DEF Word
  <1>4. P(s)
    BY <1>3 DEF S
  <1> QED BY <1>4

Lowered(s) == [k \in DOMAIN s |-> Lower(s[k])]
Low(s) == \A k \in 1 .. Len(s) : Lower(s[k]) = s[k]

\* Lower case keeps the letters.
LEMMA LoweredIs ==
  ASSUME NEW s \in Word
  PROVE  Lowered(s) \in Word /\ Low(Lowered(s)) /\ LettersOf(Lowered(s)) = LettersOf(s)
  <1> DEFINE S == {w \in Word : Lowered(w) \in Word /\ LettersOf(Lowered(w)) = LettersOf(w)}
  <1>1. << >> \in S
    <2>1. Lowered(<< >>) = << >>
      BY DEF Lowered
    <2> QED BY <2>1, WordFacts
  <1>2. ASSUME NEW w \in Word, NEW c \in String, w \in S PROVE Append(w, c) \in S
    <2>1. Lowered(w) \in Word /\ LettersOf(Lowered(w)) = LettersOf(w) /\ Lower(c) \in String
      BY <1>2, LowerFacts
    <2>2. Lowered(Append(w, c)) = Append(Lowered(w), Lower(c))
      BY DEF Word, Lowered
    <2>3. LettersOf(Append(Lowered(w), Lower(c))) = LetterChar(LettersOf(w), Lower(c))
      BY <2>1, LettersGo
    <2>4. LetterChar(LettersOf(w), Lower(c)) = LetterChar(LettersOf(w), c)
      BY LowerFacts DEF LetterChar
    <2>5. LettersOf(Append(w, c)) = LetterChar(LettersOf(w), c)
      BY LettersGo
    <2> QED BY <2>1, <2>2, <2>3, <2>4, <2>5, WordFacts
  <1> HIDE DEF S
  <1>3. Word \subseteq S
    BY <1>1, <1>2, SeqInduct DEF Word
  <1>4. Low(Lowered(s))
    <2>1. PICK n \in Nat : n = Len(s) /\ DOMAIN s = 1 .. n
      BY LenProperties DEF Word
    <2>2. Lowered(s) = [k \in 1 .. n |-> Lower(s[k])] /\ Len(Lowered(s)) = n
      BY <2>1 DEF Lowered
    <2>3. \A k \in 1 .. n : Lowered(s)[k] = Lower(s[k])
      BY <2>2
    <2>4. \A k \in 1 .. n : Lower(Lowered(s)[k]) = Lowered(s)[k]
      BY <2>3, LowerFacts
    <2> QED BY <2>2, <2>4 DEF Low
  <1> QED BY <1>3, <1>4 DEF S

-----------------------------------------------------------------------------
(***************************************************************************)
(* Single underscores between letters.                                     *)
(***************************************************************************)
(***************************************************************************)
(* What the loop of slugify makes: letters in lower case and single        *)
(* underscores, a letter first.                                            *)
(***************************************************************************)
Slugged(c) == c \in Small \/ c = "_"
TidyTo(b, n) ==
  /\ \A k \in 1 .. n : Slugged(b[k])
  /\ n > 0 => b[1] \in Small
  /\ \A k \in 1 .. n - 1 : b[k] \in Small \/ b[k + 1] \in Small
Tidy(b) == TidyTo(b, Len(b))

\* A letter can follow anything, an underscore a letter.
MayFollow(b, c) == c \in Small \/ (c = "_" /\ b # << >> /\ Last(b) # "_")

\* What does keeps a text tidy.
LEMMA TidyAppend ==
  ASSUME NEW b \in Word, Tidy(b), NEW c \in String, MayFollow(b, c)
  PROVE  Tidy(Append(b, c))
  <1> DEFINE d == Append(b, c)
  <1>1. PICK n \in Nat : n = Len(b) /\ Len(d) = n + 1 /\ d[n + 1] = c /\ \A k \in 1 .. n : d[k] = b[k]
    BY AppendAt
  <1>2. b = << >> <=> n = 0
    BY <1>1, EmptySeq DEF Word
  <1>3. TidyTo(b, n) /\ Slugged(c) /\ (n = 0 => c \in Small) /\ (c \notin Small => b[n] # "_")
    BY <1>1, <1>2 DEF Last, Tidy, Slugged, MayFollow
  <1> HIDE DEF d
  <1>4. ASSUME NEW k \in 1 .. n + 1 PROVE Slugged(d[k])
    <2>1. CASE k = n + 1
      BY <1>1, <1>3, <2>1
    <2>2. CASE k # n + 1
      <3>1. k \in 1 .. n
        BY <2>2
      <3> QED BY <1>1, <1>3, <3>1 DEF TidyTo
    <2> QED BY <2>1, <2>2
  <1>5. d[1] \in Small
    <2>1. CASE n = 0
      <3>1. c \in Small
        BY <1>3, <2>1, Zenon
      <3>2. d[n + 1] = c
        BY <1>1
      <3>3. n + 1 = 1
        BY <2>1
      <3> QED BY <3>1, <3>2, <3>3
    <2>2. CASE n > 0
      <3>1. TidyTo(b, n)
        BY <1>3
      <3>2. b[1] \in Small
        BY <2>2, <3>1 DEF TidyTo
      <3>3. 1 \in 1 .. n
        BY <2>2
      <3> QED BY <1>1, <3>2, <3>3
    <2> QED BY <2>1, <2>2
  <1>6. ASSUME NEW k \in 1 .. n PROVE d[k] \in Small \/ d[k + 1] \in Small
    <2>1. CASE k = n
      <3>1. Slugged(b[n]) /\ d[n] = b[n]
        BY <1>1, <1>3, <2>1 DEF TidyTo
      <3> QED BY <1>1, <1>3, <2>1, <3>1 DEF Slugged
    <2>2. CASE k # n
      <3>1. k \in 1 .. n - 1 /\ k + 1 \in 1 .. n
        BY <2>2
      <3>2. b[k] \in Small \/ b[k + 1] \in Small
        BY <1>3, <3>1 DEF TidyTo
      <3> QED BY <1>1, <3>1, <3>2
    <2> QED BY <2>1, <2>2
  <1>7. TidyTo(d, n + 1)
    BY <1>4, <1>5, <1>6 DEF TidyTo
  <1> QED BY <1>1, <1>7 DEF d, Tidy

\* The loop makes a tidy text and keeps the letters.
LEMMA SlugTidy ==
  ASSUME NEW s \in Word, Low(s)
  PROVE  Tidy(SlugOf(s)) /\ LettersOf(SlugOf(s)) = LettersOf(s)
  <1> DEFINE P(w) == Low(w) => Tidy(SlugOf(w)) /\ LettersOf(SlugOf(w)) = LettersOf(w)
             S == {w \in Word : P(w)}
  <1>1. << >> \in S
    <2>1. Tidy(<< >>)
      BY EmptySeq DEF Tidy, TidyTo
    <2> QED BY <2>1, SlugGoes, WordFacts
  <1>2. ASSUME NEW w \in Word, NEW c \in String, w \in S PROVE Append(w, c) \in S
    <2>1. /\ Len(w) \in Nat /\ Len(Append(w, c)) = Len(w) + 1 /\ Append(w, c)[Len(w) + 1] = c
          /\ \A k \in 1 .. Len(w) : Append(w, c)[k] = w[k]
          /\ Append(w, c) \in Word
      BY AppendAt
    <2> SUFFICES ASSUME Low(Append(w, c))
                 PROVE  Tidy(SlugOf(Append(w, c))) /\ LettersOf(SlugOf(Append(w, c))) = LettersOf(Append(w, c))
      BY <2>1
    <2>2. Low(w) /\ Lower(c) = c
      BY <2>1 DEF Low
    <2> DEFINE b == SlugOf(w)
    <2>3. b \in Word /\ Tidy(b) /\ LettersOf(b) = LettersOf(w)
      BY <1>2, <2>2, SlugGoes
    <2>4. SlugOf(Append(w, c)) = SlugChar(b, c) /\ LettersOf(Append(w, c)) = LetterChar(LettersOf(w), c)
      BY SlugGoes, LettersGo
    <2> HIDE DEF b
    <2>5. CASE c \in Letters
      <3>1. SlugChar(b, c) = Append(b, c)
        BY <2>5 DEF SlugChar
      <3>2. c \in Small
        <4>1. Lower(c) \in Letters /\ Lower(c) = c
          BY <2>2, <2>5
        <4>2. \A x : Lower(x) \in Letters => Lower(x) \in Small
          BY LowerFacts
        <4> QED BY <4>1, <4>2, Zenon
      <3>3. LettersOf(Append(b, c)) = LetterChar(LettersOf(b), c)
        BY <2>3, LettersGo
      <3>4. MayFollow(b, c)
        BY <3>2 DEF MayFollow
      <3> QED BY <2>3, <2>4, <3>1, <3>3, <3>4, TidyAppend
    <2>6. CASE c \notin Letters /\ b # << >> /\ Last(b) # "_"
      <3>1. SlugChar(b, c) = Append(b, "_")
        BY <2>6 DEF SlugChar
      <3>2. "_" \in String /\ Lower("_") \notin Letters
        BY LowerFacts
      <3>3. LettersOf(Append(b, "_")) = LetterChar(LettersOf(b), "_")
        BY <2>3, <3>2, LettersGo
      <3>4. LettersOf(Append(b, "_")) = LettersOf(b) /\ LettersOf(Append(w, c)) = LettersOf(w)
        BY <2>2, <2>4, <2>6, <3>2, <3>3 DEF LetterChar
      <3>5. MayFollow(b, "_")
        BY <2>6 DEF MayFollow
      <3> QED BY <2>3, <2>4, <3>1, <3>2, <3>4, <3>5, TidyAppend
    <2>7. CASE c \notin Letters /\ ~(b # << >> /\ Last(b) # "_")
      <3>1. SlugChar(b, c) = b
        BY <2>7 DEF SlugChar
      <3>2. LettersOf(Append(w, c)) = LettersOf(w)
        BY <2>2, <2>4, <2>7 DEF LetterChar
      <3> QED BY <2>3, <2>4, <3>1, <3>2
    <2> QED BY <2>5, <2>6, <2>7
  <1> HIDE DEF S
  <1>3. Word \subseteq S
    BY <1>1, <1>2, SeqInduct DEF Word
  <1>4. P(s)
    BY <1>3 DEF S
  <1> QED BY <1>4

\* Of a tidy text it makes the same again.
LEMMA SlugSame ==
  ASSUME NEW s \in Word, Tidy(s)
  PROVE  SlugOf(s) = s
  <1> DEFINE P(w) == Tidy(w) => SlugOf(w) = w
             S == {w \in Word : P(w)}
  <1>1. << >> \in S
    BY SlugGoes, WordFacts
  <1>2. ASSUME NEW w \in Word, NEW c \in String, w \in S PROVE Append(w, c) \in S
    <2> DEFINE d == Append(w, c)
    <2>1. PICK n \in Nat : n = Len(w) /\ Len(d) = n + 1 /\ d[n + 1] = c /\ \A k \in 1 .. n : d[k] = w[k]
      BY AppendAt
    <2>2. d \in Word /\ d # << >>
      BY AppendAt
    <2>3. w = << >> <=> n = 0
      BY <2>1, EmptySeq DEF Word
    <2> SUFFICES ASSUME Tidy(d) PROVE SlugOf(d) = d
      BY <2>2
    <2> HIDE DEF d
    <2>4. TidyTo(d, n + 1)
      BY <2>1 DEF Tidy
    <2>5. Tidy(w)
      <3>1. ASSUME NEW k \in 1 .. n PROVE Slugged(w[k])
        <4>1. k \in 1 .. n + 1 /\ d[k] = w[k]
          BY <2>1
        <4> QED BY <2>4, <4>1 DEF TidyTo
      <3>2. ASSUME n > 0 PROVE w[1] \in Small
        <4>1. d[1] \in Small
          BY <2>4 DEF TidyTo
        <4> QED BY <2>1, <3>2, <4>1
      <3>3. ASSUME NEW k \in 1 .. n - 1 PROVE w[k] \in Small \/ w[k + 1] \in Small
        <4>1. k \in 1 .. n + 1 - 1 /\ d[k] = w[k] /\ d[k + 1] = w[k + 1]
          BY <2>1
        <4>2. d[k] \in Small \/ d[k + 1] \in Small
          BY <2>4, <4>1 DEF TidyTo
        <4> QED BY <4>1, <4>2
      <3> QED BY <2>1, <3>1, <3>2, <3>3 DEF Tidy, TidyTo
    <2>6. SlugOf(w) = w
      BY <1>2, <2>5
    <2>7. SlugOf(d) = SlugChar(w, c)
      BY <2>6, SlugGoes DEF d
    <2>8. Slugged(c)
      <3>1. n + 1 \in 1 .. n + 1
        OBVIOUS
      <3> QED BY <2>1, <2>4, <3>1 DEF TidyTo
    <2>9. CASE c \in Small
      <3>1. c \in Letters
        BY <2>9, LowerFacts
      <3> QED BY <2>7, <3>1 DEF SlugChar, d
    <2>10. CASE c = "_"
      <3>1. c \notin Letters /\ c \notin Small
        BY <2>10, LowerFacts
      <3>2. n # 0
        <4>1. d[1] \in Small
          BY <2>4 DEF TidyTo
        <4> QED BY <2>1, <3>1, <4>1
      <3>3. w # << >> /\ Last(w) \in Small
        <4>1. n \in 1 .. n + 1 - 1 /\ d[n] = w[n]
          BY <2>1, <3>2
        <4>2. d[n] \in Small \/ d[n + 1] \in Small
          BY <2>4, <4>1 DEF TidyTo
        <4> QED BY <2>1, <2>3, <3>1, <3>2, <4>1, <4>2 DEF Last
      <3>4. Last(w) # "_"
        BY <3>3, LowerFacts
      <3> QED BY <2>7, <2>10, <3>1, <3>3, <3>4 DEF SlugChar, d
    <2> QED BY <2>8, <2>9, <2>10 DEF Slugged
  <1> HIDE DEF S
  <1>3. Word \subseteq S
    BY <1>1, <1>2, SeqInduct DEF Word
  <1>4. P(s)
    BY <1>3 DEF S
  <1> QED BY <1>4

\* The beginning of a tidy text is tidy.
LEMMA TidyPrefix ==
  ASSUME NEW b \in Word, Tidy(b), NEW n \in 1 .. Len(b)
  PROVE  /\ SubSeq(b, 1, n) \in Word /\ Len(SubSeq(b, 1, n)) = n
         /\ \A k \in 1 .. n : SubSeq(b, 1, n)[k] = b[k]
         /\ Tidy(SubSeq(b, 1, n))
  <1> DEFINE t == SubSeq(b, 1, n)
  <1>1. Len(b) \in Nat /\ n \in Int /\ n >= 1 /\ n <= Len(b)
    BY LenProperties DEF Word
  <1>2. \A k \in 1 .. n : b[k] \in String
    BY <1>1, ElementOfSeq DEF Word
  <1>3. t \in Seq(String) /\ Len(t) = n - 1 + 1 /\ \A k \in 1 .. n - 1 + 1 : t[k] = b[1 + k - 1]
    BY <1>1, <1>2, SubSeqProperties
  <1> HIDE DEF t
  <1>4. Len(t) = n /\ \A k \in 1 .. n : t[k] = b[k]
    BY <1>1, <1>3
  <1>6. Tidy(t)
    <2> PICK m \in Nat : m = Len(b)
      BY <1>1
    <2>0. TidyTo(b, m) /\ n \in 1 .. m
      BY DEF Tidy
    <2>1. ASSUME NEW k \in 1 .. n PROVE Slugged(t[k])
      <3>1. k \in 1 .. m /\ t[k] = b[k]
        BY <1>4, <2>0
      <3> QED BY <2>0, <3>1 DEF TidyTo
    <2>2. t[1] \in Small
      <3>1. 1 \in 1 .. n /\ m > 0
        BY <2>0
      <3>2. b[1] \in Small
        BY <2>0, <3>1 DEF TidyTo
      <3> QED BY <1>4, <3>1, <3>2
    <2>3. ASSUME NEW k \in 1 .. n - 1 PROVE t[k] \in Small \/ t[k + 1] \in Small
      <3>1. k \in 1 .. m - 1 /\ t[k] = b[k] /\ t[k + 1] = b[k + 1]
        BY <1>4, <2>0
      <3>2. b[k] \in Small \/ b[k + 1] \in Small
        BY <2>0, <3>1 DEF TidyTo
      <3> QED BY <3>1, <3>2
    <2> QED BY <1>4, <2>1, <2>2, <2>3 DEF Tidy, TidyTo
  <1> QED BY <1>3, <1>4, <1>6 DEF t, Word

-----------------------------------------------------------------------------
(***************************************************************************)
(* What is cut off the ends.                                               *)
(***************************************************************************)
\* Of a set of places the least and the greatest are what Trim chooses.
LEMMA Bounds ==
  ASSUME NEW n \in Nat, NEW T \in SUBSET (1 .. n), T # {}
  PROVE  /\ \E k \in T : \A i \in T : k <= i
         /\ \E k \in T : \A i \in T : i <= k
  <1>1. \E k \in T : \A i \in T : k <= i
    <2>1. T \in SUBSET Nat
      OBVIOUS
    <2> QED BY <2>1, LeastOne
  <1>2. \E k \in T : \A i \in T : i <= k
    <2> DEFINE U == {n - k : k \in T}
    <2>1. U \in SUBSET Nat /\ U # {}
      <3>1. \A k \in T : n - k \in Nat
        OBVIOUS
      <3> QED BY <3>1
    <2>2. PICK u \in U : \A v \in U : u <= v
      <3> HIDE DEF U
      <3> QED BY <2>1, LeastOne
    <2>3. PICK k \in T : u = n - k
      BY <2>2
    <2>4. \A i \in T : n - i \in U
      OBVIOUS
    <2>5. \A i \in T : i <= k
      BY <2>2, <2>3, <2>4
    <2> QED BY <2>5
  <1> QED BY <1>1, <1>2

Outer(s, n, cut, a, z) ==
  /\ a \in 1 .. n /\ z \in 1 .. n /\ a <= z
  /\ s[a] \notin cut /\ s[z] \notin cut
  /\ \A i \in 1 .. n : i < a \/ z < i => s[i] \in cut

\* Trim leaves nothing, or what lies between the first and the last to be kept.
LEMMA TrimIs ==
  ASSUME NEW s \in Word, NEW n \in Nat, Len(s) = n, NEW cut
  PROVE  \/ Trim(s, cut) = << >> /\ \A i \in 1 .. n : s[i] \in cut
         \/ \E a, z \in 1 .. n : Outer(s, n, cut, a, z) /\ Trim(s, cut) = SubSeq(s, a, z)
  <1> DEFINE T == {k \in 1 .. n : s[k] \notin cut}
             a == CHOOSE k \in T : \A i \in T : k <= i
             z == CHOOSE k \in T : \A i \in T : i <= k
  <1>1. DOMAIN s = 1 .. n
    BY LenProperties DEF Word
  <1>2. Trim(s, cut) = IF T = {} THEN << >> ELSE SubSeq(s, a, z)
    BY <1>1 DEF Trim
  <1>3. CASE T = {}
    BY <1>2, <1>3
  <1>4. CASE T # {}
    <2>1. \A k : k \in T <=> k \in 1 .. n /\ s[k] \notin cut
      OBVIOUS
    <2>2. T \in SUBSET (1 .. n)
      OBVIOUS
    <2> HIDE DEF T
    <2>3. a \in T /\ \A i \in T : a <= i
      BY <1>4, <2>2, Bounds
    <2>4. z \in T /\ \A i \in T : i <= z
      BY <1>4, <2>2, Bounds
    <2> HIDE DEF a, z
    <2>5. a \in 1 .. n /\ z \in 1 .. n /\ a <= z /\ s[a] \notin cut /\ s[z] \notin cut
      BY <2>1, <2>3, <2>4
    <2>6. ASSUME NEW i \in 1 .. n, i < a \/ z < i PROVE s[i] \in cut
      <3>1. i \notin T
        BY <2>3, <2>4, <2>5, <2>6
      <3> QED BY <2>1, <3>1
    <2>7. Outer(s, n, cut, a, z)
      BY <2>5, <2>6 DEF Outer
    <2> QED BY <1>2, <1>4, <2>5, <2>7
  <1> QED BY <1>3, <1>4

\* A piece of a text, place by place.
LEMMA PieceFacts ==
  ASSUME NEW s \in Word, NEW n \in Nat, Len(s) = n, NEW a \in Int, NEW z \in Int, a >= 1, z <= n
  PROVE  /\ SubSeq(s, a, z) \in Word
         /\ a <= z => Len(SubSeq(s, a, z)) = z - a + 1
         /\ a > z => SubSeq(s, a, z) = << >>
         /\ \A i \in 1 .. z - a + 1 : SubSeq(s, a, z)[i] = s[a + i - 1]
  <1>1. \A i \in a .. z : s[i] \in String
    BY ElementOfSeq DEF Word
  <1>2. /\ SubSeq(s, a, z) \in Seq(String)
        /\ Len(SubSeq(s, a, z)) = IF a <= z THEN z - a + 1 ELSE 0
        /\ \A i \in 1 .. z - a + 1 : SubSeq(s, a, z)[i] = s[a + i - 1]
    BY <1>1, SubSeqProperties
  <1>3. a > z => SubSeq(s, a, z) = << >>
    BY SubSeqEmpty
  <1> QED BY <1>2, <1>3 DEF Word

\* A text is its beginning, a piece and its end.
LEMMA ThreePieces ==
  ASSUME NEW s \in Word, NEW n \in Nat, Len(s) = n, NEW a \in 1 .. n, NEW z \in 1 .. n, a <= z
  PROVE  s = Cat(Cat(SubSeq(s, 1, a - 1), SubSeq(s, a, z)), SubSeq(s, z + 1, n))
  <1>1. s \in Seq(String) /\ 1 \in 1 .. Len(s) + 1 /\ a - 1 \in 0 .. Len(s) /\ z \in a - 1 .. Len(s)
        /\ z \in 0 .. Len(s) /\ n \in z .. Len(s) /\ 1 - 1 = 0 /\ a - 1 + 1 = a
    BY DEF Word
  <1>2. SubSeq(s, 1, a - 1) \o SubSeq(s, a - 1 + 1, z) = SubSeq(s, 1, z)
    BY <1>1, ConcatAdjacentSubSeq
  <1>3. SubSeq(s, 1, z) \o SubSeq(s, z + 1, n) = SubSeq(s, 1, n)
    BY <1>1, ConcatAdjacentSubSeq
  <1>4. SubSeq(s, 1, n) = s
    BY <1>1, SubSeqFull
  <1>5. SubSeq(s, 1, a - 1) \o SubSeq(s, a, z) = SubSeq(s, 1, z)
    BY <1>1, <1>2
  <1> QED BY <1>3, <1>4, <1>5, Zenon DEF Cat

\* Trimming what are no letters keeps the letters.
LEMMA TrimLetters ==
  ASSUME NEW s \in Word, NEW cut, \A c \in cut : Lower(c) \notin Letters
  PROVE  Trim(s, cut) \in Word /\ LettersOf(Trim(s, cut)) = LettersOf(s)
  <1>1. PICK n \in Nat : n = Len(s)
    BY LenProperties DEF Word
  <1>2. CASE Trim(s, cut) = << >> /\ \A i \in 1 .. n : s[i] \in cut
    <2>1. LettersOf(s) = << >>
      BY <1>1, <1>2, NoLetters
    <2> QED BY <1>2, <2>1, LettersGo, WordFacts
  <1>3. ASSUME NEW a \in 1 .. n, NEW z \in 1 .. n, Outer(s, n, cut, a, z), Trim(s, cut) = SubSeq(s, a, z)
        PROVE  Trim(s, cut) \in Word /\ LettersOf(Trim(s, cut)) = LettersOf(s)
    <2> DEFINE u == SubSeq(s, 1, a - 1)
               v == SubSeq(s, a, z)
               w == SubSeq(s, z + 1, n)
    <2>1. a <= z /\ \A i \in 1 .. n : i < a \/ z < i => s[i] \in cut
      BY <1>3 DEF Outer
    <2>2. /\ u \in Word /\ v \in Word /\ w \in Word
          /\ (1 <= a - 1 => Len(u) = a - 1 - 1 + 1) /\ (1 > a - 1 => u = << >>)
          /\ (z + 1 <= n => Len(w) = n - (z + 1) + 1) /\ (z + 1 > n => w = << >>)
          /\ \A i \in 1 .. a - 1 - 1 + 1 : u[i] = s[1 + i - 1]
          /\ \A i \in 1 .. n - (z + 1) + 1 : w[i] = s[z + 1 + i - 1]
      BY <1>1, PieceFacts
    <2>3. s = Cat(Cat(u, v), w)
      BY <1>1, <2>1, ThreePieces
    <2>a. Trim(s, cut) = v
      BY <1>3
    <2> HIDE DEF u, v, w
    <2>4. LettersOf(u) = << >>
      <3>1. CASE a = 1
        BY <2>2, <3>1, LettersGo
      <3>2. CASE a # 1
        <4>1. Len(u) = a - 1
          BY <2>2, <3>2
        <4>2. ASSUME NEW i \in 1 .. a - 1 PROVE u[i] \in cut
          <5>1. u[i] = s[i] /\ i \in 1 .. n /\ i < a
            BY <2>2
          <5> QED BY <2>1, <5>1
        <4> QED BY <2>2, <4>1, <4>2, NoLetters
      <3> QED BY <3>1, <3>2
    <2>5. LettersOf(w) = << >>
      <3>1. CASE z = n
        BY <2>2, <3>1, LettersGo
      <3>2. CASE z # n
        <4>1. Len(w) = n - z
          BY <2>2, <3>2
        <4>2. ASSUME NEW i \in 1 .. n - z PROVE w[i] \in cut
          <5>1. w[i] = s[z + i] /\ z + i \in 1 .. n /\ z < z + i
            BY <2>2
          <5> QED BY <2>1, <5>1
        <4> QED BY <2>2, <4>1, <4>2, NoLetters
      <3> QED BY <3>1, <3>2
    <2>6. Cat(u, v) \in Word /\ LettersOf(v) \in Word
      BY <2>2, Associative, LettersGo
    <2>7. LettersOf(s) = Cat(Cat(<< >>, LettersOf(v)), << >>)
      BY <2>2, <2>3, <2>4, <2>5, <2>6, LettersJoin
    <2>8. Cat(Cat(<< >>, LettersOf(v)), << >>) = LettersOf(v)
      BY <2>6, EmptyJoins DEF Cat
    <2> QED BY <2>2, <2>7, <2>8, <2>a
  <1> QED BY <1>1, <1>2, <1>3, TrimIs

\* Where nothing is to be cut at either end, Trim cuts nothing.
LEMMA TrimNothing ==
  ASSUME NEW s \in Word, NEW n \in Nat, Len(s) = n, NEW cut, n >= 1, s[1] \notin cut, s[n] \notin cut
  PROVE  Trim(s, cut) = s
  <1>1. 1 \in 1 .. n /\ n \in 1 .. n
    OBVIOUS
  <1>2. PICK a, z \in 1 .. n : Outer(s, n, cut, a, z) /\ Trim(s, cut) = SubSeq(s, a, z)
    BY <1>1, TrimIs
  <1>3. \A i \in 1 .. n : i < a \/ z < i => s[i] \in cut
    BY <1>2 DEF Outer
  <1>4. a = 1 /\ z = n
    BY <1>1, <1>3
  <1>5. SubSeq(s, 1, n) = s
    BY SubSeqFull DEF Word
  <1> QED BY <1>2, <1>4, <1>5

Ended(t, n) == n >= 1 /\ Len(t) = n /\ Tidy(t) /\ t[1] \in Small /\ t[n] \in Small

\* A tidy text loses at most one underscore, at its end.
LEMMA TrimTidy ==
  ASSUME NEW b \in Word, Tidy(b), NEW n \in Nat, Len(b) = n, n >= 1
  PROVE  /\ Trim(b, {"_"}) \in Word
         /\ \E z \in 1 .. n : z >= n - 1 /\ Ended(Trim(b, {"_"}), z)
  <1>1. TidyTo(b, n)
    BY DEF Tidy
  <1>2. b[1] \in Small /\ b[1] # "_" /\ 1 \in 1 .. n
    <2>1. b[1] \in Small
      BY <1>1 DEF TidyTo
    <2>2. "_" \notin Small
      BY LowerFacts
    <2>3. b[1] # "_"
      BY <2>1, <2>2, Zenon
    <2>4. 1 \in 1 .. n
      OBVIOUS
    <2> QED BY <2>1, <2>3, <2>4, Zenon
  <1>3. PICK a, z \in 1 .. n : Outer(b, n, {"_"}, a, z) /\ Trim(b, {"_"}) = SubSeq(b, a, z)
    BY <1>2, TrimIs
  <1>4. b[z] # "_" /\ \A i \in 1 .. n : i < a \/ z < i => b[i] = "_"
    BY <1>3 DEF Outer
  <1>5. a = 1
    <2>1. ~(1 < a)
      BY <1>2, <1>4, Zenon
    <2> QED BY <2>1
  <1>6. z >= n - 1
    <2> SUFFICES ASSUME z < n - 1 PROVE FALSE
      OBVIOUS
    <2>1. n - 1 \in 1 .. n - 1 /\ n - 1 \in 1 .. n /\ n \in 1 .. n /\ n - 1 + 1 = n
      OBVIOUS
    <2>a. z < n - 1 /\ z < n
      OBVIOUS
    <2>2. b[n - 1] = "_" /\ b[n] = "_"
      BY <1>4, <2>1, <2>a, Zenon
    <2>3. b[n - 1] \in Small \/ b[n - 1 + 1] \in Small
      BY <1>1, <2>1 DEF TidyTo
    <2>4. "_" \notin Small
      BY LowerFacts
    <2> QED BY <2>1, <2>2, <2>3, <2>4, Zenon
  <1>7. b[z] \in Small
    BY <1>1, <1>4 DEF TidyTo, Slugged
  <1> DEFINE t == SubSeq(b, 1, z)
  <1>8. t \in Word /\ Len(t) = z /\ Tidy(t) /\ \A k \in 1 .. z : t[k] = b[k]
    BY TidyPrefix
  <1>9. Trim(b, {"_"}) = t
    BY <1>3, <1>5
  <1> HIDE DEF t
  <1>10. Ended(t, z)
    <2>1. z >= 1 /\ z \in 1 .. z /\ 1 \in 1 .. z
      OBVIOUS
    <2>2. t[1] = b[1] /\ t[z] = b[z]
      BY <1>8, <2>1, Zenon
    <2>3. t[1] \in Small /\ t[z] \in Small
      BY <1>2, <1>7, <2>2, Zenon
    <2> QED BY <1>8, <2>1, <2>3, Zenon DEF Ended
  <1> QED BY <1>6, <1>8, <1>9, <1>10

-----------------------------------------------------------------------------
(***************************************************************************)
(* What slugify makes of a name, and of that again.                        *)
(***************************************************************************)
Under == {"_"}
Raw(name) == SlugOf(Lowered(Trim(name, Blanks)))
Stem(name) == Trim(Raw(name), Under)
Limited(s) == IF Len(s) > maxSlugLength THEN Trim(SubSeq(s, 1, maxSlugLength), Under) ELSE s

\* slugify, step by step.
LEMMA SlugifyIs ==
  ASSUME NEW name
  PROVE  slugify(name) = IF Stem(name) = << >> THEN Unwritable ELSE Written(Limited(Stem(name)))
  <1>1. MapSeq(Lower, Trim(name, Blanks)) = Lowered(Trim(name, Blanks))
    BY DEF MapSeq, Lowered
  <1>2. Stem(name) = Trim(SlugOf(MapSeq(Lower, Trim(name, Blanks))), {"_"})
    BY <1>1, Zenon DEF Stem, Raw, Under
  <1>3. Limited(Stem(name)) = IF Len(Stem(name)) > maxSlugLength
                              THEN Trim(SubSeq(Stem(name), 1, maxSlugLength), {"_"}) ELSE Stem(name)
    BY Zenon DEF Limited, Under
  <1> QED BY <1>2, <1>3, Zenon DEF slugify

\* An underscore is no letter.
LEMMA UnderFacts == \A c \in Under : Lower(c) \notin Letters
  BY LowerFacts DEF Under

\* The name in lower case, read from the left, is tidy and has its letters.
LEMMA RawFacts ==
  ASSUME NEW name \in Word
  PROVE  Raw(name) \in Word /\ Tidy(Raw(name)) /\ LettersOf(Raw(name)) = LettersOf(name)
  <1>1. Trim(name, Blanks) \in Word /\ LettersOf(Trim(name, Blanks)) = LettersOf(name)
    BY LowerFacts, TrimLetters
  <1>2. PICK t \in Word : t = Trim(name, Blanks)
    BY <1>1
  <1>3. Lowered(t) \in Word /\ Low(Lowered(t)) /\ LettersOf(Lowered(t)) = LettersOf(t)
    BY LoweredIs
  <1>4. PICK l \in Word : l = Lowered(t)
    BY <1>3
  <1>5. Tidy(SlugOf(l)) /\ LettersOf(SlugOf(l)) = LettersOf(l) /\ SlugOf(l) \in Word
    BY <1>3, <1>4, SlugTidy, SlugGoes
  <1> QED BY <1>1, <1>2, <1>3, <1>4, <1>5 DEF Raw

\* Nothing is left of a name without letters; anything else begins and ends with one.
LEMMA StemFacts ==
  ASSUME NEW name \in Word
  PROVE  /\ Stem(name) \in Word /\ LettersOf(Stem(name)) = LettersOf(name)
         /\ Stem(name) # << >> => \E n \in Nat : Ended(Stem(name), n)
  <1>1. PICK b \in Word : b = Raw(name) /\ Tidy(b) /\ LettersOf(b) = LettersOf(name)
    BY RawFacts
  <1>2. Stem(name) = Trim(b, Under)
    BY <1>1 DEF Stem
  <1>3. Trim(b, Under) \in Word /\ LettersOf(Trim(b, Under)) = LettersOf(b)
    BY UnderFacts, TrimLetters
  <1>4. PICK n \in Nat : n = Len(b)
    BY LenProperties DEF Word
  <1>5. CASE n = 0
    <2>1. 1 .. n = {}
      BY <1>5
    <2>2. Trim(b, Under) = << >>
      BY <1>4, <2>1, TrimIs
    <2> QED BY <1>1, <1>2, <1>3, <2>2
  <1>6. CASE n # 0
    <2>1. n >= 1
      BY <1>6
    <2>2. PICK z \in 1 .. n : Ended(Trim(b, {"_"}), z)
      BY <1>1, <1>4, <2>1, TrimTidy
    <2>3. z \in Nat
      OBVIOUS
    <2>4. Ended(Stem(name), z)
      BY <1>2, <2>2, Zenon DEF Under
    <2> QED BY <1>1, <1>2, <1>3, <2>3, <2>4
  <1> QED BY <1>5, <1>6

\* A text that begins and ends with a letter, cut at the limit.
LEMMA LimitedFacts ==
  ASSUME NEW s \in Word, NEW n \in Nat, Ended(s, n)
  PROVE  /\ Limited(s) \in Word
         /\ \E z \in 1 .. maxSlugLength :
              Ended(Limited(s), z) /\ (z < maxSlugLength - 1 => Limited(s) = s)
         /\ IsPrefix(LettersOf(Limited(s)), LettersOf(s))
  <1>0. maxSlugLength \in Nat /\ maxSlugLength >= 1
    BY LimitsAssumption
  <1>1. PICK m \in Nat : m = maxSlugLength /\ m >= 1
    BY <1>0
  <1>2. n >= 1 /\ Len(s) = n /\ Tidy(s)
    BY DEF Ended
  <1>3. CASE n <= m
    <2>1. Limited(s) = s
      BY <1>1, <1>2, <1>3 DEF Limited
    <2>2. n \in 1 .. m /\ Ended(Limited(s), n)
      BY <1>2, <1>3, <2>1
    <2>3. IsPrefix(LettersOf(s), LettersOf(s))
      <3>1. LettersOf(s) \in Word
        BY LettersGo
      <3>2. Len(LettersOf(s)) \in Nat
        BY <3>1, LenProperties DEF Word
      <3> QED BY <3>2 DEF IsPrefix
    <2> QED BY <1>1, <2>1, <2>2, <2>3
  <1>4. CASE n > m
    <2> DEFINE t == SubSeq(s, 1, m)
    <2>1. m \in 1 .. Len(s)
      BY <1>1, <1>2, <1>4
    <2>2. t \in Word /\ Len(t) = m /\ Tidy(t)
      BY <1>2, <2>1, TidyPrefix
    <2>3. Limited(s) = Trim(t, Under)
      BY <1>1, <1>2, <1>4 DEF Limited
    <2>4. PICK r : r = SubSeq(s, m + 1, n)
      OBVIOUS
    <2>5. r \in Word /\ s = Cat(t, r)
      <3>1. m + 1 \in Int /\ n \in Int /\ m + 1 >= 1 /\ n <= n
        BY <1>1
      <3>2. r \in Word
        BY <1>2, <2>4, <3>1, PieceFacts
      <3>3. s \in Seq(String) /\ 1 \in 1 .. Len(s) + 1 /\ m \in 0 .. Len(s) /\ n \in m .. Len(s) /\ 1 \in 1 .. m + 1
            /\ m \in 1 - 1 .. Len(s)
        BY <1>1, <1>2, <1>4 DEF Word
      <3>4. t \o SubSeq(s, m + 1, n) = SubSeq(s, 1, n)
        BY <3>3, ConcatAdjacentSubSeq
      <3>5. SubSeq(s, 1, n) = s
        BY <1>2, <3>3, SubSeqFull
      <3> QED BY <2>4, <3>2, <3>4, <3>5, Zenon DEF Cat
    <2> HIDE DEF t
    <2>6. /\ Trim(t, {"_"}) \in Word
          /\ \E z \in 1 .. m : z >= m - 1 /\ Ended(Trim(t, {"_"}), z)
      BY <1>1, <2>2, TrimTidy
    <2>7. PICK z \in 1 .. m : z >= m - 1 /\ Ended(Limited(s), z)
      BY <2>3, <2>6 DEF Under
    <2>8. ~(z < m - 1)
      BY <1>1, <2>7
    <2>9. Limited(s) \in Word /\ LettersOf(Limited(s)) = LettersOf(t)
      BY <2>2, <2>3, UnderFacts, TrimLetters
    <2>10. IsPrefix(LettersOf(t), LettersOf(s))
      <3>1. PICK u, v \in Word : u = LettersOf(t) /\ v = LettersOf(r)
        BY <2>2, <2>5, LettersGo
      <3>2. LettersOf(s) = u \o v
        BY <2>2, <2>5, <3>1, LettersJoin DEF Cat
      <3>3. /\ u \in Seq(String) /\ v \in Seq(String)
        BY DEF Word
      <3>4. Len(u) \in Nat /\ Len(v) \in Nat /\ Len(u \o v) = Len(u) + Len(v)
        BY <3>3, LenProperties, ConcatProperties
      <3>5. SubSeq(u \o v, 1, Len(u)) = u
        <4>1. PICK p \in Nat : p = Len(u)
          BY <3>4
        <4>2. SubSeq(u, 1, p) = u
          BY <3>3, <4>1, SubSeqFull
        <4>3. CASE p = 0
          <5>1. u = << >>
            BY <3>3, <4>1, <4>3, EmptySeq
          <5>2. 1 \in Int /\ p \in Int /\ 1 > p
            BY <4>3
          <5>3. SubSeq(u \o v, 1, p) = << >>
            BY <5>2, SubSeqEmpty
          <5> QED BY <4>1, <5>1, <5>3
        <4>4. CASE p # 0
          <5>1. 1 \in 1 .. p /\ p \in 1 .. p
            BY <4>4
          <5>2. SubSeq(u \o v, 1, p) = SubSeq(u, 1, p)
            BY <3>3, <4>1, <5>1, SubSeqOfConcat1
          <5> QED BY <4>1, <4>2, <5>2
        <4> QED BY <4>3, <4>4
      <3>6. SubSeq(u, 1, Len(u)) = u
        BY <3>3, SubSeqFull
      <3>7. IsPrefix(u, u \o v)
        <4>1. Len(u) <= Len(u \o v)
          BY <3>4
        <4> QED BY <3>5, <3>6, <4>1 DEF IsPrefix
      <3> QED BY <3>1, <3>2, <3>7
    <2> QED BY <1>1, <2>7, <2>8, <2>9, <2>10
  <1> QED BY <1>1, <1>2, <1>3, <1>4

\* A slug is a name that makes the same slug.
LEMMA SlugAgain ==
  ASSUME NEW t \in Word, NEW n \in Nat, Ended(t, n), n <= maxSlugLength
  PROVE  slugify(t) = Written(t)
  <1>1. n >= 1 /\ Len(t) = n /\ Tidy(t) /\ t[1] \in Small /\ t[n] \in Small
    BY DEF Ended
  <1>2. t[1] \notin Blanks /\ t[n] \notin Blanks
    BY <1>1, LowerFacts
  <1>3. t[1] \notin Under /\ t[n] \notin Under
    <2>1. "_" \notin Small
      BY LowerFacts
    <2> QED BY <1>1, <2>1, Zenon DEF Under
  <1>4. Trim(t, Blanks) = t /\ Trim(t, Under) = t
    BY <1>1, <1>2, <1>3, TrimNothing
  <1>5. Lowered(t) = t
    <2>1. t = [k \in 1 .. n |-> t[k]] /\ DOMAIN t = 1 .. n
      BY <1>1, LenProperties DEF Word
    <2>2. \A k \in 1 .. n : Slugged(t[k])
      BY <1>1 DEF Tidy, TidyTo
    <2>3. \A k \in 1 .. n : Lower(t[k]) = t[k]
      <3>1. \A c : Slugged(c) => Lower(c) = c
        BY LowerFacts DEF Slugged
      <3> QED BY <2>2, <3>1
    <2>4. [k \in DOMAIN t |-> Lower(t[k])] = [k \in 1 .. n |-> t[k]]
      BY <2>1, <2>3
    <2> QED BY <2>1, <2>4, Zenon DEF Lowered
  <1>6. SlugOf(t) = t
    BY <1>1, SlugSame
  <1>7. Raw(t) = t
    BY <1>4, <1>5, <1>6, Zenon DEF Raw
  <1>8. Stem(t) = t
    BY <1>4, <1>7, Zenon DEF Stem
  <1>9. t # << >>
    BY <1>1, EmptySeq
  <1>10. Limited(t) = t
    <2>1. ~(Len(t) > maxSlugLength)
      BY <1>1, LimitsAssumption
    <2> QED BY <2>1, Zenon DEF Limited
  <1> QED BY <1>8, <1>9, <1>10, Zenon, SlugifyIs

\* What is promised of the slug of a name.
GoodSlug(name, s) ==
  IF s.ok
  THEN /\ s.text # << >> /\ Len(s.text) <= maxSlugLength
       /\ IsPrefix(LettersOf(s.text), LettersOf(name))
       /\ Len(s.text) < maxSlugLength - 1 => LettersOf(s.text) = LettersOf(name)
       /\ slugify(s.text).text = s.text
  ELSE LettersOf(name) = << >>

\* slugify keeps it.
LEMMA SlugifyGood ==
  ASSUME NEW name \in Word
  PROVE  GoodSlug(name, slugify(name))
  <1>1. PICK s \in Word : /\ s = Stem(name) /\ LettersOf(s) = LettersOf(name)
                          /\ s # << >> => \E n \in Nat : Ended(s, n)
    BY StemFacts
  <1>2. slugify(name) = IF s = << >> THEN Unwritable ELSE Written(Limited(s))
    BY <1>1, Zenon, SlugifyIs
  <1>3. CASE s = << >>
    <2>1. slugify(name).ok = FALSE
      BY <1>2, <1>3 DEF Unwritable
    <2>2. LettersOf(name) = << >>
      BY <1>1, <1>3, LettersGo
    <2> QED BY <2>1, <2>2 DEF GoodSlug
  <1>4. CASE s # << >>
    <2>1. PICK n \in Nat : Ended(s, n)
      BY <1>1, <1>4
    <2>2. PICK t \in Word : t = Limited(s) /\ IsPrefix(LettersOf(t), LettersOf(name))
      BY <1>1, <2>1, LimitedFacts
    <2>3. PICK z \in 1 .. maxSlugLength : Ended(t, z) /\ (z < maxSlugLength - 1 => t = s)
      BY <2>1, <2>2, LimitedFacts
    <2>4. slugify(name).ok = TRUE /\ slugify(name).text = t
      BY <1>2, <1>4, <2>2 DEF Written
    <2>5. z \in Nat /\ z <= maxSlugLength
      BY LimitsAssumption
    <2>6. slugify(t) = Written(t)
      BY <2>3, <2>5, SlugAgain
    <2>7. slugify(t).text = t
      BY <2>6 DEF Written
    <2>8. Len(t) = z /\ z >= 1
      BY <2>3 DEF Ended
    <2>9. t # << >> /\ Len(t) <= maxSlugLength
      BY <2>5, <2>8, EmptySeq
    <2>10. Len(t) < maxSlugLength - 1 => LettersOf(t) = LettersOf(name)
      BY <1>1, <2>3, <2>8
    <2> QED BY <2>2, <2>4, <2>7, <2>9, <2>10 DEF GoodSlug
  <1> QED BY <1>3, <1>4

\* The slug is made of the name given to new.
SlugMade ==
  slug # None => inv \in Invocations /\ inv.by = "cli" /\ inv.cmd = "new" /\ slug = slugify(inv.name)

\* Only new makes one.
LEMMA SlugKept ==
  ASSUME CInv, SlugMade, [Next]_vars
  PROVE  SlugMade'
  <1>1. CASE slug' = slug /\ inv' = inv
    BY <1>1 DEF SlugMade
  <1>2. CASE MakeSlug
    <2>1. At("slug") /\ slug' = slugify(inv.name) /\ inv' = inv
      BY <1>2 DEF MakeSlug
    <2>2. inv \in Invocations
      BY DEF CInv
    <2>3. PICK n \in 0 .. Len(Steps(inv)) : Behind(n)
      BY <2>1 DEF CInv, At
    <2>4. inv.by = "cli" /\ inv.cmd = "new"
      BY <2>1, <2>2, <2>3, StepOf
    <2> QED BY <2>1, <2>2, <2>4 DEF SlugMade
  <1>3. [Next]_vars => MakeSlug \/ (slug' = slug /\ inv' = inv)
    BY DEF Next, vars, NewConfig, setupLogging, buildOptions, ParseCount, resolvePath, connectDB, Call, Answer, Files
  <1> QED BY <1>1, <1>2, <1>3

\* The slug of a name (slugify in new.go) has the letters and digits of the name
\* in their order, is within the limit and makes the same slug again, for names
\* and limits of any length; a name is refused only when it has none.
THEOREM SlugsAreStable == Spec => []SlugIsStable
  <1>1. Init => SlugMade
    BY DEF Init, SlugMade
  <1>2. CInv /\ SlugMade => SlugIsStable
    <2> SUFFICES ASSUME CInv, SlugMade, slug # None PROVE GoodSlug(inv.name, slug)
      BY DEF SlugIsStable, GoodSlug
    <2>1. inv \in Invocations /\ inv.by = "cli" /\ inv.cmd = "new" /\ slug = slugify(inv.name)
      BY DEF SlugMade
    <2>2. inv.name \in Word
      BY <2>1, InvocationFacts DEF Word
    <2> QED BY <2>1, <2>2, SlugifyGood
  <1>3. CInv /\ SlugMade /\ [Next]_vars => SlugMade'
    BY SlugKept
  <1> QED BY <1>1, <1>2, <1>3, SpecCInv, PTL DEF Spec
=============================================================================
