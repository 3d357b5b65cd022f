----------------------- MODULE MigrationSourceProofs -----------------------
(***************************************************************************)
(* The loader, for every directory and every text of its files: what it    *)
(* returns is all of a well-formed directory, in order, and anything else  *)
(* is an error.                                                            *)
(*                                                                         *)
(* Two things are shown.  What the parser accepts, by taking a script      *)
(* apart, is what IsScript says of the whole script.  And the loops over   *)
(* the entries and over the pairs have, at each turn, exactly what the     *)
(* part of the directory they have seen holds.                             *)
(***************************************************************************)
EXTENDS MigrationSource, SequenceTheorems, FiniteSetTheorems, WellFoundedInduction, TLAPS

\* A set of natural numbers below a bound has a least and a greatest element.
LEMMA Extremes ==
  ASSUME NEW n \in Nat, NEW S \in SUBSET (1 .. n), S # {}
  PROVE  /\ \E k \in S : \A j \in S : k <= j
         /\ \E k \in S : \A j \in S : j <= k
  <1>1. ASSUME NEW T \in SUBSET Nat, T # {} PROVE \E k \in T : \A j \in T : k <= j
    <2>1. PICK k \in T : \A j \in T : ~(<<j, k>> \in OpToRel(<, Nat))
      BY <1>1, NatLessThanWellFounded, WFMin
    <2>2. \A j \in T : ~(j < k)
      BY <2>1 DEF OpToRel
    <2> QED BY <2>2
  <1>2. \E k \in S : \A j \in S : k <= j
    BY <1>1
  <1>3. \E k \in S : \A j \in S : j <= k
    <2> DEFINE T == {n - k : k \in S}
    <2>1. T \in SUBSET Nat /\ T # {}
      <3>1. \A k \in S : n - k \in Nat
        OBVIOUS
      <3>2. PICK k \in S : TRUE
        OBVIOUS
      <3>3. n - k \in T
        OBVIOUS
      <3> QED BY <3>1, <3>3
    <2>2. PICK t \in T : \A j \in T : t <= j
      BY <1>1, <2>1
    <2>3. PICK k \in S : t = n - k
      BY <2>2
    <2>4. \A j \in S : n - k <= n - j
      BY <2>2, <2>3
    <2> QED BY <2>4
  <1> QED BY <1>2, <1>3

\* strings.TrimSpace leaves a text that begins and ends with a line that is not
\* blank, or nothing when there is no such line.
LEMMA TrimFacts ==
  ASSUME NEW t \in Seq(Line)
  PROVE  LET s == TrimSpace(t) IN
         /\ s \in Seq(Line)
         /\ s # << >> => ~Blank(s[1]) /\ ~Blank(s[Len(s)])
         /\ s = << >> <=> \A k \in DOMAIN t : Blank(t[k])
  <1> DEFINE filled == {k \in DOMAIN t : ~Blank(t[k])}
             first == CHOOSE k \in filled : \A j \in filled : k <= j
             last == CHOOSE k \in filled : \A j \in filled : j <= k
             s == TrimSpace(t)
  <1>1. Len(t) \in Nat /\ DOMAIN t = 1 .. Len(t) /\ \A k \in 1 .. Len(t) : t[k] \in Line
    BY LenProperties, ElementOfSeq
  <1>2. CASE filled = {}
    <2>1. s = << >>
      BY <1>2 DEF TrimSpace
    <2> HIDE DEF s
    <2> QED BY <1>2, <2>1 DEF s
  <1>3. CASE filled # {}
    <2>1. /\ \E k \in filled : \A j \in filled : k <= j
          /\ \E k \in filled : \A j \in filled : j <= k
      <3>1. filled \in SUBSET (1 .. Len(t))
        BY <1>1
      <3> HIDE DEF filled
      <3> QED BY <1>1, <1>3, <3>1, Extremes
    <2>2. first \in filled /\ last \in filled /\ first <= last
      BY <2>1
    <2>3. s = SubSeq(t, first, last)
      BY <1>3 DEF TrimSpace
    <2>4. first \in 1 .. Len(t) /\ last \in 1 .. Len(t) /\ ~Blank(t[first]) /\ ~Blank(t[last])
      BY <1>1, <2>2
    <2> HIDE DEF first, last, s
    <2>5. /\ s \in Seq(Line) /\ Len(s) = last - first + 1
          /\ \A i \in 1 .. last - first + 1 : s[i] = t[first + i - 1]
      <3>1. \A i \in first .. last : t[i] \in Line
        BY <1>1, <2>4
      <3>2. first \in Int /\ last \in Int
        BY <1>1, <2>4
      <3> QED BY <2>2, <2>3, <3>1, <3>2, SubSeqProperties
    <2>6. s[1] = t[first] /\ s[Len(s)] = t[last]
      <3>1. 1 \in 1 .. last - first + 1 /\ first + 1 - 1 = first
        BY <1>1, <2>2, <2>4
      <3>2. Len(s) \in 1 .. last - first + 1 /\ first + Len(s) - 1 = last
        BY <1>1, <2>2, <2>4, <2>5
      <3> QED BY <2>5, <3>1, <3>2
    <2>7. s # << >>
      <3>1. Len(s) # 0
        BY <1>1, <2>2, <2>4, <2>5
      <3> QED BY <3>1
    <2> QED BY <1>3, <2>4, <2>5, <2>6, <2>7 DEF s
  <1> QED BY <1>2, <1>3
-----------------------------------------------------------------------------
(***************************************************************************)
(* The parser.                                                             *)
(***************************************************************************)

\* A directive line is no block marker.
LEMMA DirectiveIsNoMarker ==
  ASSUME NEW line \in Line, IsDirective(line), NEW marker \in statementMarkers
  PROVE  ~MarkerIs(line, marker)
  <1> SUFFICES ASSUME line.fields = <<commentToken, migrateToken, marker>> PROVE FALSE
    BY DEF MarkerIs
  <1>1. Len(line.fields) = 3 /\ line.fields[3] = marker
    OBVIOUS
  <1> QED BY <1>1 DEF IsDirective

\* A trimmed script with a header: its other lines are the body.
LEMMA HeaderSplits ==
  ASSUME NEW s \in Seq(Line), s # << >>, ~Blank(s[Len(s)]), IsDirective(s[1])
  PROVE  /\ checkNoLateDirectives(Tail(s)) <=> HeaderLines(s) = {1}
         /\ 1 \in HeaderLines(s)
         /\ ValidateStatementBlocks(Tail(s)) <=> ValidateStatementBlocks(s)
         /\ TrimSpace(Tail(s)) = << >> <=> Len(s) = 1
  <1> DEFINE b == Tail(s)
             n == Len(s)
  <1>1. n \in Nat \ {0} /\ DOMAIN s = 1 .. n /\ \A k \in 1 .. n : s[k] \in Line
    BY LenProperties, ElementOfSeq, EmptySeq
  <1>2. /\ b \in Seq(Line) /\ Len(b) = n - 1 /\ DOMAIN b = 1 .. n-1
        /\ \A k \in 1 .. n-1 : b[k] = s[k+1]
    BY <1>1, HeadTailProperties, LenProperties
  <1> HIDE DEF b, n
  <1>3. \A j \in 2 .. n : j - 1 \in 1 .. n-1 /\ b[j-1] = s[j]
    <2> SUFFICES ASSUME NEW j \in 2 .. n PROVE j - 1 \in 1 .. n-1 /\ b[j-1] = s[j]
      OBVIOUS
    <2>1. j - 1 \in 1 .. n-1 /\ (j - 1) + 1 = j
      BY <1>1
    <2> QED BY <1>2, <2>1
  <1>4. 1 \in HeaderLines(s)
    BY <1>1 DEF HeaderLines
  <1>5. checkNoLateDirectives(b) <=> HeaderLines(s) = {1}
    <2>1. ASSUME checkNoLateDirectives(b), NEW j \in HeaderLines(s) PROVE j = 1
      <3>1. j \in 1 .. n /\ IsDirective(s[j])
        BY <1>1 DEF HeaderLines
      <3>2. CASE j \in 2 .. n
        BY <1>2, <1>3, <2>1, <3>1, <3>2 DEF checkNoLateDirectives
      <3> QED BY <1>1, <3>1, <3>2
    <2>2. ASSUME HeaderLines(s) = {1}, NEW k \in DOMAIN b PROVE ~IsDirective(b[k])
      <3>1. k + 1 \in 1 .. n /\ k + 1 # 1 /\ b[k] = s[k+1]
        BY <1>1, <1>2
      <3> QED BY <1>1, <2>2, <3>1 DEF HeaderLines
    <2> QED BY <1>4, <2>1, <2>2 DEF checkNoLateDirectives
  <1>6. ValidateStatementBlocks(b) <=> ValidateStatementBlocks(s)
    <2>1. ~MarkerIs(s[1], "StatementBegin") /\ ~MarkerIs(s[1], "StatementEnd")
      BY <1>1, DirectiveIsNoMarker DEF statementMarkers
    <2>2. ASSUME ValidateStatementBlocks(b), NEW j \in 1 .. n, MarkerIs(s[j], "StatementBegin")
          PROVE  \E k \in 1 .. n : k > j /\ MarkerIs(s[k], "StatementEnd")
      <3>1. j \in 2 .. n
        BY <1>1, <2>1, <2>2
      <3>2. j - 1 \in DOMAIN b /\ MarkerIs(b[j-1], "StatementBegin")
        BY <1>2, <1>3, <2>2, <3>1
      <3>3. PICK k \in DOMAIN b : k > j - 1 /\ MarkerIs(b[k], "StatementEnd")
        BY <2>2, <3>2 DEF ValidateStatementBlocks
      <3>4. k + 1 \in 1 .. n /\ k + 1 > j /\ b[k] = s[k+1]
        BY <1>1, <1>2, <3>3
      <3> QED BY <3>3, <3>4
    <2>3. ASSUME ValidateStatementBlocks(s), NEW j \in DOMAIN b, MarkerIs(b[j], "StatementBegin")
          PROVE  \E k \in DOMAIN b : k > j /\ MarkerIs(b[k], "StatementEnd")
      <3>1. j + 1 \in 1 .. n /\ MarkerIs(s[j+1], "StatementBegin")
        BY <1>1, <1>2, <2>3
      <3>2. PICK k \in 1 .. n : k > j + 1 /\ MarkerIs(s[k], "StatementEnd")
        BY <1>1, <2>3, <3>1 DEF ValidateStatementBlocks
      <3>3. k \in 2 .. n /\ k - 1 > j
        BY <1>1, <1>2, <3>2
      <3>4. k - 1 \in DOMAIN b /\ b[k-1] = s[k]
        BY <1>2, <1>3, <3>3
      <3> QED BY <3>2, <3>3, <3>4
    <2> QED BY <1>1, <2>2, <2>3 DEF ValidateStatementBlocks
  <1>7. TrimSpace(b) = << >> <=> n = 1
    <2>1. TrimSpace(b) = << >> <=> \A k \in 1 .. n-1 : Blank(b[k])
      BY <1>2, TrimFacts
    <2>2. CASE n = 1
      BY <1>1, <2>1, <2>2
    <2>3. CASE n # 1
      <3>1. n \in 2 .. n
        BY <1>1, <2>3
      <3>2. n - 1 \in 1 .. n-1 /\ ~Blank(b[n-1])
        BY <1>3, <3>1 DEF n
      <3> QED BY <2>1, <2>3, <3>2
    <2> QED BY <2>2, <2>3
  <1> QED BY <1>4, <1>5, <1>6, <1>7 DEF b, n

\* What parseScript accepts is a script, and what it finds in the header are the
\* directives of the script's lines.
LEMMA ParserAcceptsScripts ==
  ASSUME NEW text \in Seq(Line), NEW down \in BOOLEAN
  PROVE  parseScript(text, down) <=> IsScript(text, down)
  <1> DEFINE s == TrimSpace(text)
             names == UNION {directiveNames(s[k]) : k \in HeaderLines(s)}
             p == ParseDirectiveHeader(s)
  <1>1. s \in Seq(Line) /\ (s # << >> => ~Blank(s[1]) /\ ~Blank(s[Len(s)]))
    BY TrimFacts
  <1>2. IsScript(text, down) <=>
          /\ HeaderLines(s) \subseteq {1}
          /\ HeaderLines(s) # {} => names # {} /\ names \subseteq knownDirectives
          /\ s # << >> /\ looksLikeDirective(s[1]) =>
               IsDirective(s[1]) \/ isStatementMarkerLine(s[1])
          /\ ValidateStatementBlocks(s)
          /\ "irreversible" \in names => down
          /\ "irreversible" \in names <=> Len(s) <= Cardinality(HeaderLines(s))
    BY DEF IsScript
  <1>3. parseScript(text, down) <=>
          /\ p.ok /\ ValidateStatementBlocks(p.body)
          /\ "irreversible" \in p.names => down /\ TrimSpace(p.body) = << >>
          /\ "irreversible" \notin p.names => TrimSpace(p.body) # << >>
    BY DEF parseScript
  <1> HIDE DEF s
  <1>4. CASE s # << >> /\ IsDirective(s[1])
    <2>1. Len(s) \in Nat \ {0}
      BY <1>1, <1>4, EmptySeq
    <2>2. p = IF \/ directiveNames(s[1]) = {} \/ ~(directiveNames(s[1]) \subseteq knownDirectives)
                 \/ ~checkNoLateDirectives(Tail(s))
                THEN Rejected
                ELSE [ok |-> TRUE, names |-> directiveNames(s[1]), body |-> Tail(s)]
      BY <1>4 DEF ParseDirectiveHeader
    <2>3. /\ checkNoLateDirectives(Tail(s)) <=> HeaderLines(s) = {1}
          /\ 1 \in HeaderLines(s)
          /\ ValidateStatementBlocks(Tail(s)) <=> ValidateStatementBlocks(s)
          /\ TrimSpace(Tail(s)) = << >> <=> Len(s) = 1
      BY <1>1, <1>4, HeaderSplits
    <2> HIDE DEF p
    <2>4. CASE HeaderLines(s) = {1}
      <3>1. names = directiveNames(s[1]) /\ Cardinality(HeaderLines(s)) = 1
        <4>1. Cardinality({1}) = 1
          BY FS_Singleton
        <4> QED BY <2>4, <4>1
      <3>2. Len(s) <= 1 <=> Len(s) = 1
        <4>1. \A n \in Nat \ {0} : n <= 1 <=> n = 1
          OBVIOUS
        <4> QED BY <2>1, <4>1
      <3> HIDE DEF names
      <3>3. CASE names = {} \/ ~(names \subseteq knownDirectives)
        BY <1>2, <1>3, <2>2, <2>4, <3>1, <3>3 DEF Rejected, names
      <3>4. CASE names # {} /\ names \subseteq knownDirectives
        <4>1. p.ok = TRUE /\ p.names = names /\ p.body = Tail(s)
          BY <2>2, <2>3, <2>4, <3>1, <3>4
        <4> QED BY <1>2, <1>3, <1>4, <2>3, <2>4, <3>1, <3>2, <3>4, <4>1 DEF names
      <3> QED BY <3>3, <3>4
    <2>5. CASE HeaderLines(s) # {1}
      <3>1. p.ok = FALSE
        BY <2>2, <2>3, <2>5 DEF Rejected
      <3>2. ~(HeaderLines(s) \subseteq {1})
        BY <2>3, <2>5
      <3> QED BY <1>2, <1>3, <3>1, <3>2
    <2> QED BY <2>4, <2>5
  <1>5. CASE ~(s # << >> /\ IsDirective(s[1]))
    <2> DEFINE malformed == s # << >> /\ looksLikeDirective(s[1]) /\ ~isStatementMarkerLine(s[1])
    <2>1. p = IF malformed \/ ~checkNoLateDirectives(s) THEN Rejected
              ELSE [ok |-> TRUE, names |-> {}, body |-> s]
      BY <1>5 DEF ParseDirectiveHeader
    <2>2. checkNoLateDirectives(s) <=> HeaderLines(s) = {}
      BY DEF checkNoLateDirectives, HeaderLines
    <2>3. HeaderLines(s) \subseteq {1} => HeaderLines(s) = {}
      <3> SUFFICES ASSUME 1 \in HeaderLines(s) PROVE FALSE
        OBVIOUS
      <3>1. 1 \in DOMAIN s /\ IsDirective(s[1])
        BY DEF HeaderLines
      <3> QED BY <1>5, <3>1
    <2>4. TrimSpace(s) = << >> <=> s = << >>
      <3>1. TrimSpace(s) = << >> <=> \A k \in DOMAIN s : Blank(s[k])
        BY <1>1, TrimFacts
      <3>2. s # << >> => 1 \in DOMAIN s
        BY <1>1, EmptySeq, LenProperties
      <3> QED BY <1>1, <3>1, <3>2
    <2>5. s = << >> <=> Len(s) <= 0
      BY <1>1, EmptySeq, LenProperties
    <2> HIDE DEF p
    <2>6. CASE HeaderLines(s) = {}
      <3>1. names = {} /\ Cardinality(HeaderLines(s)) = 0
        BY <2>6, FS_EmptySet
      <3> HIDE DEF names
      <3>2. CASE malformed
        BY <1>2, <1>3, <1>5, <2>1, <3>2 DEF Rejected
      <3>3. CASE ~malformed
        <4>1. p.ok = TRUE /\ p.names = {} /\ p.body = s
          BY <2>1, <2>2, <2>6, <3>3
        <4> QED BY <1>2, <1>3, <2>4, <2>5, <2>6, <3>1, <3>3, <4>1 DEF names
      <3> QED BY <3>2, <3>3
    <2>7. CASE HeaderLines(s) # {}
      <3>1. p.ok = FALSE
        BY <2>1, <2>2, <2>7 DEF Rejected
      <3> QED BY <1>2, <1>3, <2>3, <2>7, <3>1
    <2> QED BY <2>6, <2>7
  <1> QED BY <1>4, <1>5

\* The executor, reading the stored script again, finds the directives of all the
\* lines that have some.
LEMMA ParsedDirectives ==
  ASSUME NEW text \in Seq(Line), NEW down \in BOOLEAN, parseScript(text, down),
         NEW k \in HeaderLines(TrimSpace(text))
  PROVE  LET s == TrimSpace(text) IN
         directiveNames(s[k]) # {} /\ directiveNames(s[k]) \subseteq DirectivesOf(s)
  <1> DEFINE s == TrimSpace(text)
             p == ParseDirectiveHeader(s)
  <1>1. IsScript(text, down)
    BY ParserAcceptsScripts
  <1>2. k = 1 /\ HeaderLines(s) = {1}
    BY <1>1 DEF IsScript
  <1>3. p.ok
    BY DEF parseScript
  <1> HIDE DEF s
  <1>4. 1 \in DOMAIN s /\ IsDirective(s[1])
    BY <1>2 DEF HeaderLines, s
  <1>5. s # << >>
    BY <1>4
  <1>6. p = IF \/ directiveNames(s[1]) = {} \/ ~(directiveNames(s[1]) \subseteq knownDirectives)
               \/ ~checkNoLateDirectives(Tail(s))
              THEN Rejected
              ELSE [ok |-> TRUE, names |-> directiveNames(s[1]), body |-> Tail(s)]
    BY <1>4, <1>5 DEF ParseDirectiveHeader
  <1> HIDE DEF p
  <1>7. directiveNames(s[1]) # {} /\ p.names = directiveNames(s[1])
    BY <1>3, <1>6 DEF Rejected
  <1> QED BY <1>2, <1>7 DEF DirectivesOf, p, s
-----------------------------------------------------------------------------
(***************************************************************************)
(* The loops.                                                              *)
(***************************************************************************)

\* The entries collectPairs has looked at, and the IDs they have this half of.
Seen == DOMAIN dir.files \ entries
HalvesIn(S, ext) == {n.id : n \in {x \in S : x.ext = ext}}

\* Every entry seen was none of the loader's business or is in ups or downs, and
\* no two of their IDs are spelled alike.
CollectInv ==
  /\ entries \subseteq DOMAIN dir.files
  /\ \A n \in Seen : Skipped(n) \/ (n.ext \in {upSuffix, downSuffix} /\ n.id # 0)
  /\ ups = HalvesIn(Seen, upSuffix) /\ downs = HalvesIn(Seen, downSuffix)
  /\ DOMAIN seenFolded = {Fold[m] : m \in ups \cup downs}
  /\ \A m \in ups \cup downs : seenFolded[Fold[m]] = m

\* The IDs of the result.
LoadedIds == {x.id : x \in ToSet(migrations)}

\* A migration of the result is a pair of files that the parser has accepted.
FromPair(x) ==
  LET u == [id |-> x.id, ext |-> upSuffix]
      d == [id |-> x.id, ext |-> downSuffix]
  IN  /\ x.id \in DOMAIN Fold /\ u \in DOMAIN dir.files /\ d \in DOMAIN dir.files
      /\ ParseMigrationPair(dir.files[u], dir.files[d])
      /\ x.up = TrimSpace(dir.files[u]) /\ x.down = TrimSpace(dir.files[d])

Ordered == \A j, k \in DOMAIN migrations : j < k => migrations[j].id < migrations[k].id

\* The pairs read so far are those below the ones that are left.
ReadInv ==
  /\ CollectInv /\ entries = {}
  /\ ups \cup downs = {} => dir.subdir # "migrations"
  /\ ids \cup LoadedIds = ups \cup downs
  /\ \A m \in LoadedIds : \A k \in ids : m < k
  /\ Ordered

LoaderInv ==
  /\ dir \in Directories
  /\ migrations \in Seq([id : DOMAIN Fold, up : Seq(Line), down : Seq(Line)])
  /\ \A x \in ToSet(migrations) : FromPair(x)
  /\ pc # "done" => answer = "none"
  /\ pc = "readDir" => ups = {} /\ downs = {} /\ DOMAIN seenFolded = {} /\ migrations = << >>
  /\ pc = "collect" => CollectInv /\ migrations = << >>
  /\ pc = "read" => ReadInv
  /\ answer = "ok" => ReadInv /\ ids = {}
  /\ answer = "invalid" => ~WellFormed

\* The directory, spelled out for the provers.
LEMMA DirFacts ==
  ASSUME LoaderInv
  PROVE  /\ \A n \in DOMAIN dir.files :
              /\ n.id \in DOMAIN Fold /\ n.ext \in Exts /\ n = [id |-> n.id, ext |-> n.ext]
              /\ dir.files[n] \in Seq(Line)
         /\ DOMAIN Fold \subseteq Nat
         /\ upSuffix # downSuffix /\ upSuffix \in SqlExts /\ downSuffix \in SqlExts
  BY FoldAssumption, DirectoriesAssumption DEF LoaderInv, upSuffix, downSuffix, SqlExts

\* The IDs in ups and downs are those of SQL files.
LEMMA CollectedAreSql ==
  ASSUME LoaderInv, CollectInv, NEW m \in ups \cup downs
  PROVE  m \in IdsOf(SqlFiles) /\ m \in DOMAIN Fold
  <1>1. PICK n \in Seen : n.id = m /\ n.ext \in {upSuffix, downSuffix}
    BY DEF CollectInv, HalvesIn
  <1>2. n \in SqlFiles /\ m \in DOMAIN Fold
    BY <1>1, DirFacts DEF Seen, SqlFiles
  <1> QED BY <1>1, <1>2 DEF IdsOf

\* When every entry has been seen they are all of them.
LEMMA AllCollected ==
  ASSUME LoaderInv, CollectInv, entries = {}
  PROVE  /\ ups \cup downs = IdsOf(SqlFiles)
         /\ \A n \in SqlFiles : n.id # 0 /\ n.ext \in {upSuffix, downSuffix}
         /\ \A m, k \in IdsOf(SqlFiles) : Fold[m] = Fold[k] => m = k
         /\ \A m : m \in ups <=> [id |-> m, ext |-> upSuffix] \in SqlFiles
         /\ \A m : m \in downs <=> [id |-> m, ext |-> downSuffix] \in SqlFiles
  <1>1. Seen = DOMAIN dir.files
    BY DEF Seen
  <1>2. \A n \in SqlFiles : n \in Seen /\ ~Skipped(n)
    BY <1>1 DEF SqlFiles, Skipped
  <1>3. \A n \in SqlFiles : n.id # 0 /\ n.ext \in {upSuffix, downSuffix}
    BY <1>2 DEF CollectInv
  <1>4. \A m : m \in ups <=> [id |-> m, ext |-> upSuffix] \in SqlFiles
    <2>1. ASSUME NEW m \in ups PROVE [id |-> m, ext |-> upSuffix] \in SqlFiles
      <3>1. PICK n \in Seen : n.id = m /\ n.ext = upSuffix
        BY DEF CollectInv, HalvesIn
      <3>2. n \in SqlFiles /\ n = [id |-> m, ext |-> upSuffix]
        BY <1>1, <3>1, DirFacts DEF SqlFiles
      <3> QED BY <3>2
    <2>2. ASSUME NEW m, [id |-> m, ext |-> upSuffix] \in SqlFiles PROVE m \in ups
      BY <1>2, <2>2 DEF CollectInv, HalvesIn
    <2> QED BY <2>1, <2>2
  <1>5. \A m : m \in downs <=> [id |-> m, ext |-> downSuffix] \in SqlFiles
    <2>1. ASSUME NEW m \in downs PROVE [id |-> m, ext |-> downSuffix] \in SqlFiles
      <3>1. PICK n \in Seen : n.id = m /\ n.ext = downSuffix
        BY DEF CollectInv, HalvesIn
      <3>2. n \in SqlFiles /\ n = [id |-> m, ext |-> downSuffix]
        BY <1>1, <3>1, DirFacts DEF SqlFiles
      <3> QED BY <3>2
    <2>2. ASSUME NEW m, [id |-> m, ext |-> downSuffix] \in SqlFiles PROVE m \in downs
      BY <1>2, <2>2 DEF CollectInv, HalvesIn
    <2> QED BY <2>1, <2>2
  <1>6. ups \cup downs = IdsOf(SqlFiles)
    <2>1. \A m \in ups \cup downs : m \in IdsOf(SqlFiles)
      BY CollectedAreSql
    <2>2. ASSUME NEW n \in SqlFiles PROVE n.id \in ups \cup downs
      BY <1>2, <1>3 DEF CollectInv, HalvesIn
    <2> QED BY <2>1, <2>2 DEF IdsOf
  <1>7. \A m, k \in IdsOf(SqlFiles) : Fold[m] = Fold[k] => m = k
    BY <1>6 DEF CollectInv
  <1> QED BY <1>3, <1>4, <1>5, <1>6, <1>7

\* Nothing has been read.
LEMMA LoaderInit == Init => LoaderInv
  <1>1. ToSet(<< >>) = {}
    BY DEF ToSet
  <1> QED BY <1>1 DEF Init, LoaderInv

\* fs.ReadDir.
LEMMA ReadDirKeeps ==
  ASSUME LoaderInv, ReadDir
  PROVE  LoaderInv'
  <1>1. /\ dir' = dir /\ migrations' = migrations /\ migrations = << >> /\ pc = "readDir"
        /\ ups = {} /\ downs = {} /\ DOMAIN seenFolded = {} /\ UNCHANGED <<ups, downs, seenFolded>>
    BY DEF LoaderInv, ReadDir
  <1>2. CASE entries' = DOMAIN dir.files /\ Goto("collect")
    <2>1. Seen' = {}
      BY <1>1, <1>2 DEF Seen
    <2>2. CollectInv'
      BY <1>1, <1>2, <2>1 DEF CollectInv, HalvesIn
    <2> QED BY <1>1, <1>2, <2>2 DEF LoaderInv, FromPair, Goto
  <1>3. CASE Answer("unreadable")
    BY <1>1, <1>3 DEF LoaderInv, FromPair, Answer
  <1> QED BY <1>2, <1>3 DEF ReadDir
\* An entry the loader refuses is one a well-formed directory does not have.
LEMMA RefusedEntry ==
  ASSUME LoaderInv, CollectInv, NEW n \in entries, ~Skipped(n),
         \/ n.ext \notin {upSuffix, downSuffix}
         \/ n.id = 0
         \/ Fold[n.id] \in DOMAIN seenFolded /\ seenFolded[Fold[n.id]] # n.id
  PROVE  ~WellFormed
  <1>1. n \in SqlFiles /\ n.id \in IdsOf(SqlFiles)
    BY DEF CollectInv, Skipped, SqlFiles, IdsOf
  <1>2. CASE n.ext \notin {upSuffix, downSuffix} \/ n.id = 0
    BY <1>1, <1>2 DEF WellFormed
  <1>3. CASE Fold[n.id] \in DOMAIN seenFolded /\ seenFolded[Fold[n.id]] # n.id
    <2>1. PICK m \in ups \cup downs : Fold[n.id] = Fold[m]
      BY <1>3 DEF CollectInv
    <2>2. m # n.id
      BY <1>3, <2>1 DEF CollectInv
    <2>3. m \in IdsOf(SqlFiles)
      BY CollectedAreSql
    <2> QED BY <1>1, <2>1, <2>2, <2>3 DEF WellFormed
  <1> QED BY <1>2, <1>3

\* One turn of collectPairs' loop.
LEMMA CollectEntryKeeps ==
  ASSUME LoaderInv, NEW n \in DOMAIN dir.files, CollectEntry(n)
  PROVE  LoaderInv'
  <1>1. /\ pc = "collect" /\ CollectInv /\ migrations = << >> /\ n \in entries
        /\ entries' = entries \ {n} /\ UNCHANGED <<dir, ids, migrations>>
        /\ entries \subseteq DOMAIN dir.files
    BY DEF LoaderInv, CollectEntry, CollectInv
  <1>2. Seen' = Seen \cup {n}
    BY <1>1 DEF Seen
  <1>3. CASE Skipped(n) /\ UNCHANGED <<pc, ups, downs, seenFolded, answer>>
    <2>1. n.ext \notin {upSuffix, downSuffix}
      BY <1>3, DirFacts DEF Skipped
    <2>2. \A ext \in {upSuffix, downSuffix} : HalvesIn(Seen', ext) = HalvesIn(Seen, ext)
      BY <1>2, <2>1 DEF HalvesIn
    <2>3. CollectInv'
      BY <1>1, <1>2, <1>3, <2>2 DEF CollectInv, Skipped
    <2> QED BY <1>1, <1>3, <2>3 DEF LoaderInv, FromPair
  <1>4. CASE /\ ~Skipped(n) /\ Answer("invalid")
             /\ \/ n.ext \notin {upSuffix, downSuffix}
                \/ n.id = 0
                \/ Fold[n.id] \in DOMAIN seenFolded /\ seenFolded[Fold[n.id]] # n.id
    <2>1. ~WellFormed
      BY <1>1, <1>4, RefusedEntry
    <2>2. ~WellFormed'
      BY <1>1, <2>1 DEF WellFormed, IdsOf, SqlFiles
    <2> QED BY <1>1, <1>4, <2>2 DEF LoaderInv, FromPair, Answer
  <1>5. CASE /\ n.ext \in {upSuffix, downSuffix} /\ n.id # 0
             /\ Fold[n.id] \in DOMAIN seenFolded => seenFolded[Fold[n.id]] = n.id
             /\ ups' = IF n.ext = upSuffix THEN ups \cup {n.id} ELSE ups
             /\ downs' = IF n.ext = downSuffix THEN downs \cup {n.id} ELSE downs
             /\ seenFolded' = [f \in DOMAIN seenFolded \cup {Fold[n.id]} |->
                                 IF f = Fold[n.id] THEN n.id ELSE seenFolded[f]]
             /\ UNCHANGED <<pc, answer>>
    <2>1. upSuffix # downSuffix
      BY DirFacts
    <2>2. ups' \cup downs' = ups \cup downs \cup {n.id}
      BY <1>5
    <2>3. /\ ups' = HalvesIn(Seen', upSuffix) /\ downs' = HalvesIn(Seen', downSuffix)
      <3>1. /\ HalvesIn(Seen', upSuffix) =
                 IF n.ext = upSuffix THEN HalvesIn(Seen, upSuffix) \cup {n.id}
                                     ELSE HalvesIn(Seen, upSuffix)
            /\ HalvesIn(Seen', downSuffix) =
                 IF n.ext = downSuffix THEN HalvesIn(Seen, downSuffix) \cup {n.id}
                                       ELSE HalvesIn(Seen, downSuffix)
        BY <1>2 DEF HalvesIn
      <3> QED BY <1>1, <1>5, <3>1 DEF CollectInv
    <2>4. DOMAIN seenFolded' = {Fold[m] : m \in ups' \cup downs'}
      BY <1>1, <1>5, <2>2 DEF CollectInv
    <2>5. ASSUME NEW m \in ups' \cup downs' PROVE seenFolded'[Fold[m]] = m
      <3>1. CASE Fold[m] = Fold[n.id]
        <4>1. m = n.id
          BY <1>1, <1>5, <2>2, <3>1 DEF CollectInv
        <4> QED BY <1>5, <4>1
      <3>2. CASE Fold[m] # Fold[n.id]
        <4>1. m \in ups \cup downs
          BY <2>2, <3>2
        <4>2. Fold[m] \in DOMAIN seenFolded /\ seenFolded[Fold[m]] = m
          BY <1>1, <4>1 DEF CollectInv
        <4> QED BY <1>5, <3>2, <4>2
      <3> QED BY <3>1, <3>2
    <2>6. \A x \in Seen' : Skipped(x) \/ (x.ext \in {upSuffix, downSuffix} /\ x.id # 0)
      BY <1>1, <1>2, <1>5 DEF CollectInv
    <2>7. CollectInv'
      BY <1>1, <2>3, <2>4, <2>5, <2>6 DEF CollectInv, Skipped
    <2> QED BY <1>1, <1>5, <2>7 DEF LoaderInv, FromPair
  <1> QED BY <1>3, <1>4, <1>5 DEF CollectEntry

\* Every entry is sorted.
LEMMA CollectedKeeps ==
  ASSUME LoaderInv, Collected
  PROVE  LoaderInv'
  <1>1. /\ pc = "collect" /\ CollectInv /\ migrations = << >> /\ entries = {}
        /\ UNCHANGED <<dir, entries, ups, downs, seenFolded, migrations>>
    BY DEF LoaderInv, Collected
  <1>2. CollectInv'
    BY <1>1 DEF CollectInv, Seen, Skipped, HalvesIn
  <1>3. CASE ups \cup downs = {} /\ dir.subdir = "migrations" /\ Answer("invalid")
    <2>1. SqlFiles = {}
      <3>1. IdsOf(SqlFiles) = {}
        BY <1>1, <1>3, AllCollected
      <3> QED BY <3>1 DEF IdsOf
    <2>2. ~WellFormed'
      BY <1>1, <1>3, <2>1 DEF WellFormed, SqlFiles
    <2> QED BY <1>1, <1>3, <2>2 DEF LoaderInv, FromPair, Answer
  <1>4. CASE /\ ~(ups \cup downs = {} /\ dir.subdir = "migrations")
             /\ Goto("read") /\ ids' = ups \cup downs
    <2>1. LoadedIds' = {} /\ DOMAIN migrations' = {}
      BY <1>1 DEF LoadedIds, ToSet
    <2>2. ReadInv'
      BY <1>1, <1>2, <1>4, <2>1 DEF ReadInv, Ordered
    <2> QED BY <1>1, <1>4, <2>2 DEF LoaderInv, FromPair, Goto
  <1> QED BY <1>1, <1>3, <1>4 DEF Collected

\* A pair the loader refuses is one a well-formed directory does not have.
LEMMA RefusedPair ==
  ASSUME LoaderInv, ReadInv, NEW m \in ids,
         \/ m \notin ups \/ m \notin downs
         \/ ~ParseMigrationPair(File(m, upSuffix), File(m, downSuffix))
  PROVE  ~WellFormed
  <1> SUFFICES ASSUME WellFormed PROVE FALSE
    OBVIOUS
  <1> DEFINE u == [id |-> m, ext |-> upSuffix]
             d == [id |-> m, ext |-> downSuffix]
  <1>1. CollectInv /\ entries = {} /\ m \in ups \cup downs
    BY DEF ReadInv
  <1>2. m \in IdsOf(SqlFiles)
    BY <1>1, CollectedAreSql
  <1>3. u \in SqlFiles /\ d \in SqlFiles /\ IsScript(dir.files[u], FALSE) /\ IsScript(dir.files[d], TRUE)
    BY <1>2 DEF WellFormed
  <1>4. m \in ups /\ m \in downs
    BY <1>1, <1>3, AllCollected
  <1>5. dir.files[u] \in Seq(Line) /\ dir.files[d] \in Seq(Line)
    BY <1>3, DirFacts DEF SqlFiles
  <1>6. parseScript(dir.files[u], FALSE) /\ parseScript(dir.files[d], TRUE)
    BY <1>3, <1>5, ParserAcceptsScripts
  <1> QED BY <1>4, <1>6 DEF ParseMigrationPair, File

\* One turn of the loop over the IDs.
LEMMA ReadPairKeeps ==
  ASSUME LoaderInv, NEW m \in DOMAIN Fold, ReadPair(m)
  PROVE  LoaderInv'
  <1> DEFINE u == [id |-> m, ext |-> upSuffix]
             d == [id |-> m, ext |-> downSuffix]
             x == [id |-> m, up |-> TrimSpace(File(m, upSuffix)),
                   down |-> TrimSpace(File(m, downSuffix))]
             Migration == [id : DOMAIN Fold, up : Seq(Line), down : Seq(Line)]
  <1>1. /\ pc = "read" /\ ReadInv /\ m \in ids /\ (\A k \in ids : m <= k)
        /\ UNCHANGED <<dir, entries, ups, downs, seenFolded>>
        /\ migrations \in Seq(Migration) /\ answer = "none"
    BY DEF LoaderInv, ReadPair, NextID
  <1>2. ASSUME Answer("invalid"), UNCHANGED <<ids, migrations>>, ~WellFormed PROVE LoaderInv'
    <2>1. ~WellFormed'
      BY <1>1, <1>2 DEF WellFormed, IdsOf, SqlFiles
    <2> QED BY <1>1, <1>2, <2>1 DEF LoaderInv, FromPair, Answer
  <1>3. CASE (m \notin ups \/ m \notin downs) /\ Answer("invalid") /\ UNCHANGED <<ids, migrations>>
    BY <1>1, <1>2, <1>3, RefusedPair
  <1>4. CASE Answer("unreadable") /\ UNCHANGED <<ids, migrations>>
    BY <1>1, <1>4 DEF LoaderInv, FromPair, Answer
  <1>5. CASE /\ ~ParseMigrationPair(File(m, upSuffix), File(m, downSuffix))
             /\ Answer("invalid") /\ UNCHANGED <<ids, migrations>>
    BY <1>1, <1>2, <1>5, RefusedPair
  <1>6. CASE /\ m \in ups \cap downs
             /\ ParseMigrationPair(File(m, upSuffix), File(m, downSuffix))
             /\ ids' = ids \ {m} /\ migrations' = Append(migrations, x)
             /\ UNCHANGED <<pc, answer>>
    <2>1. u \in DOMAIN dir.files /\ d \in DOMAIN dir.files
      <3>1. u \in SqlFiles /\ d \in SqlFiles
        BY <1>1, <1>6, AllCollected DEF ReadInv
      <3> QED BY <3>1 DEF SqlFiles
    <2>2. File(m, upSuffix) \in Seq(Line) /\ File(m, downSuffix) \in Seq(Line)
      BY <2>1, DirFacts DEF File
    <2>3. x \in Migration
      BY <2>2, TrimFacts
    <2>4. FromPair(x)
      BY <1>6, <2>1 DEF FromPair, File
    <2> DEFINE n == Len(migrations)
    <2>5. x.id = m
      OBVIOUS
    <2> HIDE DEF x, Migration
    <2>6. /\ n \in Nat /\ DOMAIN migrations = 1 .. n
          /\ migrations' \in Seq(Migration) /\ DOMAIN migrations' = 1 .. n+1
          /\ \A k \in 1 .. n : migrations'[k] = migrations[k]
          /\ migrations'[n+1] = x
      BY <1>1, <1>6, <2>3, AppendProperties, LenProperties
    <2> HIDE DEF n
    <2>7. ToSet(migrations') = ToSet(migrations) \cup {x}
      <3>1. /\ ToSet(migrations') = {migrations'[k] : k \in 1 .. n+1}
            /\ ToSet(migrations) = {migrations[k] : k \in 1 .. n}
        BY <2>6 DEF ToSet
      <3>2. \A k \in 1 .. n+1 : k \in 1 .. n \/ k = n + 1
        BY <2>6
      <3>3. n + 1 \in 1 .. n+1 /\ \A k \in 1 .. n : k \in 1 .. n+1
        BY <2>6
      <3> QED BY <2>6, <3>1, <3>2, <3>3
    <2>8. \A y \in ToSet(migrations') : FromPair(y)'
      BY <1>1, <2>4, <2>7 DEF LoaderInv, FromPair
    <2>9. LoadedIds' = LoadedIds \cup {m}
      BY <2>5, <2>7 DEF LoadedIds
    <2>10. ids' \cup LoadedIds' = ups' \cup downs'
      BY <1>1, <1>6, <2>9 DEF ReadInv
    <2>11. ids \subseteq Nat /\ m \in Nat
      <3>1. \A k \in ids : k \in DOMAIN Fold
        BY <1>1, CollectedAreSql DEF ReadInv
      <3> QED BY <1>1, <3>1, FoldAssumption
    <2>12. \A j \in LoadedIds' : \A k \in ids' : j < k
      BY <1>1, <1>6, <2>9, <2>11 DEF ReadInv
    <2>13. Ordered'
      <3> SUFFICES ASSUME NEW j \in 1 .. n+1, NEW k \in 1 .. n+1, j < k
                   PROVE  migrations'[j].id < migrations'[k].id
        BY <2>6 DEF Ordered
      <3>1. j \in 1 .. n
        BY <2>6
      <3>2. CASE k \in 1 .. n
        BY <1>1, <2>6, <3>1, <3>2 DEF ReadInv, Ordered
      <3>3. CASE k = n + 1
        <4>1. migrations[j].id \in LoadedIds
          BY <2>6, <3>1 DEF LoadedIds, ToSet
        <4> QED BY <1>1, <2>5, <2>6, <3>1, <3>3, <4>1 DEF ReadInv
      <3> QED BY <2>6, <3>2, <3>3
    <2>14. CollectInv'
      BY <1>1 DEF ReadInv, CollectInv, Seen, Skipped, HalvesIn
    <2>15. ReadInv'
      BY <1>1, <2>10, <2>12, <2>13, <2>14 DEF ReadInv
    <2> QED BY <1>1, <1>6, <2>6, <2>8, <2>15 DEF LoaderInv, Migration
  <1> QED BY <1>3, <1>4, <1>5, <1>6 DEF ReadPair

\* The last pair has been read.
LEMMA LoadedKeeps ==
  ASSUME LoaderInv, Loaded
  PROVE  LoaderInv'
  <1>1. /\ pc = "read" /\ ReadInv /\ ids = {} /\ Answer("ok")
        /\ UNCHANGED <<dir, entries, ups, downs, seenFolded, ids, migrations>>
    BY DEF LoaderInv, Loaded
  <1>2. ReadInv'
    BY <1>1 DEF ReadInv, CollectInv, Seen, Skipped, HalvesIn, LoadedIds, Ordered
  <1> QED BY <1>1, <1>2 DEF LoaderInv, FromPair, Answer

\* The invariant is inductive.
LEMMA LoaderStep == LoaderInv /\ [Next]_vars => LoaderInv'
  <1> SUFFICES ASSUME LoaderInv, [Next]_vars PROVE LoaderInv'
    OBVIOUS
  <1>1. CASE UNCHANGED vars
    BY <1>1 DEF vars, LoaderInv, FromPair, CollectInv, Seen, Skipped, HalvesIn, ReadInv,
       LoadedIds, Ordered, WellFormed, IdsOf, SqlFiles
  <1> QED BY <1>1, ReadDirKeeps, CollectEntryKeeps, CollectedKeeps, ReadPairKeeps, LoadedKeeps
      DEF Next
-----------------------------------------------------------------------------
\* What the loader has when it answers with the migrations.
LEMMA AnswerIsWhole ==
  ASSUME LoaderInv, answer = "ok"
  PROVE  WellFormed /\ LoadedIds = IdsOf(SqlFiles) /\ Ordered
  <1>1. /\ CollectInv /\ entries = {} /\ ids = {} /\ LoadedIds = ups \cup downs /\ Ordered
        /\ ups \cup downs = {} => dir.subdir # "migrations"
    BY DEF LoaderInv, ReadInv
  <1>2. LoadedIds = IdsOf(SqlFiles)
    BY <1>1, AllCollected
  <1>3. ASSUME NEW m \in IdsOf(SqlFiles)
        PROVE  \E u, d \in SqlFiles :
                 /\ u = [id |-> m, ext |-> upSuffix] /\ d = [id |-> m, ext |-> downSuffix]
                 /\ IsScript(dir.files[u], FALSE) /\ IsScript(dir.files[d], TRUE)
    <2> DEFINE u == [id |-> m, ext |-> upSuffix]
               d == [id |-> m, ext |-> downSuffix]
    <2>1. PICK x \in ToSet(migrations) : x.id = m
      BY <1>2 DEF LoadedIds
    <2>2. /\ u \in DOMAIN dir.files /\ d \in DOMAIN dir.files
          /\ parseScript(dir.files[u], FALSE) /\ parseScript(dir.files[d], TRUE)
      BY <2>1 DEF LoaderInv, FromPair, ParseMigrationPair
    <2>3. dir.files[u] \in Seq(Line) /\ dir.files[d] \in Seq(Line)
      BY <2>2, DirFacts
    <2>4. IsScript(dir.files[u], FALSE) /\ IsScript(dir.files[d], TRUE)
      BY <2>2, <2>3, ParserAcceptsScripts
    <2>5. u \in SqlFiles /\ d \in SqlFiles
      BY <2>2, DirFacts DEF SqlFiles
    <2> QED BY <2>4, <2>5
  <1>4. SqlFiles = {} => dir.subdir # "migrations"
    BY <1>1, <1>2 DEF IdsOf
  <1>5. WellFormed
    BY <1>1, <1>3, <1>4, AllCollected DEF WellFormed
  <1> QED BY <1>1, <1>2, <1>5

(***************************************************************************)
(* GetMigrations answers with all the migrations of a well-formed          *)
(* directory, in ascending order of their IDs, and with an error for any   *)
(* other, for every directory and every text: what parseScript accepts     *)
(* line by line, and collectPairs name by name, is what the definition of  *)
(* a well-formed directory says of the whole.                              *)
(***************************************************************************)
THEOREM LoaderIsExact == Spec => []LoadIsExact
  <1>1. LoaderInv => LoadIsExact
    BY AnswerIsWhole DEF LoaderInv, LoadIsExact, LoadedIds, Ordered
  <1> QED BY <1>1, LoaderInit, LoaderStep, PTL DEF Spec

(***************************************************************************)
(* A .sql file, in any spelling of the extension, is in the result of a    *)
(* load that succeeds, with its text: collectPairs and the loop over the   *)
(* pairs skip none in silence.                                             *)
(***************************************************************************)
THEOREM NoFileIsSilent == Spec => []NoSqlFileIsSilent
  <1>1. LoaderInv => NoSqlFileIsSilent
    <2> SUFFICES ASSUME LoaderInv, answer = "ok", NEW n \in DOMAIN dir.files, n.ext # ".md"
                 PROVE  \E x \in ToSet(migrations) :
                          /\ x.id = n.id
                          /\ TrimSpace(dir.files[n]) = IF n.ext = upSuffix THEN x.up ELSE x.down
      BY DEF NoSqlFileIsSilent
    <2>1. n \in SqlFiles /\ n = [id |-> n.id, ext |-> n.ext]
      BY DirFacts DEF SqlFiles, Exts
    <2>2. n.ext \in {upSuffix, downSuffix}
      BY <2>1, AnswerIsWhole DEF WellFormed
    <2>3. PICK x \in ToSet(migrations) : x.id = n.id
      BY <2>1, AnswerIsWhole DEF LoadedIds, IdsOf
    <2>4. FromPair(x)
      BY <2>3 DEF LoaderInv
    <2> QED BY <2>1, <2>2, <2>3, <2>4 DEF FromPair
  <1> QED BY <1>1, LoaderInit, LoaderStep, PTL DEF Spec

(***************************************************************************)
(* Every directive line of a loaded script is in force when the executor   *)
(* reads the stored script again: ParseDirectiveHeader has refused those   *)
(* it would not see there.                                                 *)
(***************************************************************************)
THEOREM DirectivesOfLoadedAreInForce == Spec => []DirectivesAreInForce
  <1>1. LoaderInv => DirectivesAreInForce
    <2> SUFFICES ASSUME LoaderInv, NEW x \in ToSet(migrations), NEW s \in {x.up, x.down},
                        NEW k \in HeaderLines(s)
                 PROVE  directiveNames(s[k]) # {} /\ directiveNames(s[k]) \subseteq DirectivesOf(s)
      BY DEF DirectivesAreInForce
    <2>1. PICK n \in DOMAIN dir.files, down \in BOOLEAN :
            parseScript(dir.files[n], down) /\ s = TrimSpace(dir.files[n])
      BY DEF LoaderInv, FromPair, ParseMigrationPair
    <2>2. dir.files[n] \in Seq(Line)
      BY <2>1, DirFacts
    <2> QED BY <2>1, <2>2, ParsedDirectives
  <1> QED BY <1>1, LoaderInit, LoaderStep, PTL DEF Spec
=============================================================================
