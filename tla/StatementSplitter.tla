-------------------------- MODULE StatementSplitter --------------------------
(***************************************************************************)
(* splitSQLStatements (internal/migrator/custom_executor.go), the scanner  *)
(* that cuts a notransaction script into the statements to execute, and a  *)
(* reference definition of where its statements end.                       *)
(*                                                                         *)
(* A script is a sequence of characters: a letter, the letter e, a digit,  *)
(* and the characters the scanner looks for.  Blanks, which it trims, and  *)
(* signs beyond ASCII that are no letters are left out.  "Begin" and "End" *)
(* are the texts of the two markers, which are comments unless they have a *)
(* line to themselves; "Long" is ordinary text longer than the buffer of a *)
(* bufio.Scanner.  A statement is a pair of places in the script:          *)
(* statements are cut out of it, never made.                               *)
(***************************************************************************)
EXTENDS Naturals, SequencesExt

CONSTANT Scripts

Letters == {"x", "e", "Long"}
Digits == {"1"}
Identifier == Letters \cup Digits       \* isIdentifierByte
Markers == {"Begin", "End"}
DoubleQuote == "\""
Chars == Identifier \cup Markers \cup {"'", DoubleQuote, "$", "-", "/", "*", ";", "\\", "\n"}

ASSUME ScriptsAssumption == Scripts \subseteq Seq(Chars)

VARIABLES
  script,
  pos,                \* the place of the next character
  state,              \* the lexical context
  dollarTag, blockCommentDepth, inStatementBlock, escapeString,
  start,              \* where the buffer starts; it ends before pos
  statements,
  result              \* "none" until the scanner returns

lexer == <<state, dollarTag, blockCommentDepth, escapeString>>
output == <<start, statements>>
vars == <<script, pos, lexer, inStatementBlock, output, result>>

scanStates == {"normal", "singleQuote", "doubleQuote", "dollarQuote", "blockComment"}

\* Places past the end of the script look like the end of a line.
At(k) == IF k \in DOMAIN script THEN script[k] ELSE "\n"
Pair(k) == <<At(k), At(k + 1)>>
LineEnd(k) == Min({j \in k .. Len(script) + 1 : At(j) = "\n"})
LineStart(k) == k = 1 \/ At(k - 1) = "\n"

\* A line comment starts at k.
Dashes(k) == At(k) \in Markers \/ (At(k) = "-" /\ At(k + 1) \in Markers \cup {"-"})

\* The trimmed line at k is the marker m and nothing else.
MarkerLine(k, m) == LineStart(k) /\ At(k) = m /\ At(k + 1) = "\n"

\* The E of E'...' is a token of its own.
isEscapeStringPrefix(k) ==
  k > 1 /\ At(k - 1) = "e" /\ (k > 2 => At(k - 2) \notin Identifier)

\* The delimiter $tag$ that starts at k, or the empty sequence.  No tag starts with
\* a digit: $1 is a parameter.
matchDollarTag(k) ==
  LET j == Min({i \in k + 1 .. Len(script) + 1 : At(i) \notin Identifier})
  IN  IF At(j) = "$" /\ At(k + 1) \notin Digits THEN SubSeq(script, k, j) ELSE << >>

(***************************************************************************)
(* isOnlyComments goes through the lines of a text with a bufio.Scanner,   *)
(* which stops at a line it has no room for.                               *)
(***************************************************************************)
isOnlyComments(a, b) ==
  LET lines == {k \in a .. b : k = a \/ At(k - 1) = "\n"}
      fits(k) == \A j \in k .. b : At(j) = "Long" => LineEnd(k) < j
  IN  \A k \in lines :
        (\A earlier \in lines : earlier <= k => fits(earlier)) => At(k) = "\n" \/ Dashes(k)

isEmptyStatement(a, b) ==
  (\A k \in a .. b : At(k) \in {";", "\n"}) \/ isOnlyComments(a, b)

Init ==
  /\ script \in Scripts
  /\ pos = 1 /\ state = "normal" /\ dollarTag = << >> /\ blockCommentDepth = 0
  /\ inStatementBlock = FALSE /\ escapeString = FALSE
  /\ start = 1 /\ statements = << >>
  /\ result = "none"

\* appendStatement dropping a text whose first line is a comment.
appendUncommented(last, next) ==
  /\ statements' = IF isEmptyStatement(start, last) \/ Dashes(start) THEN statements
                   ELSE Append(statements, <<start, last>>)
  /\ start' = next

\* appendStatement: what is buffered up to last, unless it is empty.
appendStatement(last, next) ==
  /\ statements' = IF isEmptyStatement(start, last) THEN statements
                   ELSE Append(statements, <<start, last>>)
  /\ start' = next
-----------------------------------------------------------------------------
(***************************************************************************)
(* Lines that are not scanned.                                             *)
(***************************************************************************)

AtBegin == ~inStatementBlock /\ state = "normal" /\ MarkerLine(pos, "Begin")
More == result = "none" /\ pos <= Len(script)

StatementBegin ==
  /\ More /\ AtBegin
  /\ appendStatement(pos - 1, pos + 2)
  /\ inStatementBlock' = TRUE
  /\ pos' = pos + 2
  /\ UNCHANGED <<script, lexer, result>>

StatementEnd ==
  /\ More /\ inStatementBlock /\ state = "normal" /\ MarkerLine(pos, "End")
  /\ appendStatement(pos - 1, pos + 2)
  /\ inStatementBlock' = FALSE
  /\ pos' = pos + 2
  /\ UNCHANGED <<script, lexer, result>>

BlockLine ==
  /\ More /\ inStatementBlock /\ ~(state = "normal" /\ MarkerLine(pos, "End"))
  /\ pos' = LineEnd(pos) + 1
  /\ UNCHANGED <<script, lexer, inStatementBlock, output, result>>
-----------------------------------------------------------------------------
(***************************************************************************)
(* The scanner, one action per lexical context.                            *)
(***************************************************************************)

Scanning(s) == More /\ ~inStatementBlock /\ ~AtBegin /\ state = s
Advance(n) == pos' = pos + n

Enter(s) ==
  /\ state' = s
  /\ escapeString' = (s = "singleQuote" /\ isEscapeStringPrefix(pos))
  /\ dollarTag' = IF s = "dollarQuote" THEN matchDollarTag(pos) ELSE << >>
  /\ blockCommentDepth' = IF s = "blockComment" THEN 1 ELSE 0
  /\ Advance(CASE s = "blockComment" -> 2
               [] s = "dollarQuote"  -> Len(matchDollarTag(pos))
               [] OTHER              -> 1)
  /\ UNCHANGED output

Leave(n) ==
  /\ state' = "normal" /\ escapeString' = FALSE /\ dollarTag' = << >> /\ blockCommentDepth' = 0
  /\ Advance(n)

ScanNormal ==
  /\ Scanning("normal")
  /\ LET c == At(pos)
         isDollar == c = "$" /\ matchDollarTag(pos) # << >>
         isBlock == Pair(pos) = <<"/", "*">>
     IN  \/ c = "'" /\ Enter("singleQuote")
         \/ c = DoubleQuote /\ Enter("doubleQuote")
         \/ isDollar /\ Enter("dollarQuote")
         \/ isBlock /\ Enter("blockComment")
         \/ Dashes(pos) /\ pos' = LineEnd(pos) /\ UNCHANGED <<lexer, output>>
         \/ c = ";" /\ appendStatement(pos, pos + 1) /\ Advance(1) /\ UNCHANGED lexer
         \/ /\ c \notin {"'", DoubleQuote, ";"} /\ ~isDollar /\ ~isBlock /\ ~Dashes(pos)
            /\ Advance(1) /\ UNCHANGED <<lexer, output>>
  /\ UNCHANGED <<script, inStatementBlock, result>>

\* The single-quote case without the backslash of an E-string.
ScanSingleQuotePlain ==
  /\ Scanning("singleQuote")
  /\ \/ At(pos) = "'" /\ At(pos + 1) # "'" /\ Leave(1)
     \/ Pair(pos) = <<"'", "'">> /\ Advance(2) /\ UNCHANGED lexer
     \/ At(pos) # "'" /\ Advance(1) /\ UNCHANGED lexer
  /\ UNCHANGED <<script, inStatementBlock, output, result>>

\* A backslash skips what follows, be it a quote or the end of the line.
ScanSingleQuote ==
  /\ Scanning("singleQuote")
  /\ LET skips == escapeString /\ At(pos) = "\\"
     IN  \/ skips /\ Advance(2) /\ UNCHANGED lexer
         \/ At(pos) = "'" /\ At(pos + 1) # "'" /\ Leave(1)
         \/ Pair(pos) = <<"'", "'">> /\ Advance(2) /\ UNCHANGED lexer
         \/ ~skips /\ At(pos) # "'" /\ Advance(1) /\ UNCHANGED lexer
  /\ UNCHANGED <<script, inStatementBlock, output, result>>

ScanDoubleQuote ==
  /\ Scanning("doubleQuote")
  /\ \/ At(pos) = DoubleQuote /\ At(pos + 1) # DoubleQuote /\ Leave(1)
     \/ Pair(pos) = <<DoubleQuote, DoubleQuote>> /\ Advance(2) /\ UNCHANGED lexer
     \/ At(pos) # DoubleQuote /\ Advance(1) /\ UNCHANGED lexer
  /\ UNCHANGED <<script, inStatementBlock, output, result>>

ScanDollarQuote ==
  /\ Scanning("dollarQuote")
  /\ LET n == Len(dollarTag)
         closes == SubSeq(script, pos, Min({pos + n - 1, Len(script)})) = dollarTag
     IN  \/ closes /\ Leave(n)
         \/ ~closes /\ Advance(1) /\ UNCHANGED lexer
  /\ UNCHANGED <<script, inStatementBlock, output, result>>

ScanBlockComment ==
  /\ Scanning("blockComment")
  /\ LET nest(d) == blockCommentDepth' = d /\ Advance(2) /\ UNCHANGED <<state, dollarTag, escapeString>>
     IN  CASE Pair(pos) = <<"*", "/">> ->
                IF blockCommentDepth = 1 THEN Leave(2) ELSE nest(blockCommentDepth - 1)
           [] Pair(pos) = <<"/", "*">> -> nest(blockCommentDepth + 1)
           [] OTHER -> Advance(1) /\ UNCHANGED lexer
  /\ UNCHANGED <<script, inStatementBlock, output, result>>

\* The end of the script: an open block is an error, other text a statement.
Return ==
  /\ result = "none" /\ pos > Len(script)
  /\ IF inStatementBlock
       THEN result' = "error" /\ statements' = << >> /\ UNCHANGED start
       ELSE result' = "ok" /\ appendStatement(Len(script), Len(script) + 1)
  /\ UNCHANGED <<script, pos, lexer, inStatementBlock>>

Next ==
  \/ StatementBegin \/ StatementEnd \/ BlockLine
  \/ ScanNormal \/ ScanSingleQuote \/ ScanDoubleQuote \/ ScanDollarQuote \/ ScanBlockComment
  \/ Return

Spec == Init /\ [][Next]_vars /\ WF_vars(Next)
-----------------------------------------------------------------------------
(***************************************************************************)
(* The reference.  A script is a sequence of units: string literals,       *)
(* quoted names, dollar-quoted texts, comments, statement blocks, and      *)
(* single characters.  Each is described by where it closes, as a whole.   *)
(***************************************************************************)

FirstOr(S, otherwise) == IF S = {} THEN otherwise ELSE Min(S)

\* How many places of S there are side by side right before k, from i on.
Run(S, i, k) == k - Max({j \in i .. k : j = i \/ j - 1 \notin S})

\* The elements of S up to k.
UpTo(S, k) == {j \in S : j <= k}

\* The places of backslashes, in an E-string.
Escapes(i) == IF isEscapeStringPrefix(i) THEN {k \in DOMAIN script : At(k) = "\\"} ELSE {}

\* The quotes of a literal opened at i that no backslash takes away.
Quotes(i, q, escapes) ==
  {k \in i + 1 .. Len(script) : At(k) = q /\ Run(escapes, i + 1, k) % 2 = 0}

\* The quote that ends the literal: doubled quotes come in pairs before it.
QuotedEnd(i, q, escapes) ==
  LET quotes == Quotes(i, q, escapes)
  IN  FirstOr({k \in quotes : At(k + 1) # q /\ Cardinality(UpTo(quotes, k)) % 2 = 1},
              Len(script))

\* The end of the first repetition of the delimiter.
DollarEnd(i) ==
  LET n == Len(matchDollarTag(i))
  IN  FirstOr({k \in i + 2 * n - 1 .. Len(script) :
                 SubSeq(script, k - n + 1, k) = matchDollarTag(i)}, Len(script))

\* Of brackets that overlap, as in /*/, every other one counts.
BracketPairs == {k \in DOMAIN script : Pair(k) \in {<<"/", "*">>, <<"*", "/">>}}
Brackets(i, c) == {k \in BracketPairs : k >= i /\ At(k) = c /\ Run(BracketPairs, i, k) % 2 = 0}

\* Comments nest: the first bracket up to which as many close as open.
CommentEnd(i) ==
  LET opens == Brackets(i, "/")
      closes == Brackets(i, "*")
  IN  1 + FirstOr({k \in closes : Cardinality(UpTo(opens, k)) = Cardinality(UpTo(closes, k))},
                  Len(script) - 1)

BlockEnds(i) == {k \in i + 1 .. Len(script) : MarkerLine(k, "End")}

UnitEnd(i) ==
  CASE MarkerLine(i, "Begin") -> FirstOr(BlockEnds(i), Len(script)) + 1
    [] At(i) = "'" -> QuotedEnd(i, "'", Escapes(i))
    [] At(i) = DoubleQuote -> QuotedEnd(i, DoubleQuote, {})
    [] At(i) = "$" /\ matchDollarTag(i) # << >> -> DollarEnd(i)
    [] Dashes(i) /\ ~MarkerLine(i, "Begin") -> LineEnd(i) - 1
    [] Pair(i) = <<"/", "*">> -> CommentEnd(i)
    [] OTHER -> i

\* Where the unit starts that a place belongs to: a unit begins behind the end of
\* the one before it.
UnitOf[k \in DOMAIN script] ==
  IF k = 1 THEN 1
  ELSE IF k = UnitEnd(UnitOf[k - 1]) + 1 THEN k ELSE UnitOf[k - 1]

Units == {k \in DOMAIN script : UnitOf[k] = k}

Terminators(units) == {k \in units : At(k) = ";"}
Blocks(units) == {k \in units : MarkerLine(k, "Begin")}

\* The texts between terminators and outside blocks, and those of the blocks.
Outside(units) ==
  LET begins == {1} \cup {k + 1 : k \in Terminators(units)} \cup {UnitEnd(k) + 1 : k \in Blocks(units)}
      ends == {Len(script)} \cup Terminators(units) \cup {k - 1 : k \in Blocks(units)}
  IN  {<<a, Min({b \in ends : b >= a})>> : a \in {k \in begins : k \in DOMAIN script} \ Blocks(units)}

Inside(units) == {<<k + 2, Min(BlockEnds(k)) - 1>> : k \in {i \in Blocks(units) : BlockEnds(i) # {}}}

\* There is something to execute in the text: more than terminators, line ends
\* and line comments.
CarriesSQL(piece, units) ==
  \E k \in piece[1] .. piece[2] :
    /\ At(k) \notin {";", "\n"} /\ ~Dashes(k)
    /\ IF piece \in Inside(units) THEN LineStart(k) ELSE k \in units
-----------------------------------------------------------------------------
(***************************************************************************)
(* Every statement is a text the reference has, in the script's order and  *)
(* none twice: no semicolon inside a literal, a dollar-quoted body, a      *)
(* comment or a block cuts a statement, and every other one does.  The     *)
(* scanner fails exactly when a block is never closed.                     *)
(***************************************************************************)
CutsWhereStatementsEnd ==
  result # "none" =>
    LET units == Units
    IN  /\ result = "error" <=> \E k \in Blocks(units) : BlockEnds(k) = {}
        /\ ToSet(statements) \subseteq Outside(units) \cup Inside(units)
        /\ \A j, k \in DOMAIN statements : j < k => statements[j][2] < statements[k][1]

(***************************************************************************)
(* isEmptyStatement "reports whether s carries no SQL to execute": text    *)
(* that does carry SQL is never dropped.  A migration that loses a         *)
(* statement is recorded as applied all the same.                          *)
(***************************************************************************)
NoSQLIsDropped ==
  result = "ok" =>
    LET units == Units
    IN  \A piece \in Outside(units) \cup Inside(units) :
          CarriesSQL(piece, units) => piece \in ToSet(statements)
=============================================================================
