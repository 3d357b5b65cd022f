----------------------------- MODULE Directives -----------------------------
(***************************************************************************)
(* What makes a script a migration script: internal/migrator/directives.go *)
(* and internal/source/parser.go, which both the loader of the files and   *)
(* the executor of stored scripts go through.                              *)
(*                                                                         *)
(* A script is a sequence of lines.  Of a line the code reads its fields   *)
(* and, for a block marker, whether the fields are one space apart (tight).*)
(* A line of SQL leaves the statement scanner outside any quote: what      *)
(* quotes do is the subject of StatementSplitter.                          *)
(***************************************************************************)
EXTENDS Naturals, Sequences, FiniteSets

\* Fields that have a meaning somewhere; any other string is an ordinary word.
commentToken == "--"
migrateToken == "+migrate"
statementMarkers == {"StatementBegin", "StatementEnd"}
knownDirectives == {"notransaction", "irreversible"}

\* Spellings the code tells apart, by prefix, from ordinary comments.
MigratPrefixed == {"+migrate", "+migrates", "+migrat"}
FusedPrefixed == {"--+migrate", "--+migrates"}

Line == [fields : Seq(STRING), tight : BOOLEAN]

Blank(line) == line.fields = << >>

\* The statement scanner matches a marker against the whole line.
MarkerIs(line, marker) ==
  line.tight /\ line.fields = <<commentToken, migrateToken, marker>>

\* A line with "-- +migrate" that is no block marker.
IsDirective(line) ==
  LET f == line.fields IN
  /\ Len(f) >= 2 /\ f[1] = commentToken /\ f[2] = migrateToken
  /\ Len(f) > 2 => f[3] \notin statementMarkers

directiveNames(line) == {line.fields[k] : k \in 3 .. Len(line.fields)}

looksLikeDirective(line) ==
  LET f == line.fields IN
  \/ Len(f) > 0 /\ f[1] \in FusedPrefixed
  \/ Len(f) > 1 /\ f[1] = commentToken /\ f[2] \in MigratPrefixed

isStatementMarkerLine(line) ==
  LET f == line.fields IN
  line.tight /\ Len(f) > 2 /\ f[1] = commentToken /\ f[2] = migrateToken /\ f[3] \in statementMarkers

\* Directives further down taken for the comments PostgreSQL sees in them.
checkFirstLineOnly(body) == TRUE

checkNoLateDirectives(body) == \A k \in DOMAIN body : ~IsDirective(body[k])

Rejected == [ok |-> FALSE, names |-> {}, body |-> << >>]

\* The header, if the first line is one, and the body.
ParseDirectiveHeader(script) ==
  LET header == script # << >> /\ IsDirective(script[1])
      malformed == script # << >> /\ looksLikeDirective(script[1]) /\ ~isStatementMarkerLine(script[1])
      names == IF header THEN directiveNames(script[1]) ELSE {}
      body == IF header THEN Tail(script) ELSE script
  IN  IF \/ header /\ (names = {} \/ ~(names \subseteq knownDirectives))
         \/ ~header /\ malformed
         \/ ~checkNoLateDirectives(body)
        THEN Rejected
        ELSE [ok |-> TRUE, names |-> names, body |-> body]

\* A block that is opened has to be closed; the markers in between are text.
ValidateStatementBlocks(body) ==
  \A j \in DOMAIN body : MarkerIs(body[j], "StatementBegin") =>
    \E k \in DOMAIN body : k > j /\ MarkerIs(body[k], "StatementEnd")

\* strings.TrimSpace, on lines.
TrimSpace(content) ==
  LET filled == {k \in DOMAIN content : ~Blank(content[k])} IN
  IF filled = {} THEN << >>
  ELSE SubSeq(content, CHOOSE k \in filled : \A j \in filled : k <= j,
                       CHOOSE k \in filled : \A j \in filled : j <= k)

\* A parser that takes a file without a body for a script that does nothing.
parseScriptAnyBody(content, allowIrreversible) ==
  LET p == ParseDirectiveHeader(TrimSpace(content))
      irreversible == "irreversible" \in p.names
  IN  /\ p.ok /\ ValidateStatementBlocks(p.body)
      /\ irreversible => allowIrreversible /\ TrimSpace(p.body) = << >>

\* parseScript accepts the file; what it returns is TrimSpace(content).
parseScript(content, allowIrreversible) ==
  LET p == ParseDirectiveHeader(TrimSpace(content))
      irreversible == "irreversible" \in p.names
      hasSQL == TrimSpace(p.body) # << >>
  IN  /\ p.ok /\ ValidateStatementBlocks(p.body)
      /\ irreversible => allowIrreversible /\ ~hasSQL
      /\ ~irreversible => hasSQL

ParseMigrationPair(up, down) == parseScript(up, FALSE) /\ parseScript(down, TRUE)

\* What ApplyMigration, RollbackMigration and EnsureReversible read in a script.
DirectivesOf(script) == ParseDirectiveHeader(script).names
=============================================================================
