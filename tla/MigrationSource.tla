--------------------------- MODULE MigrationSource --------------------------
(***************************************************************************)
(* The loader of migration files (internal/source/fs.go), as every command *)
(* and every API call that needs the source runs it: read the directory,   *)
(* sort its entries into halves, read and parse the pairs in ID order.     *)
(*                                                                         *)
(* A file name is an ID and an extension.  An ID is a number, its place in *)
(* the lexicographic order; 0 is the empty one.  Fold gives the ID with    *)
(* its letters lowered.                                                    *)
(***************************************************************************)
EXTENDS Directives, SequencesExt

CONSTANTS
  Directories,   \* what the source's root may hold
  Fold           \* for each ID, the ID as strings.ToLower has it

\* Extensions, as HasSuffix tells them apart.
upSuffix == ".up.sql"
downSuffix == ".down.sql"
SqlExts == {upSuffix, downSuffix, ".sql", ".UP.SQL"}
Exts == SqlExts \cup {".md"}

\* A root: the text of every file in it, and what its subdirectory looks like.
Subdirs == {"none", "plain", "unreadable", "migrations"}

ASSUME FoldAssumption == DOMAIN Fold \subseteq Nat
ASSUME DirectoriesAssumption ==
  \A d \in Directories :
    /\ d.subdir \in Subdirs
    /\ DOMAIN d.files \subseteq [id : DOMAIN Fold, ext : Exts]
    /\ \A n \in DOMAIN d.files : d.files[n] \in Seq(Line)

VARIABLES
  dir,           \* the source's root
  pc,            \* where GetMigrations is
  entries,       \* names collectPairs has not looked at
  ups, downs,    \* the IDs it has found a half of
  seenFolded,    \* and those IDs, under their folded spelling
  ids,           \* IDs whose pair has not been read
  migrations,    \* the result
  answer         \* "ok", "invalid" or, after a failing read, "unreadable"

vars == <<dir, pc, entries, ups, downs, seenFolded, ids, migrations, answer>>

Init ==
  /\ dir \in Directories
  /\ pc = "readDir"
  /\ entries = {} /\ ups = {} /\ downs = {} /\ ids = {}
  /\ seenFolded = [f \in {} |-> f]
  /\ migrations = << >>
  /\ answer = "none"

Answer(how) == pc' = "done" /\ answer' = how
Goto(where) == pc' = where /\ UNCHANGED answer
-----------------------------------------------------------------------------
\* fs.ReadDir on the root; it lists what is there, or fails.
ReadDir ==
  /\ pc = "readDir"
  /\ \/ entries' = DOMAIN dir.files /\ Goto("collect")
     \/ Answer("unreadable") /\ UNCHANGED entries
  /\ UNCHANGED <<dir, ups, downs, seenFolded, ids, migrations>>

\* The filter with a plain HasSuffix(name, ".sql").
SkippedByCase(n) == n.ext \notin {upSuffix, downSuffix, ".sql"}

\* Anything that is not .sql, in any case, is none of the loader's business.
Skipped(n) == n.ext \notin SqlExts

(***************************************************************************)
(* One turn of collectPairs' loop.  fs.ReadDir sorts by file name, which   *)
(* is not the order of the IDs; no order is assumed here.                  *)
(***************************************************************************)
CollectEntry(n) ==
  /\ pc = "collect" /\ n \in entries
  /\ entries' = entries \ {n}
  /\ \/ /\ Skipped(n)
        /\ UNCHANGED <<pc, ups, downs, seenFolded, answer>>
     \/ /\ ~Skipped(n)
        /\ \/ n.ext \notin {upSuffix, downSuffix}
           \/ n.id = 0
           \/ Fold[n.id] \in DOMAIN seenFolded /\ seenFolded[Fold[n.id]] # n.id
        /\ Answer("invalid")
        /\ UNCHANGED <<ups, downs, seenFolded>>
     \/ /\ n.ext \in {upSuffix, downSuffix} /\ n.id # 0
        /\ Fold[n.id] \in DOMAIN seenFolded => seenFolded[Fold[n.id]] = n.id
        /\ ups' = IF n.ext = upSuffix THEN ups \cup {n.id} ELSE ups
        /\ downs' = IF n.ext = downSuffix THEN downs \cup {n.id} ELSE downs
        /\ seenFolded' = [f \in DOMAIN seenFolded \cup {Fold[n.id]} |->
                            IF f = Fold[n.id] THEN n.id ELSE seenFolded[f]]
        /\ UNCHANGED <<pc, answer>>
  /\ UNCHANGED <<dir, ids, migrations>>

\* Every entry is sorted.  A root without halves is explained, if a directory
\* below it has migrations; otherwise it is a source without migrations.
Collected ==
  /\ pc = "collect" /\ entries = {}
  /\ IF ups \cup downs = {} /\ dir.subdir = "migrations"
       THEN Answer("invalid") /\ UNCHANGED ids
       ELSE Goto("read") /\ ids' = ups \cup downs
  /\ UNCHANGED <<dir, entries, ups, downs, seenFolded, migrations>>

\* A loop over the map's keys, in any order.
NextIDUnsorted(m) == m \in ids

\* sortedIDs: the least ID left.
NextID(m) == m \in ids /\ \A k \in ids : m <= k

File(m, ext) == dir.files[[id |-> m, ext |-> ext]]

\* One turn of the loop over the IDs: both halves are required, read and parsed.
ReadPair(m) ==
  /\ pc = "read" /\ NextID(m)
  /\ \/ /\ m \notin ups \/ m \notin downs
        /\ Answer("invalid") /\ UNCHANGED <<ids, migrations>>
     \/ /\ m \in ups \cap downs
        /\ Answer("unreadable") /\ UNCHANGED <<ids, migrations>>
     \/ /\ m \in ups \cap downs
        /\ IF ParseMigrationPair(File(m, upSuffix), File(m, downSuffix))
             THEN /\ ids' = ids \ {m}
                  /\ migrations' = Append(migrations,
                       [id |-> m, up |-> TrimSpace(File(m, upSuffix)),
                        down |-> TrimSpace(File(m, downSuffix))])
                  /\ UNCHANGED <<pc, answer>>
             ELSE Answer("invalid") /\ UNCHANGED <<ids, migrations>>
  /\ UNCHANGED <<dir, entries, ups, downs, seenFolded>>

\* The caller has the migrations; validate prints how many there are.
Loaded ==
  /\ pc = "read" /\ ids = {}
  /\ Answer("ok")
  /\ UNCHANGED <<dir, entries, ups, downs, seenFolded, ids, migrations>>

Next ==
  \/ ReadDir \/ Collected \/ Loaded
  \/ \E n \in DOMAIN dir.files : CollectEntry(n)
  \/ \E m \in DOMAIN Fold : ReadPair(m)

Spec == Init /\ [][Next]_vars
-----------------------------------------------------------------------------
(***************************************************************************)
(* What a source directory is, stated without the loader's steps.          *)
(***************************************************************************)

SqlFiles == {n \in DOMAIN dir.files : n.ext \in SqlExts}
IdsOf(files) == {n.id : n \in files}
HeaderLines(script) == {k \in DOMAIN script : IsDirective(script[k])}

\* A script of a half: at most one header, on the first line, that names known
\* directives; blocks that close; SQL, unless the down half says there is none.
IsScript(text, down) ==
  LET s == TrimSpace(text)
      names == UNION {directiveNames(s[k]) : k \in HeaderLines(s)}
  IN  /\ HeaderLines(s) \subseteq {1}
      /\ HeaderLines(s) # {} => names # {} /\ names \subseteq knownDirectives
      /\ s # << >> /\ looksLikeDirective(s[1]) =>
           IsDirective(s[1]) \/ isStatementMarkerLine(s[1])
      /\ ValidateStatementBlocks(s)
      /\ "irreversible" \in names => down
      /\ "irreversible" \in names <=> Len(s) <= Cardinality(HeaderLines(s))

WellFormed ==
  /\ \A n \in SqlFiles : n.id # 0 /\ n.ext \in {upSuffix, downSuffix}
  /\ \A m, k \in IdsOf(SqlFiles) : Fold[m] = Fold[k] => m = k
  /\ \A m \in IdsOf(SqlFiles) :
       \E u, d \in SqlFiles :
         /\ u = [id |-> m, ext |-> upSuffix] /\ d = [id |-> m, ext |-> downSuffix]
         /\ IsScript(dir.files[u], FALSE) /\ IsScript(dir.files[d], TRUE)
  /\ SqlFiles = {} => dir.subdir # "migrations"

(***************************************************************************)
(* Properties.                                                             *)
(***************************************************************************)

(***************************************************************************)
(* GetMigrations answers with the migrations of a well-formed directory,   *)
(* all of them, in ascending order of their IDs, and with an error for any *)
(* other directory.  The planner relies on that order, and Reconcile would *)
(* roll back a migration that is missing.                                  *)
(***************************************************************************)
LoadIsExact ==
  /\ answer = "ok" =>
       /\ WellFormed
       /\ {x.id : x \in ToSet(migrations)} = IdsOf(SqlFiles)
       /\ \A j, k \in DOMAIN migrations : j < k => migrations[j].id < migrations[k].id
  /\ answer = "invalid" => ~WellFormed

(***************************************************************************)
(* "The only acceptable outcomes for a .sql file are 'it runs' and 'you    *)
(* were told why it did not'", whatever the case of its extension.         *)
(***************************************************************************)
NoSqlFileIsSilent ==
  answer = "ok" => \A n \in DOMAIN dir.files : n.ext # ".md" =>
    \E x \in ToSet(migrations) :
      x.id = n.id /\ TrimSpace(dir.files[n]) = IF n.ext = upSuffix THEN x.up ELSE x.down

(***************************************************************************)
(* Every directive of a loaded file is in force where it will be used: the *)
(* executor, reading the stored script again, finds the directives of all  *)
(* lines that begin "-- +migrate".                                         *)
(***************************************************************************)
DirectivesAreInForce ==
  \A x \in ToSet(migrations) : \A s \in {x.up, x.down} :
    \A k \in HeaderLines(s) :
      directiveNames(s[k]) # {} /\ directiveNames(s[k]) \subseteq DirectivesOf(s)

\* A comment with a directive in it and a misspelt +migrate before it.
Misspelt(line) ==
  LET f == line.fields IN
  \/ Len(f) > 1 /\ f[1] \in FusedPrefixed /\ f[2] \in knownDirectives
  \/ Len(f) > 2 /\ f[1] = commentToken
     /\ f[2] \in {"+Migrate", "+migrates"} /\ f[3] \in knownDirectives

(***************************************************************************)
(* "Unknown, misspelled or wrongly-cased directives are rejected rather    *)
(* than ignored, as are directive lines below the first line": no loaded   *)
(* script has one.                                                         *)
(***************************************************************************)
MisspeltIsRejected ==
  \A x \in ToSet(migrations) : \A s \in {x.up, x.down} : \A k \in DOMAIN s : ~Misspelt(s[k])

(***************************************************************************)
(* "I decided this cannot be rolled back" is told apart from "I forgot to  *)
(* write the rollback": the down script of a loaded migration says that it *)
(* is irreversible or has SQL in it, more than comments.                   *)
(***************************************************************************)
RollbackIsWritten ==
  \A x \in ToSet(migrations) :
    \/ "irreversible" \in DirectivesOf(x.down)
    \/ \E k \in DOMAIN x.down :
         ~Blank(x.down[k]) /\ x.down[k].fields[1] \notin {commentToken} \cup FusedPrefixed

\* "The loader rejects a file carrying both": irreversible stands alone.
IrreversibleStandsAlone ==
  \A x \in ToSet(migrations) :
    "irreversible" \in DirectivesOf(x.down) => DirectivesOf(x.down) = {"irreversible"}
=============================================================================
