----------------------------- MODULE Rendering ------------------------------
(***************************************************************************)
(* The texts this program writes for somebody else to read back:           *)
(*   - the reference to the bookkeeping table that is spliced into every   *)
(*     statement (internal/migrator/table.go), read by PostgreSQL;         *)
(*   - the keyword/value connection string built of the discrete settings  *)
(*     (internal/db/postgres.go), read by the driver;                      *)
(*   - the identifier made of the name given to `new` (new.go), read by    *)
(*     the loader and by people.                                           *)
(* A text is a sequence of characters.                                     *)
(***************************************************************************)
EXTENDS Naturals, Sequences, SequencesExt

CONSTANTS
  maxIdentifierBytes, maxSlugLength,
  String                \* all strings there are, single characters among them

ASSUME LimitsAssumption ==
  maxIdentifierBytes \in Nat \ {0} /\ maxSlugLength \in Nat \ {0}

\* The characters that matter to somebody; any other string is a plain letter.
Quote == "\""
Apostrophe == "'"
Backslash == "\\"
NUL == "NUL"
Accented == "ACUTE"
Blanks == {" ", "TAB"}
Letters == {"a", "b", "B"}

\* The keys of the discrete settings, in the order the code writes them.
Keys == <<"host", "port", "user", "password", "dbname", "sslmode">>

ASSUME StringAssumption ==
  {"", ".", "=", " ", "_", "migrations", Quote, Apostrophe, Backslash, NUL, Accented}
    \cup Letters \cup ToSet(Keys) \subseteq String

Bytes(s) ==
  LET upTo[k \in 0 .. Len(s)] ==
        IF k = 0 THEN 0 ELSE upTo[k - 1] + IF s[k] = Accented THEN 2 ELSE 1
  IN  upTo[Len(s)]

MapSeq(F(_), s) == [k \in DOMAIN s |-> F(s[k])]

-----------------------------------------------------------------------------
(***************************************************************************)
(* The bookkeeping table.                                                  *)
(***************************************************************************)
DefaultTableName == <<"migrations">>

Unwritable == [ok |-> FALSE, text |-> << >>]
Written(text) == [ok |-> TRUE, text |-> text]

\* No doubling: the name taken for one that needs no care.
quoteIdentifierBare(s) ==
  IF s = << >> \/ Bytes(s) > maxIdentifierBytes \/ Contains(s, NUL) THEN Unwritable
  ELSE Written(<<Quote>> \o s \o <<Quote>>)

quoteIdentifier(s) ==
  IF s = << >> \/ Bytes(s) > maxIdentifierBytes \/ Contains(s, NUL) THEN Unwritable
  ELSE Written(<<Quote>>
                 \o FlattenSeq(MapSeq(LAMBDA c : IF c = Quote THEN <<c, c>> ELSE <<c>>, s))
                 \o <<Quote>>)

resolve(c) ==
  LET name == quoteIdentifier(IF c.name = << >> THEN DefaultTableName ELSE c.name)
      schema == quoteIdentifier(c.schema)
  IN IF ~name.ok THEN Unwritable
     ELSE IF c.schema = << >> THEN name
     ELSE IF ~schema.ok THEN Unwritable
     ELSE Written(schema.text \o <<".">> \o name.text)

(***************************************************************************)
(* How PostgreSQL reads it: quoted identifiers joined by dots, a doubled   *)
(* quote for one, cut to maxIdentifierBytes, never empty.                  *)
(***************************************************************************)
ReadIdentifierChar(st, c) ==
  CASE st.at = "start" /\ c = Quote -> [st EXCEPT !.at = "inside", !.parts = Append(@, << >>)]
    [] st.at = "inside" /\ c = Quote -> [st EXCEPT !.at = "quote"]
    [] (st.at = "inside" /\ c \notin {Quote, NUL}) \/ (st.at = "quote" /\ c = Quote) ->
         [at |-> "inside", parts |-> Append(Front(st.parts), Append(Last(st.parts), c))]
    [] st.at = "quote" /\ c = "." -> [st EXCEPT !.at = "start"]
    [] OTHER -> [st EXCEPT !.at = "error"]

Truncate(s) == CHOOSE p \in Prefixes(s) :
  /\ Bytes(p) <= maxIdentifierBytes
  /\ \A q \in Prefixes(s) : Bytes(q) <= maxIdentifierBytes => Len(q) <= Len(p)

ReadIdentifiers(text) ==
  LET after[k \in 0 .. Len(text)] ==
        IF k = 0 THEN [at |-> "start", parts |-> << >>]
        ELSE ReadIdentifierChar(after[k - 1], text[k])
  IN  after[Len(text)]

ReadReference(text) ==
  LET st == ReadIdentifiers(text)
  IN IF st.at # "quote" \/ Contains(st.parts, << >>) THEN << >>
     ELSE MapSeq(Truncate, st.parts)

-----------------------------------------------------------------------------
(***************************************************************************)
(* The connection string.                                                  *)
(***************************************************************************)
\* The apostrophe escaped and the backslash left alone.
quoteDSNValueNoBackslash(s) ==
  IF \A k \in DOMAIN s : s[k] \notin {" ", Apostrophe, Backslash} THEN s
  ELSE <<Apostrophe>>
         \o FlattenSeq(MapSeq(LAMBDA c : IF c = Apostrophe THEN <<Backslash, c>> ELSE <<c>>, s))
         \o <<Apostrophe>>

quoteDSNValue(s) ==
  IF \A k \in DOMAIN s : s[k] \notin {" ", Apostrophe, Backslash} THEN s
  ELSE <<Apostrophe>>
         \o FlattenSeq(MapSeq(LAMBDA c : IF c \in {Apostrophe, Backslash}
                                         THEN <<Backslash, c>> ELSE <<c>>, s))
         \o <<Apostrophe>>

\* Settings that are not given are left out; a space between the others.
GetDataSource(c) ==
  LET given(k) == c[k] # << >>
      pair(k) == <<k, "=">> \o quoteDSNValue(c[k])
      upTo[n \in 0 .. Len(Keys)] ==
        IF n = 0 THEN << >>
        ELSE LET before == upTo[n - 1]
             IN  IF ~given(Keys[n]) THEN before
                 ELSE before \o (IF before = << >> THEN << >> ELSE <<" ">>) \o pair(Keys[n])
  IN  upTo[Len(Keys)]

(***************************************************************************)
(* How libpq, whose rules the driver follows, reads it.  A key is one      *)
(* character here.                                                         *)
(***************************************************************************)
Emit(st, at) == [st EXCEPT !.at = at, !.pairs = Append(@, <<st.key, st.value>>), !.value = << >>]
Take(st, c, at) == [st EXCEPT !.at = at, !.value = Append(@, c)]

ReadDSNChar(st, c) ==
  CASE st.at \in {"gap", "key", "equals"} /\ c \in Blanks -> st
    [] st.at = "gap" /\ c \in ToSet(Keys) -> [st EXCEPT !.at = "key", !.key = c]
    [] st.at = "key" /\ c = "=" -> [st EXCEPT !.at = "equals"]
    [] st.at = "equals" /\ c = Apostrophe -> [st EXCEPT !.at = "quoted"]
    [] st.at \in {"equals", "bare"} /\ c = Backslash -> [st EXCEPT !.at = "bareEscape"]
    [] st.at = "bare" /\ c \in Blanks -> Emit(st, "gap")
    [] \/ st.at = "equals" /\ c \notin Blanks \cup {Apostrophe, Backslash}
       \/ st.at = "bare" /\ c \notin Blanks \cup {Backslash}
       \/ st.at = "bareEscape" -> Take(st, c, "bare")
    [] st.at = "quoted" /\ c = Apostrophe -> Emit(st, "gap")
    [] st.at = "quoted" /\ c = Backslash -> [st EXCEPT !.at = "quotedEscape"]
    [] st.at = "quotedEscape" \/ (st.at = "quoted" /\ c \notin {Apostrophe, Backslash}) -> Take(st, c, "quoted")
    [] OTHER -> [st EXCEPT !.at = "error"]

Unreadable == {<<"error", << >>>>}

ReadSettings(text) ==
  LET after[k \in 0 .. Len(text)] ==
        IF k = 0 THEN [at |-> "gap", key |-> "", value |-> << >>, pairs |-> << >>]
        ELSE ReadDSNChar(after[k - 1], text[k])
  IN  after[Len(text)]

ReadDSN(text) ==
  LET st == ReadSettings(text)
  IN CASE st.at = "gap" -> ToSet(st.pairs)
       [] st.at \in {"equals", "bare"} -> ToSet(Emit(st, "gap").pairs)
       [] OTHER -> Unreadable

-----------------------------------------------------------------------------
(***************************************************************************)
(* The name of a new migration.                                            *)
(***************************************************************************)
Lower(c) == IF c = "B" THEN "b" ELSE c
Trim(s, cut) ==
  LET kept == {k \in DOMAIN s : s[k] \notin cut}
  IN IF kept = {} THEN << >>
     ELSE SubSeq(s, CHOOSE k \in kept : \A i \in kept : k <= i,
                    CHOOSE k \in kept : \A i \in kept : i <= k)

SlugChar(b, c) ==
  CASE c \in Letters -> Append(b, c)
    [] c \notin Letters /\ b # << >> /\ Last(b) # "_" -> Append(b, "_")
    [] OTHER -> b

SlugOf(s) ==
  LET upTo[k \in 0 .. Len(s)] ==
        IF k = 0 THEN << >> ELSE SlugChar(upTo[k - 1], s[k])
  IN  upTo[Len(s)]

\* Cut at the limit, wherever that falls.
slugifyCutAnywhere(name) ==
  LET slug == Trim(SlugOf(MapSeq(Lower, Trim(name, Blanks))), {"_"})
  IN IF slug = << >> THEN Unwritable
     ELSE Written(IF Len(slug) > maxSlugLength THEN SubSeq(slug, 1, maxSlugLength) ELSE slug)

slugify(name) ==
  LET slug == Trim(SlugOf(MapSeq(Lower, Trim(name, Blanks))), {"_"})
  IN IF slug = << >> THEN Unwritable
     ELSE Written(IF Len(slug) > maxSlugLength
                  THEN Trim(SubSeq(slug, 1, maxSlugLength), {"_"}) ELSE slug)
=============================================================================
