------------------------- MODULE MCMigrationSource --------------------------
(***************************************************************************)
(* Instances of MigrationSource.  Scripts: one pair, every short text in   *)
(* one of its halves.  Names: every set of names of three IDs, two of them *)
(* spelled alike but for their case, with a few texts.                     *)
(***************************************************************************)
EXTENDS MigrationSource

Words(fields) == [fields |-> fields, tight |-> TRUE]
Wide(fields) == [fields |-> fields, tight |-> FALSE]

SQL == Words(<<"sql">>)
Comment == Words(<<"--", "word">>)
NoTx == Words(<<"--", "+migrate", "notransaction">>)
Irreversible == Words(<<"--", "+migrate", "irreversible">>)

Lines ==
  {Words(<< >>), SQL, Comment, NoTx, Irreversible,
   Words(<<"--", "+migrate">>),
   Words(<<"--", "+migrate", "notransaction", "irreversible">>),
   Words(<<"--", "+migrate", "NoTransaction">>), Words(<<"--", "+migrate", "Up">>),
   Words(<<"--", "+migrates", "notransaction">>), Words(<<"--+migrate", "irreversible">>),
   Words(<<"--", "--", "+migrate", "irreversible">>),
   Words(<<"--", "+migrate", "StatementBegin">>), Words(<<"--", "+migrate", "StatementEnd">>),
   Wide(<<"--", "+migrate", "StatementBegin">>), Wide(<<"--", "+migrate", "notransaction">>)}

Texts(lines, n) == UNION {[1..k -> lines] : k \in 0..n}

Pair(up, down) ==
  [id |-> 1, ext |-> upSuffix] :> up @@ [id |-> 1, ext |-> downSuffix] :> down

Dir(files, subdir) == [files |-> files, subdir |-> subdir]

\* Any text in one half, beside a good other half.
ScriptDirectories ==
  {Dir(Pair(t, <<SQL>>), "none") : t \in Texts(Lines, 3)}
    \cup {Dir(Pair(<<SQL>>, t), "none") : t \in Texts(Lines, 3)}

\* IDs 1 and 2 differ in case only: A and a.  0 is the empty ID.
NameFold == (0 :> 0) @@ (1 :> 2) @@ (2 :> 2) @@ (3 :> 3)
FileNames == [id : {1, 2, 3}, ext : {upSuffix, downSuffix}]
OddNames == [id : {3}, ext : {".sql", ".UP.SQL", ".md"}] \cup [id : {0}, ext : {upSuffix}]
SomeTexts == {<<SQL>>, <<Irreversible>>}

NameDirectories ==
  {Dir([n \in F \cup G |-> <<SQL>>], s) :
     F \in SUBSET FileNames, G \in {{}} \cup {{n} : n \in OddNames}, s \in Subdirs}
    \cup {Dir(f, "none") : f \in UNION {[F -> SomeTexts] : F \in SUBSET FileNames}}

MCDirectories == ScriptDirectories \cup NameDirectories

\* Wrongly spelt directives, on the first line and below.
SpeltDirectories ==
  {Dir(Pair(t, <<SQL>>), "none") :
     t \in Texts({SQL, Words(<<"--", "+Migrate", "notransaction">>),
                  Words(<<"--", "+migrates", "notransaction">>)}, 2)}

\* What `new` writes, and what an editor may leave of it.
DownDirectories ==
  {Dir(Pair(<<SQL>>, t), "none") : t \in Texts({SQL, Comment, Irreversible, NoTx}, 2)}

BothDirectories ==
  {Dir(Pair(<<SQL>>, <<Words(<<"--", "+migrate", a, b>>)>>), "none") :
     a \in knownDirectives, b \in knownDirectives}
=============================================================================
