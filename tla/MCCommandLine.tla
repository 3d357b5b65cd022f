--------------------------- MODULE MCCommandLine ----------------------------
(***************************************************************************)
(* Invocations: every command and argument with every combination of the   *)
(* settings that concern the lock and the path, and again with those that  *)
(* choose the database; every short table name, setting and migration name *)
(* over the characters that matter to its reader; and library calls with   *)
(* up to two options.                                                      *)
(***************************************************************************)
EXTENDS CommandLine

MCString == STRING

Texts(chars, n) == UNION {[1..k -> chars] : k \in 0..n}

MCCommands ==
  [cmd : {"reconcile", "up", "plan", "status", "validate"}, arg : {"-"}]
    \cup [cmd : {"down"}, arg : {"all", "2", "0", "-1", "x"}]
    \cup [cmd : {"forget", "baseline"}, arg : {"", "m1"}]

Command(c, e, f) == [by |-> "cli", cmd |-> c.cmd, arg |-> c.arg, env |-> e, flags |-> f]

Nothing == [k \in ToSet(Keys) |-> << >>]

Environment ==
  [lockTimeout |-> "", path |-> "dir", databaseURL |-> "", postgresDSN |-> "", settings |-> Nothing]

NoFlags ==
  [lockTimeout |-> "", lockID |-> 0, path |-> "", table |-> << >>, schema |-> << >>, allow |-> {},
   dsn |-> "", sslmode |-> << >>, logging |-> TRUE, json |-> FALSE]

LongName == <<"a", "a", "a", "a">>

LockInvocations ==
  {Command(c, [Environment EXCEPT !.lockTimeout = l.env, !.path = p[1]],
              [NoFlags EXCEPT !.lockTimeout = l.flag, !.lockID = i, !.path = p[2], !.table = t,
                              !.allow = a]) :
     c \in MCCommands,
     l \in [env : {"", "0s", "30s", "soon"}, flag : {"", "0s", "-5s", "1m", "soon"}],
     i \in {0, 7}, p \in {"", "dir"} \X {"", "dir"}, t \in {<< >>, LongName},
     a \in {{}, {"rollback"}, {"interleaved"}}}

SSLModes == {<< >>, <<"require">>}

DatabaseInvocations ==
  {Command(c, [Environment EXCEPT !.databaseURL = d[1], !.postgresDSN = d[2],
                                  !.settings.sslmode = s[1]],
              [NoFlags EXCEPT !.dsn = d[3], !.sslmode = s[2], !.logging = l, !.json = j]) :
     c \in {d \in MCCommands : d.cmd \in {"up", "status", "plan", "validate"}},
     d \in {"", "A"} \X {"", "B"} \X {"", "C"}, s \in SSLModes \X {<< >>, <<"verify">>},
     l \in BOOLEAN, j \in BOOLEAN}

TableInvocations ==
  {Command([cmd |-> "up", arg |-> "-"], Environment, [NoFlags EXCEPT !.schema = s, !.table = t]) :
     s \in Texts({"a", Quote, "."}, 2), t \in Texts({"a", Quote, ".", Accented, NUL}, 3)}

SettingsInvocations(chars, n, dbnames) ==
  {Command([cmd |-> "status", arg |-> "-"],
           [Environment EXCEPT !.settings = "user" :> u @@ "password" :> w @@ "dbname" :> d @@ Nothing],
           [NoFlags EXCEPT !.sslmode = s]) :
     u \in Texts(chars, n), w \in Texts(chars, n), d \in dbnames, s \in SSLModes}

New(n, e) == [by |-> "cli", cmd |-> "new", name |-> n, env |-> e, flags |-> NoFlags]

NameInvocations ==
  {New(n, Environment) : n \in Texts({"a", "B", "_", "-", Accented}, 5)}
    \cup {New(<<"a">>, [Environment EXCEPT !.path = ""])}

SomeOptions ==
  {With("lockTimeout", n) : n \in {-5, 0, 30}} \cup {With("lockID", n) : n \in {0, 7}}
    \cup {With(f, TRUE) : f \in RunFlags}
    \cup {With("table", t) : t \in {<<"a", Quote>>, LongName}} \cup {With("schema", <<"b", ".">>)}

LibraryInvocations ==
  {[by |-> "library", cmd |-> c.cmd, arg |-> c.arg, count |-> n, given |-> g, opts |-> o] :
     c \in [cmd : {"reconcile", "up", "plan", "status", "forget", "baseline"}, arg : {"", "m1"}]
             \cup [cmd : {"down"}, arg : {"all", "n"}],
     n \in {-1, 0, 2}, g \in BOOLEAN, o \in Texts(SomeOptions, 2)}

MCInvocations ==
  LockInvocations \cup DatabaseInvocations \cup TableInvocations \cup NameInvocations
    \cup SettingsInvocations({"a", "=", " ", Apostrophe, Backslash}, 2, {<< >>, <<"b">>})
    \cup LibraryInvocations

StatusInvocations == {i \in DatabaseInvocations : i.cmd = "status"}

\* A tab in a password, as it comes of a pasted secret.
TabInvocations == SettingsInvocations({"a", " ", "TAB"}, 2, {<<"b">>})
=============================================================================
