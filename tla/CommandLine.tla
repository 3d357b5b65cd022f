---------------------------- MODULE CommandLine -----------------------------
(***************************************************************************)
(* The pg-migrate command, cmd/pg-migrate, from its environment, flags and *)
(* argument to the one call it makes of the library; beside it, a program  *)
(* that calls the library itself.  One behaviour is one invocation.        *)
(*                                                                         *)
(* The parsing of flags and the number of arguments are cobra's, which     *)
(* stops before any of these steps.                                        *)
(***************************************************************************)
EXTENDS PublicAPI, FiniteSets, TLC

CONSTANTS
  Invocations,
  cliLockTimeout,       \* the command's own default, 5 min
  None

ASSUME CliAssumption == cliLockTimeout \in Nat \ {0}

SourceCommands == {"reconcile", "up", "plan", "baseline"}
DatabaseCommands == SourceCommands \cup {"down", "status", "forget"}

Env ==
  [lockTimeout : String, path : String, databaseURL : String, postgresDSN : String,
   settings : [ToSet(Keys) -> Seq(String)]]

Flags ==
  [lockTimeout : String, lockID : Int, path : String, table : Seq(String), schema : Seq(String),
   allow : SUBSET {"rollback", "interleaved"}, dsn : String, sslmode : Seq(String),
   logging : BOOLEAN, json : BOOLEAN]

\* What cobra hands over, and what a program may call.
Commands ==
  [by : {"cli"}, cmd : DatabaseCommands \cup {"validate"}, arg : String, env : Env, flags : Flags]
    \cup [by : {"cli"}, cmd : {"new"}, name : Seq(String), env : Env, flags : Flags]

LibraryCalls ==
  [by : {"library"}, cmd : DatabaseCommands, arg : String, count : Int, given : BOOLEAN, opts : Seq(Option)]

\* A call of the service.
Calls ==
  [op : {"reconcile", "plan", "up", "forget", "status", "baseline", "rollback"}, count : Int, id : String,
   run : SUBSET RunFlags, table : Seq(String), lock : [wait : Int, key : Int]]

ASSUME InvocationsAssumption == Invocations \subseteq Commands \cup LibraryCalls
ASSUME NoneAssumption == None \notin Calls

VARIABLES
  inv,       \* the invocation
  todo,      \* the steps it has left
  cfg,       \* what NewConfig read from the environment
  opts,      \* the options built for the library
  db,        \* the database it is connected to
  reached,   \* the call made of the service
  exit,      \* running, ok, error, or unreachable: no connection, an error too
  shown,     \* what of an answer is printed
  slug       \* what `new` makes of the name it is given

vars == <<inv, todo, cfg, opts, db, reached, exit, shown, slug>>

\* A path demanded of every command.
StepsWithPath(i) ==
  IF i.by = "library" THEN <<"call", "answer">>
  ELSE CASE i.cmd = "new"      -> <<"config", "logging", "path", "slug", "files">>
         [] i.cmd = "validate" -> <<"config", "logging", "path", "files">>
         [] i.cmd = "down"     -> <<"config", "logging", "options", "count", "path", "connect", "call", "answer">>
         [] OTHER              -> <<"config", "logging", "options", "path", "connect", "call", "answer">>

\* The steps of each command, in the order of its RunE.
Steps(i) ==
  IF i.by = "library" THEN <<"call", "answer">>
  ELSE CASE i.cmd = "new"             -> <<"config", "logging", "path", "slug", "files">>
         [] i.cmd = "validate"        -> <<"config", "logging", "path", "files">>
         [] i.cmd = "down"            -> <<"config", "logging", "options", "count", "connect", "call", "answer">>
         [] i.cmd \in SourceCommands  -> <<"config", "logging", "options", "path", "connect", "call", "answer">>
         [] OTHER                     -> <<"config", "logging", "options", "connect", "call", "answer">>

\* time.ParseDuration and strconv.Atoi: a spelling that is not listed is an error.
ParseDuration ==
  [d \in {"0s", "-5s", "30s", "1m"} |->
     CASE d = "0s" -> 0 [] d = "-5s" -> -5 [] d = "30s" -> 30 [] d = "1m" -> 60]

Atoi == [a \in {"0", "-1", "2"} |-> CASE a = "0" -> 0 [] a = "-1" -> -1 [] a = "2" -> 2]

firstNonEmpty(a, b) == IF a # "" THEN a ELSE b

At(step) == exit = "running" /\ todo # << >> /\ Head(todo) = step
Fail == exit' = "error" /\ todo' = << >>
Continue == exit' = exit /\ todo' = Tail(todo)
Checked(good) == IF good THEN Continue ELSE Fail

-----------------------------------------------------------------------------
Init ==
  /\ inv \in Invocations
  /\ todo = Steps(inv)
  /\ cfg = None /\ db = None /\ reached = None /\ shown = {} /\ slug = None
  /\ opts = IF inv.by = "library" THEN inv.opts ELSE << >>
  /\ exit = "running"

NewConfig ==
  /\ At("config")
  /\ LET raw == inv.env.lockTimeout
         good == raw = "" \/ (raw \in DOMAIN ParseDuration /\ ParseDuration[raw] > 0)
     IN /\ Checked(good)
        /\ cfg' = IF ~good THEN cfg
                  ELSE [lockTimeout |-> IF raw = "" THEN cliLockTimeout ELSE ParseDuration[raw],
                        path |-> inv.env.path,
                        dsn |-> firstNonEmpty(inv.env.databaseURL, inv.env.postgresDSN),
                        settings |-> inv.env.settings]
  /\ UNCHANGED <<inv, opts, db, reached, shown, slug>>

setupLogging ==
  /\ At("logging")
  /\ Checked(inv.flags.logging)
  /\ UNCHANGED <<inv, cfg, opts, db, reached, shown, slug>>

\* The flag goes over the environment; zero is "no lock ID given".
buildOptions ==
  /\ At("options")
  /\ LET raw == inv.flags.lockTimeout
         good == raw = "" \/ raw \in DOMAIN ParseDuration
         given(yes, o) == IF yes THEN <<o>> ELSE << >>
     IN /\ Checked(good)
        /\ opts' = IF ~good THEN opts
                   ELSE <<With("lockTimeout", IF raw = "" THEN cfg.lockTimeout ELSE ParseDuration[raw])>>
                          \o given(inv.flags.lockID # 0, With("lockID", inv.flags.lockID))
                          \o given(inv.flags.table # << >>, With("table", inv.flags.table))
                          \o given(inv.flags.schema # << >>, With("schema", inv.flags.schema))
                          \o given(inv.cmd = "reconcile" /\ "rollback" \in inv.flags.allow, With("rollback", TRUE))
                          \o given(inv.cmd = "reconcile" /\ "interleaved" \in inv.flags.allow, With("interleaved", TRUE))
  /\ UNCHANGED <<inv, cfg, db, reached, shown, slug>>

\* The argument of down: "all" or a positive number.
ParseCount ==
  /\ At("count")
  /\ Checked(inv.arg = "all" \/ (inv.arg \in DOMAIN Atoi /\ Atoi[inv.arg] > 0))
  /\ UNCHANGED <<inv, cfg, opts, db, reached, shown, slug>>

resolvePath ==
  /\ At("path")
  /\ Checked(firstNonEmpty(inv.flags.path, cfg.path) # "")
  /\ UNCHANGED <<inv, cfg, opts, db, reached, shown, slug>>

\* The connection string, read.  One that is given is used as it stands, sslmode
\* and all; otherwise it is built of the discrete settings.
Connection(dsn, settings) ==
  [dsn |-> dsn, settings |-> IF dsn # "" THEN {} ELSE ReadDSN(GetDataSource(settings))]

OpenAndPing(to) ==
  \/ to.settings = Unreadable /\ Fail /\ UNCHANGED db
  \/ to.settings # Unreadable /\ exit' = "unreachable" /\ todo' = << >> /\ UNCHANGED db
  \/ to.settings # Unreadable /\ Continue /\ db' = to

\* The flag --sslmode replaces a setting.
Settings ==
  IF inv.flags.sslmode = << >> THEN cfg.settings
  ELSE [cfg.settings EXCEPT !["sslmode"] = inv.flags.sslmode]

\* The flag only where the environment names no database.
connectDBEnvFirst ==
  /\ At("connect")
  /\ OpenAndPing(Connection(firstNonEmpty(cfg.dsn, inv.flags.dsn), Settings))
  /\ UNCHANGED <<inv, cfg, opts, reached, shown, slug>>

connectDB ==
  /\ At("connect")
  /\ OpenAndPing(Connection(firstNonEmpty(inv.flags.dsn, cfg.dsn), Settings))
  /\ UNCHANGED <<inv, cfg, opts, reached, shown, slug>>

-----------------------------------------------------------------------------
(***************************************************************************)
(* The call of the library.                                                *)
(***************************************************************************)
Count == IF inv.by = "library" THEN inv.count ELSE Atoi[inv.arg]

CalledBy(given) ==
  CASE inv.cmd = "reconcile" -> Reconcile(given, opts)
    [] inv.cmd = "up" -> Up(given, opts)
    [] inv.cmd = "plan" -> Plan(given, opts)
    [] inv.cmd = "status" -> Status(given, opts)
    [] inv.cmd = "forget" -> Forget(given, inv.arg, opts)
    [] inv.cmd = "baseline" -> Baseline(given, inv.arg, opts)
    [] inv.cmd = "down" /\ inv.arg = "all" -> DownAll(given, opts)
    [] inv.cmd = "down" /\ inv.arg # "all" -> Down(given, Count, opts)

Call ==
  /\ At("call")
  /\ LET call == CalledBy(inv.by = "cli" \/ inv.given) IN
     /\ Checked(call # Refused)
     /\ reached' = IF call = Refused THEN None ELSE call
  /\ UNCHANGED <<inv, cfg, opts, db, shown, slug>>

\* The fields of one answer that are printed: only --json prints them all.
Printed ==
  IF inv.by = "library" THEN {}
  ELSE CASE inv.cmd = "status" ->
              {"id", "applied_at", "error"} \cup IF inv.flags.json THEN {"down_script", "failed"} ELSE {}
         [] inv.cmd = "plan" ->
              {"to_apply", "to_rollback", "interleaved"}
                \cup IF inv.flags.json THEN {"blocked", "blocked_reason"} ELSE {}
         [] inv.cmd = "baseline" -> {"id"}
         [] OTHER -> {}

\* What the service answers, as Migrator has it, is an error or not.
Answer ==
  /\ At("answer")
  /\ todo' = << >>
  /\ \/ exit' = "ok" /\ shown' = Printed
     \/ exit' = "error" /\ UNCHANGED shown
  /\ UNCHANGED <<inv, cfg, opts, db, reached, slug>>

\* new turns its argument into the name of the pair.
MakeSlug ==
  /\ At("slug")
  /\ slug' = slugify(inv.name)
  /\ Checked(slug'.ok)
  /\ UNCHANGED <<inv, cfg, opts, db, reached, shown>>

\* new and validate: MigrationFiles and MigrationSource.
Files ==
  /\ At("files")
  /\ todo' = << >> /\ exit' \in {"ok", "error"}
  /\ UNCHANGED <<inv, cfg, opts, db, reached, shown, slug>>

Next ==
  \/ NewConfig \/ setupLogging \/ buildOptions \/ ParseCount \/ resolvePath
  \/ connectDB \/ Call \/ Answer \/ MakeSlug \/ Files

Spec == Init /\ [][Next]_vars

-----------------------------------------------------------------------------
(***************************************************************************)
(* Properties                                                              *)
(***************************************************************************)
Cli == inv.by = "cli"
Asked(what) == \E k \in DOMAIN inv.opts : Sets(inv.opts[k], what)

\* The argument of the last option of a kind.
LastOf(what) ==
  LET ks == {k \in DOMAIN inv.opts : Sets(inv.opts[k], what)}
  IN inv.opts[CHOOSE k \in ks : \A j \in ks : j <= k][what]

\* The service takes a rollback count of zero or less for "everything".  Such a
\* count reaches it only from `down all` or DownAll; any other count is the one
\* that was asked for; and Reconcile may destroy only what its caller switched
\* on, which for the command never includes emptying the database.
DestructionIsAskedFor ==
  reached # None =>
    /\ reached.op = "rollback" =>
         IF reached.count <= 0 THEN inv.cmd = "down" /\ inv.arg = "all"
         ELSE inv.cmd = "down" /\ inv.arg # "all" /\ reached.count = Count
    /\ "rollback" \in reached.run =>
         IF Cli THEN inv.cmd = "reconcile" /\ "rollback" \in inv.flags.allow ELSE Asked("rollback")
    /\ "emptySource" \in reached.run => ~Cli /\ Asked("emptySource")

\* The lock waited for has the key and the wait the user gave: the flag before
\* the environment before the default of the command or of the library.  A run
\* waits for ever (zero) only if it was told to, never for less than no time, and runs
\* that name no key meet.
LockIsTheOneSaid ==
  reached # None =>
    LET wait == IF ~Cli THEN IF Asked("lockTimeout") THEN LastOf("lockTimeout") ELSE defaultLockTimeout
                ELSE IF inv.flags.lockTimeout # "" THEN ParseDuration[inv.flags.lockTimeout]
                ELSE IF inv.env.lockTimeout # "" THEN ParseDuration[inv.env.lockTimeout]
                ELSE cliLockTimeout
        key == IF Cli THEN inv.flags.lockID ELSE IF Asked("lockID") THEN LastOf("lockID") ELSE 0
    IN /\ reached.lock.wait = wait /\ wait >= 0
       /\ reached.lock.key = IF key = 0 THEN defaultLockID ELSE key

(***************************************************************************)
(* A command runs on the database that was named: --dsn, then              *)
(* DATABASE_URL, then POSTGRES_DSN, then the discrete settings.  Of these  *)
(* the driver reads the string built of them back as exactly the ones      *)
(* given, with the sslmode of the flag if there is one, whatever           *)
(* characters are in them but white space other than the blank: no setting *)
(* swallows another.                                                       *)
(***************************************************************************)
ConnectionIsTheOneGiven ==
  Cli /\ reached # None =>
    LET said == <<inv.flags.dsn, inv.env.databaseURL, inv.env.postgresDSN>>
        named == {k \in DOMAIN said : said[k] # ""}
        env == inv.env.settings
        given == {k \in DOMAIN env : env[k] # << >>}
        flag == IF inv.flags.sslmode = << >> THEN {} ELSE {"sslmode"}
    IN IF named # {}
       THEN db.dsn = said[CHOOSE k \in named : \A j \in named : k <= j]
       ELSE /\ db.dsn = ""
            /\ db.settings = {<<k, env[k]>> : k \in given \ flag}
                               \cup {<<k, inv.flags.sslmode>> : k \in flag}

(***************************************************************************)
(* PostgreSQL reads the table reference of every statement back as exactly *)
(* the schema and the table that were configured: no name is cut, split at *)
(* a dot or ended early by a quote in it.                                  *)
(***************************************************************************)
TableIsTheOneNamed ==
  reached # None =>
    LET text(what) == IF Cli THEN inv.flags[what] ELSE IF Asked(what) THEN LastOf(what) ELSE << >>
        name == IF text("table") = << >> THEN DefaultTableName ELSE text("table")
    IN ReadReference(reached.table) =
         IF text("schema") = << >> THEN <<name>> ELSE <<text("schema"), name>>

\* Identifiers PostgreSQL could not take, or would cut.
Unnameable(s) == Bytes(s) > maxIdentifierBytes \/ Contains(s, NUL)

(***************************************************************************)
(* A database command is turned away only for a mistake in what it uses:   *)
(* the commands that read no files ask for no path, down alone minds a     *)
(* count, and no setting or table name is refused that could be written.   *)
(***************************************************************************)
OnlyMistakesAreRefused ==
  Cli /\ exit = "error" /\ reached = None /\ inv.cmd \in DatabaseCommands =>
    \/ inv.env.lockTimeout \notin {""} \cup {d \in DOMAIN ParseDuration : ParseDuration[d] > 0}
    \/ inv.flags.lockTimeout \notin {""} \cup {d \in DOMAIN ParseDuration : ParseDuration[d] >= 0}
    \/ ~inv.flags.logging
    \/ Unnameable(inv.flags.table) \/ Unnameable(inv.flags.schema)
    \/ inv.cmd \in SourceCommands /\ inv.flags.path = "" /\ inv.env.path = ""
    \/ inv.cmd = "down" /\ inv.arg \notin {"all", "2"}
    \/ inv.cmd = "baseline" /\ inv.arg = ""

\* The letters and digits of a name, in lower case.
LettersOf(s) ==
  LET upTo[k \in 0 .. Len(s)] ==
        IF k = 0 THEN << >>
        ELSE IF Lower(s[k]) \in Letters THEN Append(upTo[k - 1], Lower(s[k])) ELSE upTo[k - 1]
  IN  upTo[Len(s)]

(***************************************************************************)
(* A slug has the letters and digits of the name in their order with       *)
(* single underscores between them, none at an end, within the limit; it   *)
(* is a name for which `new` would build the same slug again.  Only a name *)
(* without any is refused.                                                 *)
(***************************************************************************)
SlugIsStable ==
  slug # None =>
    IF slug.ok
    THEN /\ slug.text # << >> /\ Len(slug.text) <= maxSlugLength
         /\ IsPrefix(LettersOf(slug.text), LettersOf(inv.name))
         /\ Len(slug.text) < maxSlugLength - 1 => LettersOf(slug.text) = LettersOf(inv.name)
         /\ slugify(slug.text).text = slug.text
    ELSE LettersOf(inv.name) = << >>

\* docs/cli.md: for a failed migration `status` is where you find the recorded
\* error and the stored rollback script.
StatusShowsTheScript ==
  Cli /\ inv.cmd = "status" /\ exit = "ok" => {"error", "down_script"} \subseteq shown
=============================================================================
