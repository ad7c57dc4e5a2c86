---------------------------- MODULE Configuration ---------------------------
(***************************************************************************)
(* What an invocation of the program does: main, config.Load and its       *)
(* validation.  Three commands are looked for first; otherwise the         *)
(* environment is parsed over the defaults, the command line over the      *)
(* environment, and the result is validated before the API is served.      *)
(*                                                                         *)
(* A setting's text is abstracted to the number it denotes, or to blank,   *)
(* good (a text its checks accept) or bad (one its parser or its checks    *)
(* refuse).  Ratios are counted in halves.                                 *)
(***************************************************************************)
EXTENDS Integers, Sequences, FiniteSets

CONSTANTS
  None, Blank, Good, Bad,     \* absent, and the texts that are no numbers
  NaN,                        \* what ParseFloat makes of "NaN"
  RatioTexts,                 \* the sample ratios given, in halves
  MaxInt64, MaxInt32,         \* the largest int64 and int32
  BytesPerMiB,                \* 2^20
  MaximumConnections,         \* 1024
  MaximumStatementCacheSize,  \* 65536
  MaxArguments,               \* bound: arguments on the command line
  MaxVariables                \* bound: settings in the environment

ASSUME TextsAssumption ==
  /\ {None, Blank, Good, Bad, NaN} \cap Int = {}
  /\ None \notin {Blank, Good, Bad, NaN} /\ Blank \notin {Good, Bad, NaN}
  /\ Good \notin {Bad, NaN} /\ Bad # NaN
  /\ None \notin {"arguments", "help", "error", "version", "probe", "usage", "refused", "serve"}
  /\ RatioTexts \subseteq Int \cup {NaN}

ASSUME ConfigurationAssumption ==
  /\ MaxInt32 \in Nat /\ MaxInt64 \in Nat /\ BytesPerMiB \in Nat \ {0}
  /\ MaximumConnections \in Nat \ {0} /\ MaximumStatementCacheSize \in Nat
  /\ MaxArguments \in Nat /\ MaxVariables \in Nat

\* Settings with a parsed type; in the environment, a blank is the default.
TypedSettings ==
  {"max-procs", "memory-limit-mib", "db-max-conns", "db-min-conns", "db-statement-cache",
   "query-timeout", "shutdown-timeout", "tracing-enabled", "trace-sample-ratio"}

\* Settings that are texts; "db-host" stands for the split database settings.
TextSettings == {"server-url", "database-url", "db-host", "database-schema", "otlp-endpoint"}

Settings == TypedSettings \cup TextSettings

\* Of the int64 values above MaxInt32, one that an int32 would hold as 1.
OneByWrapping == 2 * (MaxInt32 + 1) + 1

\* The texts an operator may give a setting.
Texts(s) ==
  {Blank, Bad} \cup
  CASE s \in TextSettings -> {Good}
    [] s = "memory-limit-mib" -> {-1, MaxInt64 \div BytesPerMiB, MaxInt64 \div BytesPerMiB + 1}
    [] s = "db-max-conns" -> {0, 1, MaximumConnections + 1, OneByWrapping}
    [] s = "db-min-conns" -> {-1, 1, 2, OneByWrapping}
    [] s = "db-statement-cache" -> {-1, MaximumStatementCacheSize + 1}
    [] s = "trace-sample-ratio" -> RatioTexts
    [] s = "tracing-enabled" -> {0, 1}
    [] OTHER -> {-1, 0, 1}

DefaultOf(s) ==
  CASE s \in {"server-url", "database-schema"} -> Good
    [] s \in TextSettings -> Blank
    [] s = "db-max-conns" -> MaximumConnections
    [] s \in {"query-timeout", "shutdown-timeout"} -> 1
    [] OTHER -> 0

Command(name) == [kind |-> "command", name |-> name]

\* "--version=true": a Boolean flag with its value.
SwitchedOn(name) == [kind |-> "switch", name |-> name]

Setting(s, text) == [kind |-> "setting", name |-> s, text |-> text]

Positional == [kind |-> "positional"]

Arguments ==
  {Command(name) : name \in {"version", "healthcheck", "help"}}
    \cup {SwitchedOn(name) : name \in {"version", "healthcheck"}}
    \cup {Positional}
    \cup UNION {{Setting(s, text) : text \in Texts(s)} : s \in Settings}

VARIABLES
  arguments,    \* the command line
  environment,  \* the variables that are set
  verdict,      \* what main does
  config        \* the configuration the API is served with, or None

invocation == <<arguments, environment, verdict, config>>

-----------------------------------------------------------------------------
(* Sources.                                                                *)

Given == {arguments[i] : i \in DOMAIN arguments}

\* hasArgument: an exact match, anywhere on the command line.
HasArgument(name) == Command(name) \in Given

\* What ends flags.Parse at an argument, if anything does.
EndsParse(argument) ==
  CASE argument.kind = "positional" -> "arguments"
    [] argument.kind = "command" -> "help"
    [] argument.kind = "switch" -> None
    [] argument.kind = "setting" ->
         IF argument.name \in TypedSettings /\ argument.text \in {Blank, Bad} THEN "error" ELSE None

\* The arguments flags.Parse takes in, and what ends it: the first that ends it.
Parsed == {i \in DOMAIN arguments : \A j \in 1..i : EndsParse(arguments[j]) = None}

ParseEnd ==
  IF Parsed = DOMAIN arguments THEN None ELSE EndsParse(arguments[Cardinality(Parsed) + 1])

\* The last value the command line gives a setting.
CommandLine(s) ==
  LET given == {i \in Parsed : arguments[i].kind = "setting" /\ arguments[i].name = s} IN
  IF given = {} THEN None ELSE arguments[CHOOSE i \in given : \A j \in given : j <= i].text

\* environmentValues succeeds.
EnvironmentParses == \A s \in TypedSettings \cap DOMAIN environment : environment[s] # Bad

\* value and environmentBool, environmentInt, ...: the variable or the default.
EnvironmentValue(s) ==
  IF s \in DOMAIN environment /\ (s \in TypedSettings => environment[s] # Blank)
  THEN environment[s] ELSE DefaultOf(s)

\* The flags bound first, and the environment over them.
EnvironmentFirst(s) ==
  IF s \in DOMAIN environment THEN EnvironmentValue(s)
  ELSE IF CommandLine(s) # None THEN CommandLine(s) ELSE DefaultOf(s)

\* bindFlags: the environment's value is the default of the flag.
Value(s) == IF CommandLine(s) # None THEN CommandLine(s) ELSE EnvironmentValue(s)

-----------------------------------------------------------------------------
(* validate.                                                               *)

\* A number in a signed integer whose largest value is max.
Wrapped(number, max) ==
  LET modulus == 2 * (max + 1)
      low == number % modulus
  IN  IF low > max THEN low - modulus ELSE low

\* The MiB shifted to bytes in an int64.
Bytes(mebibytes) == Wrapped(mebibytes * BytesPerMiB, MaxInt64)

\* buildDatabaseURL: the complete URL, or else the split settings.
DatabaseURL ==
  IF Value("database-url") # Blank THEN Value("database-url") ELSE Value("db-host")

\* The guard of the memory limit without its upper bound.
FitsUnbounded(mebibytes) == mebibytes >= 0

\* The limit is not negative, and its bytes fit an int64.
Fits(mebibytes) == mebibytes >= 0 /\ mebibytes <= MaxInt64 \div BytesPerMiB

\* Neither comparison holds of NaN.
RatioRefused == Value("trace-sample-ratio") # NaN
                  /\ (Value("trace-sample-ratio") < 0 \/ Value("trace-sample-ratio") > 2)

Validates ==
  /\ Value("server-url") = Good
  /\ DatabaseURL = Good
  /\ Value("max-procs") >= 0
  /\ Value("database-schema") = Good
  /\ Fits(Value("memory-limit-mib"))
  /\ Value("db-max-conns") <= MaxInt32 /\ Value("db-min-conns") <= MaxInt32
  /\ Value("db-max-conns") \in 1..MaximumConnections
  /\ Value("db-min-conns") \in 0..Value("db-max-conns")
  /\ Value("db-statement-cache") \in 0..MaximumStatementCacheSize
  /\ Value("query-timeout") > 0 /\ Value("shutdown-timeout") > 0
  /\ ~RatioRefused
  /\ Value("tracing-enabled") = 1 => Value("otlp-endpoint") = Good

\* The Config validate returns: the values, and those it converts.
ConfigOf ==
  [value |-> [s \in Settings |-> Value(s)],
   memoryLimitBytes |-> Bytes(Value("memory-limit-mib")),
   maxConnections |-> Wrapped(Value("db-max-conns"), MaxInt32),
   minConnections |-> Wrapped(Value("db-min-conns"), MaxInt32)]

-----------------------------------------------------------------------------

\* Any few arguments, and any few variables.
InvocationInit ==
  /\ arguments \in UNION {[1..n -> Arguments] : n \in 0..MaxArguments}
  /\ \E D \in SUBSET Settings :
       /\ Cardinality(D) <= MaxVariables
       /\ environment \in [D -> UNION {Texts(s) : s \in D}]
       /\ \A s \in D : environment[s] \in Texts(s)
  /\ verdict = None
  /\ config = None

Ends(result) == verdict' = result /\ UNCHANGED config
Serves(c) == verdict' = "serve" /\ config' = c

\* Load when no command is asked for.
LoadSettings ==
  IF EnvironmentParses /\ ParseEnd = None /\ Validates
  THEN Serves(ConfigOf)
  ELSE Ends("refused")

\* Load when help is asked for: main takes ErrHelp for success.  When the
\* parser stops at a positional argument before it comes to the flag, main
\* goes on with the zero Config, and app.Run fails on a pool of no connections.
Help == Ends(IF ParseEnd = "help" THEN "usage" ELSE "refused")

\* runWithReadinessProbe, up to app.Run.
Run ==
  /\ verdict = None
  /\ IF HasArgument("version") THEN Ends("version")
     ELSE IF HasArgument("healthcheck") THEN Ends("probe")
     ELSE IF HasArgument("help") THEN Help
     ELSE LoadSettings
  /\ UNCHANGED <<arguments, environment>>

InvocationSpec == InvocationInit /\ [][Run]_invocation

-----------------------------------------------------------------------------
(* Properties.                                                             *)

\* README: "CLI values override ENV values, which override defaults", for every
\* setting of a configuration that is served (environmentValues, bindFlags); of
\* several arguments for one setting it is the last that counts (flags.Parse).
CommandLineWins ==
  verdict = "serve" =>
    \A s \in Settings :
      LET given == {i \in DOMAIN arguments : arguments[i].kind = "setting" /\ arguments[i].name = s} IN
      IF given # {}
      THEN \E i \in given : (\A j \in given : j <= i) /\ config.value[s] = arguments[i].text
      ELSE IF s \notin DOMAIN environment THEN config.value[s] = DefaultOf(s)
      ELSE \/ config.value[s] = environment[s]
           \/ environment[s] = Blank /\ config.value[s] = DefaultOf(s)

\* What README's inventory says of the values a server may run with: numbers
\* in their ranges, a database, an endpoint when tracing is on, a memory limit
\* whose bytes are the MiB that were asked for, and a pool of the sizes that
\* were asked for.
InInventory(c) ==
  LET v == c.value IN
  /\ v["max-procs"] >= 0
  /\ c.memoryLimitBytes = v["memory-limit-mib"] * BytesPerMiB /\ c.memoryLimitBytes >= 0
  /\ c.maxConnections = v["db-max-conns"] /\ c.minConnections = v["db-min-conns"]
  /\ 1 <= c.maxConnections /\ c.maxConnections <= MaximumConnections
  /\ 0 <= c.minConnections /\ c.minConnections <= c.maxConnections
  /\ 0 <= v["db-statement-cache"] /\ v["db-statement-cache"] <= MaximumStatementCacheSize
  /\ v["query-timeout"] > 0 /\ v["shutdown-timeout"] > 0
  /\ v["server-url"] = Good /\ v["database-schema"] = Good
  /\ v["database-url"] = Good \/ v["db-host"] = Good
  /\ v["tracing-enabled"] = 1 => v["otlp-endpoint"] = Good

\* "Parent-based trace sampling ratio from 0 through 1."
RatioInRange ==
  verdict = "serve" => config.value["trace-sample-ratio"] \in 0..2

\* Whatever the sources, an API that is served runs within the inventory, and
\* every value survives its conversion (validate).
ServesWithinInventory == verdict = "serve" => InInventory(config)

\* An invocation that names a command does not serve: "Probe management
\* readiness and exit.", "Print version and exit.", and README: "--help and
\* --version do not connect to PostgreSQL".
CommandsNeverServe ==
  verdict = "serve" => \A a \in Given : a.kind \notin {"command", "switch"}

=============================================================================
