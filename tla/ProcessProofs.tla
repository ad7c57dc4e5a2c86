---------------------------- MODULE ProcessProofs ---------------------------
(***************************************************************************)
(* The process, from its invocation to its exit.                           *)
(*                                                                         *)
(* The invocation: for every command line and every environment, what is   *)
(* served was parsed and validated, the strongest source decides each      *)
(* value, and every value lies within the inventory.                       *)
(*                                                                         *)
(* The shutdown is correct for every number of requests and of             *)
(* connections: LifecycleInv is inductive, and it implies what exit code 0 *)
(* promises, that no goroutine is stuck on its report, and that resources  *)
(* are released in order.                                                  *)
(***************************************************************************)
EXTENDS Lifecycle, Configuration, FiniteSetTheorems, TLAPS

-----------------------------------------------------------------------------
(* What an invocation is given.                                            *)

\* A set of natural numbers has a least one.
LEMMA LeastNatural ==
  ASSUME NEW S, S \subseteq Nat, S # {}
  PROVE  \E m \in S : \A y \in S : m <= y
<1>1. PICK m \in S : \A y \in S : ~ (<<y, m>> \in OpToRel(<, Nat))
  BY NatLessThanWellFounded, WFMin
<1>2. ASSUME NEW y \in S PROVE m <= y
  <2>1. y \in Nat /\ m \in Nat
    OBVIOUS
  <2>2. ~ (y < m)
    BY <1>1, <2>1 DEF OpToRel
  <2>3. QED
    BY <2>1, <2>2
<1>3. QED
  BY <1>2

\* Some positions of a command line have a last one.
LEMMA LastPosition ==
  ASSUME NEW n \in Nat, NEW S \in SUBSET (1..n), S # {}
  PROVE  \E i \in S : \A j \in S : j <= i
<1> DEFINE T == {n - i : i \in S}
<1>1. \A i \in S : i \in Int /\ n - i \in Nat
  OBVIOUS
<1>2. T \subseteq Nat /\ T # {}
  BY <1>1
<1> HIDE DEF T
<1>3. PICK t \in T : \A u \in T : t <= u
  BY <1>2, LeastNatural
<1>4. PICK i \in S : t = n - i
  BY <1>3 DEF T
<1>5. ASSUME NEW j \in S PROVE j <= i
  <2>1. t <= n - j
    BY <1>3 DEF T
  <2>2. QED
    BY <1>1, <1>4, <2>1
<1>6. QED
  BY <1>5

\* The texts of a setting: a typed one is a number, or one that its parser
\* does not take for a number.
LEMMA TextsFacts ==
  ASSUME NEW s \in Settings, NEW text \in Texts(s)
  PROVE  /\ text # None
         /\ s \in TypedSettings => text \in Int \cup {Blank, Bad, NaN}
         /\ s \in TypedSettings /\ s # "trace-sample-ratio" => text \in Int \cup {Blank, Bad}
<1>1. /\ MaxInt64 \div BytesPerMiB \in Int /\ MaximumConnections \in Int
      /\ MaximumStatementCacheSize \in Int /\ OneByWrapping \in Int
  BY ConfigurationAssumption DEF OneByWrapping
<1>2. CASE s \in TextSettings
  <2>1. text \in {Blank, Bad, Good} /\ s \notin TypedSettings
    BY <1>2 DEF Texts, TextSettings, TypedSettings
  <2>2. QED
    BY <2>1, TextsAssumption
<1>3. CASE s = "trace-sample-ratio"
  <2>1. text \in {Blank, Bad} \cup RatioTexts
    BY <1>3 DEF Texts, TextSettings
  <2>2. QED
    BY <1>3, <2>1, TextsAssumption
<1>4. CASE s \in TypedSettings /\ s # "trace-sample-ratio"
  <2>1. text \in Int \cup {Blank, Bad}
    BY <1>1, <1>4 DEF Texts, TextSettings, TypedSettings
  <2>2. QED
    BY <1>4, <2>1, TextsAssumption
<1>5. QED
  BY <1>2, <1>3, <1>4 DEF Settings

\* The defaults are values a parser would return.
LEMMA DefaultFacts ==
  ASSUME NEW s \in TypedSettings
  PROVE  DefaultOf(s) \in Int
BY ConfigurationAssumption DEF DefaultOf, TypedSettings, TextSettings

LEMMA ArgumentFacts ==
  ASSUME NEW a \in Arguments, a.kind = "setting"
  PROVE  a.name \in Settings /\ a.text \in Texts(a.name)
BY DEF Arguments, Command, SwitchedOn, Positional, Setting

-----------------------------------------------------------------------------
(* The command line.                                                       *)

\* The sources an invocation reads.
Sources ==
  /\ arguments \in Seq(Arguments)
  /\ DOMAIN environment \subseteq Settings
  /\ \A s \in DOMAIN environment : environment[s] \in Texts(s)

\* When nothing ends flags.Parse, it has taken in every argument.
LEMMA AllParsed ==
  ASSUME arguments \in Seq(Arguments), ParseEnd = None
  PROVE  Parsed = DOMAIN arguments
<1> SUFFICES ASSUME Parsed # DOMAIN arguments PROVE FALSE
  OBVIOUS
<1>1. EndsParse(arguments[Cardinality(Parsed) + 1]) = None
  BY DEF ParseEnd
<1>2. DOMAIN arguments = 1..Len(arguments) /\ Len(arguments) \in Nat
  OBVIOUS
<1> DEFINE ending == {i \in 1..Len(arguments) : EndsParse(arguments[i]) # None}
<1>3. ending # {}
  <2>1. ASSUME ending = {} PROVE Parsed = 1..Len(arguments)
    <3>1. \A i \in 1..Len(arguments) : EndsParse(arguments[i]) = None
      BY <2>1
    <3>2. \A i \in 1..Len(arguments) : \A j \in 1..i : j \in 1..Len(arguments)
      BY <1>2
    <3>3. QED
      BY <1>2, <3>1, <3>2 DEF Parsed
  <2>2. QED
    BY <1>2, <2>1
<1>4. PICK k \in ending : \A i \in ending : k <= i
  <2>1. ending \subseteq Nat
    OBVIOUS
  <2>2. QED
    BY <1>3, <2>1, LeastNatural
<1>5. /\ k \in 1..Len(arguments) /\ k \in Int /\ EndsParse(arguments[k]) # None
      /\ \A i \in 1..Len(arguments) : i < k => EndsParse(arguments[i]) = None
  BY <1>4
<1>6. Parsed = 1..(k - 1)
  <2>1. ASSUME NEW i \in Parsed PROVE i \in 1..(k - 1)
    <3>1. i \in 1..Len(arguments) /\ \A j \in 1..i : EndsParse(arguments[j]) = None
      BY <1>2 DEF Parsed
    <3>2. k \notin 1..i
      BY <1>5, <3>1
    <3>3. QED
      BY <1>5, <3>1, <3>2
  <2>2. ASSUME NEW i \in 1..(k - 1) PROVE i \in Parsed
    <3>1. i \in 1..Len(arguments) /\ \A j \in 1..i : j \in 1..Len(arguments) /\ j < k
      BY <1>2, <1>5
    <3>2. QED
      BY <1>2, <1>5, <3>1 DEF Parsed
  <2>3. QED
    BY <2>1, <2>2
<1>7. Cardinality(Parsed) + 1 = k
  <2>1. 1 \in Int /\ k - 1 \in Int
    BY <1>5
  <2>2. Cardinality(1..(k - 1)) = IF 1 > k - 1 THEN 0 ELSE (k - 1) - 1 + 1
    BY <2>1, FS_Interval
  <2>3. QED
    BY <1>5, <1>6, <2>2
<1>8. QED
  BY <1>1, <1>5, <1>7

\* The arguments that give a setting a value.
Giving(s) == {i \in DOMAIN arguments : arguments[i].kind = "setting" /\ arguments[i].name = s}

\* Where every argument is taken in, the last one that gives a setting is
\* its value on the command line, and its parser accepted it (bindFlags).
LEMMA CommandLineFacts ==
  ASSUME Sources, ParseEnd = None, NEW s \in Settings
  PROVE  /\ Giving(s) = {} => CommandLine(s) = None
         /\ Giving(s) # {} =>
              \E i \in Giving(s) :
                /\ \A j \in Giving(s) : j <= i
                /\ CommandLine(s) = arguments[i].text
                /\ arguments[i].text \in Texts(s)
                /\ s \in TypedSettings => arguments[i].text \notin {Blank, Bad}
<1>1. arguments \in Seq(Arguments) /\ Parsed = DOMAIN arguments
  BY AllParsed DEF Sources
<1>2. CommandLine(s) = IF Giving(s) = {} THEN None
                       ELSE arguments[CHOOSE i \in Giving(s) : \A j \in Giving(s) : j <= i].text
  BY <1>1 DEF CommandLine, Giving
<1>3. ASSUME Giving(s) # {}
      PROVE  \E i \in Giving(s) :
                /\ \A j \in Giving(s) : j <= i
                /\ CommandLine(s) = arguments[i].text
                /\ arguments[i].text \in Texts(s)
                /\ s \in TypedSettings => arguments[i].text \notin {Blank, Bad}
  <2>1. Len(arguments) \in Nat /\ Giving(s) \in SUBSET (1..Len(arguments))
    BY <1>1 DEF Giving
  <2>2. \E i \in Giving(s) : \A j \in Giving(s) : j <= i
    BY <1>3, <2>1, LastPosition
  <2> DEFINE last == CHOOSE i \in Giving(s) : \A j \in Giving(s) : j <= i
  <2>3. last \in Giving(s) /\ \A j \in Giving(s) : j <= last
    BY <2>2
  <2>4. CommandLine(s) = arguments[last].text
    BY <1>2, <1>3
  <2> HIDE DEF last
  <2>5. /\ last \in 1..Len(arguments) /\ arguments[last] \in Arguments
        /\ arguments[last].kind = "setting" /\ arguments[last].name = s
    BY <1>1, <2>3 DEF Giving
  <2>6. arguments[last].text \in Texts(s)
    BY <2>5, ArgumentFacts
  <2>7. EndsParse(arguments[last]) = None
    <3>1. last \in Parsed /\ last \in 1..last
      BY <1>1, <2>5
    <3>2. QED
      BY <3>1 DEF Parsed
  <2>8. s \in TypedSettings => arguments[last].text \notin {Blank, Bad}
    BY <2>5, <2>7, TextsAssumption DEF EndsParse
  <2>9. QED
    BY <2>3, <2>4, <2>6, <2>8
<1>4. QED
  BY <1>2, <1>3

\* What the API is served with was parsed: a typed setting is a number.
LEMMA TypedValue ==
  ASSUME Sources, EnvironmentParses, ParseEnd = None, NEW s \in TypedSettings
  PROVE  /\ Value(s) \in Int \cup {NaN}
         /\ s # "trace-sample-ratio" => Value(s) \in Int
<1>1. s \in Settings
  BY DEF Settings
<1>2. CASE Giving(s) # {}
  <2>1. CommandLine(s) \in Texts(s) /\ CommandLine(s) \notin {Blank, Bad}
    BY <1>1, <1>2, CommandLineFacts
  <2>2. Value(s) = CommandLine(s)
    BY <1>1, <2>1, TextsFacts DEF Value
  <2>3. QED
    BY <1>1, <2>1, <2>2, TextsFacts
<1>3. CASE Giving(s) = {}
  <2>1. Value(s) = EnvironmentValue(s)
    BY <1>1, <1>3, CommandLineFacts DEF Value
  <2>2. CASE s \in DOMAIN environment /\ environment[s] # Blank
    <3>1. EnvironmentValue(s) = environment[s]
      BY <2>2 DEF EnvironmentValue
    <3>2. environment[s] \in Texts(s) /\ environment[s] \notin {Blank, Bad}
      BY <2>2 DEF Sources, EnvironmentParses
    <3>3. QED
      BY <1>1, <2>1, <3>1, <3>2, TextsFacts
  <2>3. CASE ~ (s \in DOMAIN environment /\ environment[s] # Blank)
    BY <2>1, <2>3, DefaultFacts DEF EnvironmentValue
  <2>4. QED
    BY <2>2, <2>3
<1>4. QED
  BY <1>2, <1>3

-----------------------------------------------------------------------------
(* The invariant of an invocation.                                         *)

\* What is served was parsed and validated from the sources as they are.
ServedIsValidated ==
  verdict = "serve" => EnvironmentParses /\ ParseEnd = None /\ Validates /\ config = ConfigOf

InvocationInv == Sources /\ ServedIsValidated

\* The sources decide what is read from them.
LEMMA SourcesDecide ==
  ASSUME UNCHANGED <<arguments, environment>>
  PROVE  /\ Sources' <=> Sources
         /\ EnvironmentParses' <=> EnvironmentParses
         /\ ParseEnd' = ParseEnd
         /\ Validates' <=> Validates
         /\ ConfigOf' = ConfigOf
<1>1. Parsed' = Parsed
  BY DEF Parsed
<1>2. ParseEnd' = ParseEnd
  BY <1>1 DEF ParseEnd
<1>3. \A s : CommandLine(s)' = CommandLine(s)
  BY <1>1 DEF CommandLine
<1>4. \A s : Value(s)' = Value(s)
  BY <1>3 DEF Value, EnvironmentValue
<1>5. Validates' <=> Validates
  BY <1>4 DEF Validates, DatabaseURL, RatioRefused
<1>6. ConfigOf' = ConfigOf
  BY <1>4 DEF ConfigOf
<1>7. (Sources' <=> Sources) /\ (EnvironmentParses' <=> EnvironmentParses)
  BY DEF Sources, EnvironmentParses
<1>8. QED
  BY <1>2, <1>5, <1>6, <1>7

\* Serving is the outcome of one path only, the one on which parsing and
\* validation succeeded (Load, runWithReadinessProbe).
THEOREM InvocationInvariant == InvocationSpec => []InvocationInv
<1>1. InvocationInit => InvocationInv
  <2> SUFFICES ASSUME InvocationInit PROVE InvocationInv
    OBVIOUS
  <2>1. PICK n \in 0..MaxArguments : arguments \in [1..n -> Arguments]
    BY DEF InvocationInit
  <2>2. n \in Nat
    BY ConfigurationAssumption
  <2>3. arguments \in Seq(Arguments)
    BY <2>1, <2>2
  <2>4. verdict # "serve"
    BY TextsAssumption DEF InvocationInit
  <2>5. DOMAIN environment \subseteq Settings /\ \A s \in DOMAIN environment : environment[s] \in Texts(s)
    BY DEF InvocationInit
  <2>6. QED
    BY <2>3, <2>4, <2>5 DEF InvocationInv, Sources, ServedIsValidated
<1>2. ASSUME InvocationInv, [Run]_invocation
      PROVE  InvocationInv'
  <2>1. UNCHANGED <<arguments, environment>>
    BY <1>2 DEF Run, invocation
  <2>2. Sources'
    BY <1>2, <2>1, SourcesDecide DEF InvocationInv
  <2>3. ASSUME verdict' = "serve"
        PROVE  EnvironmentParses /\ ParseEnd = None /\ Validates /\ config' = ConfigOf
    <3>1. CASE Run
      BY <2>3, <3>1 DEF Run, Ends, Serves, Help, LoadSettings
    <3>2. CASE UNCHANGED invocation
      BY <1>2, <2>3, <3>2 DEF InvocationInv, ServedIsValidated, invocation
    <3>3. QED
      BY <1>2, <3>1, <3>2
  <2>4. ServedIsValidated'
    BY <2>1, <2>3, SourcesDecide DEF ServedIsValidated
  <2>5. QED
    BY <2>2, <2>4 DEF InvocationInv
<1>3. QED
  BY <1>1, <1>2, PTL DEF InvocationSpec

-----------------------------------------------------------------------------
(* What is served.                                                         *)

LEMMA ServedValue ==
  ASSUME InvocationInv, verdict = "serve", NEW s \in Settings
  PROVE  config.value[s] = Value(s)
BY DEF InvocationInv, ServedIsValidated, ConfigOf

\* README: "CLI values override ENV values, which override defaults", for any
\* number of arguments and of variables (CommandLineWins).
THEOREM CommandLineOverrides == InvocationSpec => []CommandLineWins
<1>1. ASSUME InvocationInv, verdict = "serve", NEW s \in Settings
      PROVE  IF Giving(s) # {}
             THEN \E i \in Giving(s) : (\A j \in Giving(s) : j <= i) /\ config.value[s] = arguments[i].text
             ELSE IF s \notin DOMAIN environment THEN config.value[s] = DefaultOf(s)
             ELSE \/ config.value[s] = environment[s]
                  \/ environment[s] = Blank /\ config.value[s] = DefaultOf(s)
  <2>1. Sources /\ ParseEnd = None
    BY <1>1 DEF InvocationInv, ServedIsValidated
  <2>2. config.value[s] = Value(s)
    BY <1>1, ServedValue
  <2>3. CASE Giving(s) # {}
    <3>1. PICK i \in Giving(s) : /\ \A j \in Giving(s) : j <= i
                                 /\ CommandLine(s) = arguments[i].text
                                 /\ arguments[i].text \in Texts(s)
      BY <2>1, <2>3, CommandLineFacts
    <3>2. Value(s) = arguments[i].text
      BY <3>1, TextsFacts DEF Value
    <3>3. QED
      BY <2>2, <2>3, <3>1, <3>2
  <2>4. CASE Giving(s) = {}
    <3>1. Value(s) = EnvironmentValue(s)
      BY <2>1, <2>4, CommandLineFacts DEF Value
    <3>2. QED
      BY <2>2, <2>4, <3>1 DEF EnvironmentValue
  <2>5. QED
    BY <2>3, <2>4
<1>2. InvocationInv => CommandLineWins
  BY <1>1 DEF CommandLineWins, Giving
<1>3. QED
  BY <1>2, InvocationInvariant, PTL

\* A number that fits a signed integer is held as it is, whatever the width.
LEMMA FittingIsExact ==
  ASSUME NEW max \in Nat, NEW number \in 0..max
  PROVE  Wrapped(number, max) = number
<1> DEFINE modulus == 2 * (max + 1)
<1>1. modulus \in Nat /\ number \in Nat /\ number < modulus
  OBVIOUS
<1>2. number % modulus = number
  <2> HIDE DEF modulus
  <2>1. QED
    BY <1>1
<1>3. QED
  BY <1>2 DEF Wrapped

\* A memory limit that passes validation is the same number of MiB in bytes:
\* the shift does not overflow an int64, whatever its width (validate).
LEMMA BytesAreExact ==
  ASSUME NEW mebibytes \in Int, Fits(mebibytes)
  PROVE  Bytes(mebibytes) = mebibytes * BytesPerMiB /\ Bytes(mebibytes) >= 0
<1> DEFINE limit == MaxInt64 \div BytesPerMiB
           wide == mebibytes * BytesPerMiB
<1>1. /\ MaxInt64 \in Nat /\ BytesPerMiB \in Nat /\ BytesPerMiB > 0
      /\ limit \in Int /\ 0 <= mebibytes /\ mebibytes <= limit
  BY ConfigurationAssumption DEF Fits
<1>2. limit * BytesPerMiB <= MaxInt64
  BY <1>1
<1>3. wide \in Int /\ 0 <= wide /\ wide <= limit * BytesPerMiB
  <2> HIDE DEF limit
  <2>1. QED
    BY <1>1
<1>4. wide \in 0..MaxInt64
  <2> HIDE DEF wide, limit
  <2>1. limit * BytesPerMiB \in Int
    BY <1>1
  <2>2. QED
    BY <1>1, <1>2, <1>3, <2>1
<1>5. Bytes(mebibytes) = wide
  <2> HIDE DEF wide
  <2>1. Wrapped(wide, MaxInt64) = wide
    BY <1>1, <1>4, FittingIsExact
  <2>2. QED
    BY <2>1 DEF Bytes, wide
<1>6. QED
  BY <1>3, <1>5

\* The pool gets the connections that were asked for: none of the counts that
\* pass validation changes as an int32 (validate).
LEMMA CountsAreExact ==
  ASSUME InvocationInv, verdict = "serve"
  PROVE  /\ Value("db-max-conns") \in 1..MaximumConnections
         /\ Value("db-min-conns") \in 0..Value("db-max-conns")
         /\ config.maxConnections = Value("db-max-conns")
         /\ config.minConnections = Value("db-min-conns")
<1>1. Sources /\ EnvironmentParses /\ ParseEnd = None /\ Validates /\ config = ConfigOf
  BY DEF InvocationInv, ServedIsValidated
<1>2. Value("db-max-conns") \in Int /\ Value("db-min-conns") \in Int
  BY <1>1, TypedValue DEF TypedSettings
<1>3. /\ Value("db-max-conns") \in 1..MaximumConnections
      /\ Value("db-min-conns") \in 0..Value("db-max-conns")
  BY <1>1 DEF Validates
<1>4. /\ MaxInt32 \in Nat
      /\ Value("db-max-conns") \in 0..MaxInt32 /\ Value("db-min-conns") \in 0..MaxInt32
  BY <1>1, <1>2, <1>3, ConfigurationAssumption DEF Validates
<1>5. /\ config.maxConnections = Wrapped(Value("db-max-conns"), MaxInt32)
      /\ config.minConnections = Wrapped(Value("db-min-conns"), MaxInt32)
  BY <1>1 DEF ConfigOf
<1>6. QED
  BY <1>3, <1>4, <1>5, FittingIsExact

\* Whatever the sources, an API that is served runs within README's inventory
\* of values (ServesWithinInventory).
THEOREM ServedWithinInventory == InvocationSpec => []ServesWithinInventory
<1>1. ASSUME InvocationInv, verdict = "serve"
      PROVE  InInventory(config)
  <2>1. Sources /\ EnvironmentParses /\ ParseEnd = None /\ Validates /\ config = ConfigOf
    BY <1>1 DEF InvocationInv, ServedIsValidated
  <2>2. \A s \in Settings : config.value[s] = Value(s)
    BY <1>1, ServedValue
  <2>3. \A s \in TypedSettings : s # "trace-sample-ratio" => Value(s) \in Int
    BY <2>1, TypedValue
  <2>4. /\ config.memoryLimitBytes = config.value["memory-limit-mib"] * BytesPerMiB
        /\ config.memoryLimitBytes >= 0
    <3>1. Value("memory-limit-mib") \in Int /\ Fits(Value("memory-limit-mib"))
      BY <2>1, <2>3 DEF Validates, TypedSettings
    <3>2. config.memoryLimitBytes = Bytes(Value("memory-limit-mib"))
      BY <2>1 DEF ConfigOf
    <3>3. config.value["memory-limit-mib"] = Value("memory-limit-mib")
      BY <2>2 DEF Settings, TypedSettings
    <3>4. QED
      BY <3>1, <3>2, <3>3, BytesAreExact
  <2>5. /\ Value("db-max-conns") \in Int /\ Value("db-min-conns") \in Int
        /\ Value("db-statement-cache") \in Int
    BY <2>3 DEF TypedSettings
  <2>6. /\ 1 <= Value("db-max-conns") /\ Value("db-max-conns") <= MaximumConnections
        /\ 0 <= Value("db-min-conns") /\ Value("db-min-conns") <= Value("db-max-conns")
        /\ 0 <= Value("db-statement-cache")
        /\ Value("db-statement-cache") <= MaximumStatementCacheSize
    BY <2>1, <2>5, ConfigurationAssumption DEF Validates
  <2>7. /\ config.maxConnections = Value("db-max-conns")
        /\ config.minConnections = Value("db-min-conns")
    BY <1>1, CountsAreExact
  <2>8. /\ Value("max-procs") >= 0 /\ Value("query-timeout") > 0 /\ Value("shutdown-timeout") > 0
        /\ Value("server-url") = Good /\ Value("database-schema") = Good
        /\ Value("tracing-enabled") = 1 => Value("otlp-endpoint") = Good
    BY <2>1 DEF Validates
  <2>9. Value("database-url") = Good \/ Value("db-host") = Good
    BY <2>1 DEF Validates, DatabaseURL
  <2>10. QED
    BY <2>2, <2>4, <2>6, <2>7, <2>8, <2>9 DEF InInventory, Settings, TypedSettings, TextSettings
<1>2. InvocationInv => ServesWithinInventory
  BY <1>1 DEF ServesWithinInventory
<1>3. QED
  BY <1>2, InvocationInvariant, PTL

\* The settings the API runs with are numbers its parsers returned, and the
\* pool has a connection at least, as Lifecycle and RequestPool assume.
ServedIsParsed ==
  verdict = "serve" =>
    /\ \A s \in TypedSettings : config.value[s] \in Int \cup {NaN}
    /\ config.maxConnections \in Nat \ {0}
    /\ config.value["query-timeout"] \in Nat \ {0}

\* No text that a parser refuses, and none that is left blank, reaches the
\* server as a number (environmentInt and its like, flags.Parse, validate).
THEOREM ServedSettingsAreNumbers == InvocationSpec => []ServedIsParsed
<1>1. ASSUME InvocationInv, verdict = "serve"
      PROVE  /\ \A s \in TypedSettings : config.value[s] \in Int \cup {NaN}
             /\ config.maxConnections \in Nat \ {0}
             /\ config.value["query-timeout"] \in Nat \ {0}
  <2>1. Sources /\ EnvironmentParses /\ ParseEnd = None /\ Validates
    BY <1>1 DEF InvocationInv, ServedIsValidated
  <2>2. \A s \in TypedSettings : s \in Settings /\ config.value[s] = Value(s)
    BY <1>1, ServedValue DEF Settings
  <2>3. \A s \in TypedSettings : Value(s) \in Int \cup {NaN}
    BY <2>1, TypedValue
  <2>4. \A s \in TypedSettings : s # "trace-sample-ratio" => Value(s) \in Int
    BY <2>1, TypedValue
  <2>5. config.maxConnections \in Nat \ {0}
    BY <1>1, CountsAreExact, ConfigurationAssumption
  <2>6. "query-timeout" \in TypedSettings
    BY DEF TypedSettings
  <2>7. Value("query-timeout") \in Int /\ Value("query-timeout") > 0
    BY <2>1, <2>4, <2>6 DEF Validates
  <2>8. QED
    BY <2>2, <2>3, <2>5, <2>6, <2>7
<1>2. InvocationInv => ServedIsParsed
  BY <1>1 DEF ServedIsParsed
<1>3. QED
  BY <1>2, InvocationInvariant, PTL

-----------------------------------------------------------------------------
(* From app.Run to the exit code.                                          *)

USE DEF resources, servers, requests, Running

\* The servers slice of run, spelled out.
LEMMA ServerNames ==
  /\ Len(Servers) = 2
  /\ Servers[1] = "public" /\ Servers[2] = "management"
  /\ Roles = {"public", "management"}
BY DEF Servers, Roles

LEMMA InitInvariant == Init => LifecycleInv
<1> SUFFICES ASSUME Init PROVE LifecycleInv
  OBVIOUS
<1> USE ServerNames, LifecycleAssumption
<1>1. TypeOK
  <2>1. Len(errorsChannel) = 0 /\ errorsChannel \in Seq({"failed", "closed"})
    BY DEF Init
  <2>2. /\ 0 \in 0..MaxRequests /\ 0 \in 0..MaxConnections /\ 1 \in 1..Len(Servers)
        /\ 0 <= serverErrorBufferSize
    BY DEF serverErrorBufferSize
  <2>3. /\ handling \in [Roles -> 0..MaxRequests]
        /\ querying \in [Roles -> 0..MaxConnections]
        /\ \A s \in Roles : querying[s] <= handling[s]
    BY <2>2 DEF Init
  <2>4. QED
    BY <2>1, <2>2, <2>3 DEF Init, TypeOK
<1>2. ResourcesByStep /\ ListenersOpened
  BY DEF Init, ResourcesByStep, ListenersOpened, InUse
<1>3. ServersAgree
  BY DEF Init, ServersAgree, BeforeSelect
<1>4. ReportsLeft /\ StoppedInOrder
  BY DEF Init, ReportsLeft, StoppedInOrder, Ended, BeforeSelect, Unwinding
<1>5. QED
  BY <1>1, <1>2, <1>3, <1>4 DEF LifecycleInv

-----------------------------------------------------------------------------
(* Each actor preserves the invariant.                                     *)

\* The main goroutine: startup, the wait, the shutdown, the defers.
LEMMA MainInvariant ==
  ASSUME LifecycleInv, Main
  PROVE  LifecycleInv'
<1> USE ServerNames, LifecycleAssumption DEF LifecycleInv
<1>1. CASE SetupTelemetry
  <2>1. TypeOK'
    BY <1>1 DEF TypeOK, InUse, SetupTelemetry, GoTo, Abort
  <2>2. ResourcesByStep'
    BY <1>1 DEF ResourcesByStep, TypeOK, InUse, SetupTelemetry, GoTo, Abort
  <2>3. ServersAgree'
    BY <1>1 DEF ServersAgree, TypeOK, BeforeSelect, SetupTelemetry, GoTo, Abort
  <2>4. ListenersOpened'
    BY <1>1 DEF ListenersOpened, TypeOK, ResourcesByStep, Roles, SetupTelemetry, GoTo, Abort
  <2>5. ReportsLeft'
    BY <1>1 DEF ReportsLeft, TypeOK, Ended, BeforeSelect, ServersAgree, SetupTelemetry,
           GoTo, Abort
  <2>6. StoppedInOrder'
    BY <1>1 DEF StoppedInOrder, TypeOK, Done, Unwinding, ServersAgree, ReportsLeft,
           BeforeSelect, SetupTelemetry, GoTo, Abort
  <2>7. QED
    BY <2>1, <2>2, <2>3, <2>4, <2>5, <2>6
<1>2. CASE CreatePool
  <2>1. TypeOK'
    BY <1>2 DEF TypeOK, InUse, CreatePool, GoTo, Abort
  <2>2. ResourcesByStep'
    BY <1>2 DEF ResourcesByStep, TypeOK, InUse, CreatePool, GoTo, Abort
  <2>3. ServersAgree'
    BY <1>2 DEF ServersAgree, TypeOK, BeforeSelect, CreatePool, GoTo, Abort
  <2>4. ListenersOpened'
    BY <1>2 DEF ListenersOpened, TypeOK, ResourcesByStep, Roles, CreatePool, GoTo, Abort
  <2>5. ReportsLeft'
    BY <1>2 DEF ReportsLeft, TypeOK, Ended, BeforeSelect, ServersAgree, CreatePool, GoTo,
           Abort
  <2>6. StoppedInOrder'
    BY <1>2 DEF StoppedInOrder, TypeOK, Done, Unwinding, ServersAgree, ReportsLeft,
           BeforeSelect, CreatePool, GoTo, Abort
  <2>7. QED
    BY <2>1, <2>2, <2>3, <2>4, <2>5, <2>6
<1>3. CASE CheckDatabase
  <2>1. TypeOK'
    BY <1>3 DEF TypeOK, InUse, CheckDatabase, GoTo, Abort
  <2>2. ResourcesByStep'
    BY <1>3 DEF ResourcesByStep, TypeOK, InUse, CheckDatabase, GoTo, Abort
  <2>3. ServersAgree'
    BY <1>3 DEF ServersAgree, TypeOK, BeforeSelect, CheckDatabase, GoTo, Abort
  <2>4. ListenersOpened'
    BY <1>3 DEF ListenersOpened, TypeOK, ResourcesByStep, Roles, CheckDatabase, GoTo, Abort
  <2>5. ReportsLeft'
    BY <1>3 DEF ReportsLeft, TypeOK, Ended, BeforeSelect, ServersAgree, CheckDatabase,
           GoTo, Abort
  <2>6. StoppedInOrder'
    BY <1>3 DEF StoppedInOrder, TypeOK, Done, Unwinding, ServersAgree, ReportsLeft,
           BeforeSelect, CheckDatabase, GoTo, Abort
  <2>7. QED
    BY <2>1, <2>2, <2>3, <2>4, <2>5, <2>6
<1>4. CASE Listen
  <2>1. TypeOK'
    <3>1. socket' \in [Roles -> {"none", "open", "closed"}]
      BY <1>4 DEF Listen, CloseListeners, TypeOK
    <3>2. index' \in 1..Len(Servers)
      BY <1>4 DEF Listen, Advance, TypeOK
    <3>3. step' \in {"listen", "start", "closePool"} /\ failed' \in BOOLEAN
      BY <1>4 DEF Listen, Advance, Abort, TypeOK
    <3>4. QED
      BY <1>4, <3>1, <3>2, <3>3 DEF Listen, TypeOK
  <2>2. ResourcesByStep'
    BY <1>4 DEF ResourcesByStep, TypeOK, InUse, Listen, Advance, Abort, CloseListeners
  <2>3. ServersAgree'
    <3>1. \A s \in Roles : goroutine[s] = "none" /\ outcome[s] = "none" /\ handling[s] = 0
                           /\ ~closing[s]
      BY <1>4 DEF Listen, ServersAgree, ReportsLeft, BeforeSelect
    <3>2. /\ step = "listen" /\ index \in 1..2 /\ socket \in [Roles -> {"none", "open", "closed"}]
          /\ UNCHANGED <<goroutine, outcome, handling, closing>>
      BY <1>4 DEF Listen, TypeOK
    <3>3. \/ step' = "listen"
          \/ step' = "start" /\ \A s \in Roles : socket'[s] = "open"
          \/ step' = "closePool" /\ \A s \in Roles : socket'[s] # "open"
      BY <1>4, <3>2 DEF Listen, Advance, Abort, CloseListeners, ListenersOpened
    <3>4. QED
      BY <3>1, <3>2, <3>3 DEF ServersAgree, BeforeSelect
  <2>4. ListenersOpened'
    BY <1>4 DEF ListenersOpened, TypeOK, ResourcesByStep, Roles, Listen, Advance, Abort,
           CloseListeners
  <2>5. ReportsLeft'
    BY <1>4 DEF ReportsLeft, TypeOK, Ended, BeforeSelect, ServersAgree, Listen, Advance,
           Abort, CloseListeners
  <2>6. StoppedInOrder'
    BY <1>4 DEF StoppedInOrder, TypeOK, Done, Unwinding, ServersAgree, ReportsLeft,
           BeforeSelect, Listen, Advance, Abort, CloseListeners
  <2>7. QED
    BY <2>1, <2>2, <2>3, <2>4, <2>5, <2>6
<1>5. CASE StartServers
  <2>1. TypeOK'
    BY <1>5 DEF TypeOK, InUse, StartServers, GoTo
  <2>2. ResourcesByStep'
    BY <1>5 DEF ResourcesByStep, TypeOK, InUse, StartServers, GoTo
  <2>3. ServersAgree'
    BY <1>5 DEF ServersAgree, TypeOK, BeforeSelect, StartServers, GoTo
  <2>4. ListenersOpened'
    BY <1>5 DEF ListenersOpened, TypeOK, ResourcesByStep, Roles, StartServers, GoTo
  <2>5. ReportsLeft'
    BY <1>5 DEF ReportsLeft, TypeOK, Ended, BeforeSelect, ServersAgree, StartServers, GoTo
  <2>6. StoppedInOrder'
    BY <1>5 DEF StoppedInOrder, TypeOK, Done, Unwinding, StartServers, GoTo
  <2>7. QED
    BY <2>1, <2>2, <2>3, <2>4, <2>5, <2>6
<1>6. CASE Select
  <2>1. TypeOK'
    <3>1. /\ errorsChannel \in Seq({"failed", "closed"})
          /\ Len(errorsChannel) <= serverErrorBufferSize /\ serverErrorBufferSize \in Nat
      BY DEF TypeOK, serverErrorBufferSize
    <3>2. errorsChannel' \in Seq({"failed", "closed"})
      BY <1>6, <3>1 DEF Select
    <3>3. Len(errorsChannel') <= serverErrorBufferSize
      BY <1>6, <3>1 DEF Select
    <3>4. step' = "stop" /\ deadline' = "armed" /\ failed' \in BOOLEAN
      BY <1>6 DEF Select, GoTo, TypeOK
    <3>5. QED
      BY <1>6, <3>2, <3>3, <3>4 DEF Select, TypeOK
  <2>2. ResourcesByStep'
    BY <1>6 DEF ResourcesByStep, TypeOK, InUse, Select, GoTo
  <2>3. ServersAgree'
    BY <1>6 DEF ServersAgree, TypeOK, BeforeSelect, Select, GoTo
  <2>4. ListenersOpened'
    BY <1>6 DEF ListenersOpened, TypeOK, ResourcesByStep, Roles, Select, GoTo
  <2>5. ReportsLeft'
    BY <1>6 DEF ReportsLeft, TypeOK, Ended, BeforeSelect, ServersAgree, Select, GoTo
  <2>6. StoppedInOrder'
    <3>1. step = "select" /\ index = 1 /\ \A s \in Roles : ~closing[s]
      BY <1>6 DEF Select, ResourcesByStep, ReportsLeft
    <3>2. step' = "stop" /\ UNCHANGED <<signalled, index, closing>>
      BY <1>6 DEF Select, GoTo
    <3>3. failed' \/ signalled'
      <4>1. CASE signalled
        BY <3>2, <4>1
      <4>2. CASE ~signalled
        <5>1. errorsChannel # <<>> /\ failed' = (failed \/ Head(errorsChannel) = "failed")
          BY <1>6, <4>2 DEF Select
        <5>2. Head(errorsChannel) = "failed"
          BY <3>1, <5>1 DEF ReportsLeft, TypeOK
        <5>3. QED
          BY <5>1, <5>2
      <4>3. QED
        BY <4>1, <4>2
    <3>4. QED
      BY <3>1, <3>2, <3>3 DEF StoppedInOrder, Unwinding
  <2>7. QED
    BY <2>1, <2>2, <2>3, <2>4, <2>5, <2>6
<1>7. CASE Shutdown
  <2>1. TypeOK'
    BY <1>7 DEF TypeOK, InUse, Shutdown
  <2>2. ResourcesByStep'
    BY <1>7 DEF ResourcesByStep, TypeOK, InUse, Shutdown
  <2>3. ServersAgree'
    BY <1>7 DEF ServersAgree, TypeOK, BeforeSelect, Shutdown
  <2>4. ListenersOpened'
    BY <1>7 DEF ListenersOpened, TypeOK, ResourcesByStep, Roles, Shutdown
  <2>5. ReportsLeft'
    BY <1>7 DEF ReportsLeft, TypeOK, Ended, BeforeSelect, ServersAgree, Shutdown
  <2>6. StoppedInOrder'
    BY <1>7 DEF StoppedInOrder, TypeOK, Done, Unwinding, Shutdown
  <2>7. QED
    BY <2>1, <2>2, <2>3, <2>4, <2>5, <2>6
<1>8. CASE Drained
  <2>1. TypeOK'
    BY <1>8 DEF TypeOK, InUse, Drained, Advance
  <2>2. ResourcesByStep'
    BY <1>8 DEF ResourcesByStep, TypeOK, InUse, Drained, Advance
  <2>3. ServersAgree'
    BY <1>8 DEF ServersAgree, TypeOK, BeforeSelect, Drained, Advance
  <2>4. ListenersOpened'
    BY <1>8 DEF ListenersOpened, TypeOK, ResourcesByStep, Roles, Drained, Advance
  <2>5. ReportsLeft'
    BY <1>8 DEF ReportsLeft, TypeOK, Ended, BeforeSelect, ServersAgree, Drained, Advance
  <2>6. StoppedInOrder'
    BY <1>8 DEF StoppedInOrder, TypeOK, Done, Unwinding, Drained, Advance
  <2>7. QED
    BY <2>1, <2>2, <2>3, <2>4, <2>5, <2>6
<1>9. CASE GiveUp
  <2>1. TypeOK'
    BY <1>9 DEF TypeOK, InUse, GiveUp, Advance
  <2>2. ResourcesByStep'
    BY <1>9 DEF ResourcesByStep, TypeOK, InUse, GiveUp, Advance
  <2>3. ServersAgree'
    BY <1>9 DEF ServersAgree, TypeOK, BeforeSelect, GiveUp, Advance
  <2>4. ListenersOpened'
    BY <1>9 DEF ListenersOpened, TypeOK, ResourcesByStep, Roles, GiveUp, Advance
  <2>5. ReportsLeft'
    BY <1>9 DEF ReportsLeft, TypeOK, Ended, BeforeSelect, ServersAgree, GiveUp, Advance
  <2>6. StoppedInOrder'
    BY <1>9 DEF StoppedInOrder, TypeOK, Done, Unwinding, GiveUp, Advance
  <2>7. QED
    BY <2>1, <2>2, <2>3, <2>4, <2>5, <2>6
<1>10. CASE ClosePool
  <2>1. TypeOK'
    BY <1>10 DEF TypeOK, InUse, ClosePool
  <2>2. ResourcesByStep'
    BY <1>10 DEF ResourcesByStep, TypeOK, InUse, ClosePool
  <2>3. ServersAgree'
    BY <1>10 DEF ServersAgree, TypeOK, BeforeSelect, ClosePool
  <2>4. ListenersOpened'
    BY <1>10 DEF ListenersOpened, TypeOK, ResourcesByStep, Roles, ClosePool
  <2>5. ReportsLeft'
    BY <1>10 DEF ReportsLeft, TypeOK, Ended, BeforeSelect, ServersAgree, ClosePool
  <2>6. StoppedInOrder'
    BY <1>10 DEF StoppedInOrder, TypeOK, Done, Unwinding, ClosePool
  <2>7. QED
    BY <2>1, <2>2, <2>3, <2>4, <2>5, <2>6
<1>11. CASE FlushTelemetry
  <2>1. TypeOK'
    BY <1>11 DEF TypeOK, InUse, FlushTelemetry
  <2>2. ResourcesByStep'
    BY <1>11 DEF ResourcesByStep, TypeOK, InUse, FlushTelemetry
  <2>3. ServersAgree'
    BY <1>11 DEF ServersAgree, TypeOK, BeforeSelect, FlushTelemetry
  <2>4. ListenersOpened'
    BY <1>11 DEF ListenersOpened, TypeOK, ResourcesByStep, Roles, FlushTelemetry
  <2>5. ReportsLeft'
    BY <1>11 DEF ReportsLeft, TypeOK, Ended, BeforeSelect, ServersAgree, FlushTelemetry
  <2>6. StoppedInOrder'
    BY <1>11 DEF StoppedInOrder, TypeOK, Done, Unwinding, FlushTelemetry
  <2>7. QED
    BY <2>1, <2>2, <2>3, <2>4, <2>5, <2>6
<1>12. QED
  BY <1>1, <1>2, <1>3, <1>4, <1>5, <1>6, <1>7, <1>8, <1>9, <1>10, <1>11 DEF Main, Startup, StopServer, Deferred

\* A server goroutine.
LEMMA GoroutineInvariant ==
  ASSUME LifecycleInv, NEW s \in Roles, Serve(s) \/ ServeCloses(s) \/ ServeFails(s) \/ Report(s)
  PROVE  LifecycleInv'
<1> USE ServerNames, LifecycleAssumption DEF LifecycleInv
<1>1. CASE Serve(s)
  <2>1. TypeOK'
    BY <1>1 DEF TypeOK, InUse, Serve, ServeReturns
  <2>2. ResourcesByStep'
    BY <1>1 DEF ResourcesByStep, TypeOK, InUse, Serve, ServeReturns
  <2>3. ServersAgree'
    BY <1>1 DEF ServersAgree, TypeOK, BeforeSelect, Serve, ServeReturns
  <2>4. ListenersOpened'
    BY <1>1 DEF ListenersOpened, TypeOK, ResourcesByStep, Roles, ServersAgree,
           BeforeSelect, Serve, ServeReturns
  <2>5. ReportsLeft'
    BY <1>1 DEF ReportsLeft, TypeOK, Ended, BeforeSelect, ServersAgree, Serve, ServeReturns
  <2>6. StoppedInOrder'
    BY <1>1 DEF StoppedInOrder, TypeOK, Done, Unwinding, Serve, ServeReturns
  <2>7. QED
    BY <2>1, <2>2, <2>3, <2>4, <2>5, <2>6
<1>2. CASE ServeCloses(s)
  <2>1. TypeOK'
    BY <1>2 DEF TypeOK, InUse, ServeCloses, ServeReturns
  <2>2. ResourcesByStep'
    BY <1>2 DEF ResourcesByStep, TypeOK, InUse, ServeCloses, ServeReturns
  <2>3. ServersAgree'
    BY <1>2 DEF ServersAgree, TypeOK, BeforeSelect, ServeCloses, ServeReturns
  <2>4. ListenersOpened'
    BY <1>2 DEF ListenersOpened, TypeOK, ResourcesByStep, Roles, ServersAgree,
           BeforeSelect, ServeCloses, ServeReturns
  <2>5. ReportsLeft'
    BY <1>2 DEF ReportsLeft, TypeOK, Ended, BeforeSelect, ServersAgree, ServeCloses,
           ServeReturns
  <2>6. StoppedInOrder'
    BY <1>2 DEF StoppedInOrder, TypeOK, Done, Unwinding, ServeCloses, ServeReturns
  <2>7. QED
    BY <2>1, <2>2, <2>3, <2>4, <2>5, <2>6
<1>3. CASE ServeFails(s)
  <2>1. TypeOK'
    BY <1>3 DEF TypeOK, InUse, ServeFails, ServeReturns
  <2>2. ResourcesByStep'
    BY <1>3 DEF ResourcesByStep, TypeOK, InUse, ServeFails, ServeReturns
  <2>3. ServersAgree'
    BY <1>3 DEF ServersAgree, TypeOK, BeforeSelect, ServeFails, ServeReturns
  <2>4. ListenersOpened'
    BY <1>3 DEF ListenersOpened, TypeOK, ResourcesByStep, Roles, ServersAgree,
           BeforeSelect, ServeFails, ServeReturns
  <2>5. ReportsLeft'
    BY <1>3 DEF ReportsLeft, TypeOK, Ended, BeforeSelect, ServersAgree, ServeFails,
           ServeReturns
  <2>6. StoppedInOrder'
    BY <1>3 DEF StoppedInOrder, TypeOK, Done, Unwinding, ServeFails, ServeReturns
  <2>7. QED
    BY <2>1, <2>2, <2>3, <2>4, <2>5, <2>6
<1>4. CASE Report(s)
  <2>1. TypeOK'
    <3>1. outcome[s] \in {"failed", "closed"} /\ errorsChannel \in Seq({"failed", "closed"})
      BY <1>4 DEF Report, ServersAgree, TypeOK
    <3>2. errorsChannel' \in Seq({"failed", "closed"})
      BY <1>4, <3>1 DEF Report
    <3>3. Len(errorsChannel') = Len(errorsChannel) + 1
      BY <1>4, <3>1 DEF Report
    <3>4. Len(errorsChannel') <= serverErrorBufferSize
      BY <1>4, <3>1, <3>3 DEF Report, serverErrorBufferSize
    <3>5. QED
      BY <1>4, <3>2, <3>4 DEF Report, TypeOK
  <2>2. ResourcesByStep'
    BY <1>4 DEF ResourcesByStep, TypeOK, InUse, Report
  <2>3. ServersAgree'
    BY <1>4 DEF ServersAgree, TypeOK, BeforeSelect, Report
  <2>4. ListenersOpened'
    BY <1>4 DEF ListenersOpened, TypeOK, ResourcesByStep, Roles, Report
  <2>5. ReportsLeft'
    BY <1>4 DEF ReportsLeft, TypeOK, Ended, BeforeSelect, ServersAgree, Report
  <2>6. StoppedInOrder'
    BY <1>4 DEF StoppedInOrder, TypeOK, Done, Unwinding, Report
  <2>7. QED
    BY <2>1, <2>2, <2>3, <2>4, <2>5, <2>6
<1>5. QED
  BY <1>1, <1>2, <1>3, <1>4

\* The handlers of a server.
LEMMA HandlerInvariant ==
  ASSUME LifecycleInv, NEW s \in Roles, Accept(s) \/ Acquire(s) \/ Release(s) \/ Finish(s)
  PROVE  LifecycleInv'
<1> USE ServerNames, LifecycleAssumption DEF LifecycleInv
<1>1. CASE Accept(s)
  <2>1. TypeOK'
    BY <1>1 DEF TypeOK, InUse, Accept
  <2>2. ResourcesByStep'
    BY <1>1 DEF ResourcesByStep, TypeOK, InUse, Accept
  <2>3. ServersAgree'
    BY <1>1 DEF ServersAgree, TypeOK, BeforeSelect, Accept
  <2>4. ListenersOpened'
    BY <1>1 DEF ListenersOpened, TypeOK, ResourcesByStep, Roles, Accept
  <2>5. ReportsLeft'
    BY <1>1 DEF ReportsLeft, TypeOK, Ended, BeforeSelect, ServersAgree, Accept
  <2>6. StoppedInOrder'
    BY <1>1 DEF StoppedInOrder, TypeOK, Done, Unwinding, Accept
  <2>7. QED
    BY <2>1, <2>2, <2>3, <2>4, <2>5, <2>6
<1>2. CASE Acquire(s)
  <2>1. TypeOK'
    BY <1>2 DEF TypeOK, InUse, Acquire
  <2>2. ResourcesByStep'
    BY <1>2 DEF ResourcesByStep, TypeOK, InUse, Acquire
  <2>3. ServersAgree'
    BY <1>2 DEF ServersAgree, TypeOK, BeforeSelect, Acquire
  <2>4. ListenersOpened'
    BY <1>2 DEF ListenersOpened, TypeOK, ResourcesByStep, Roles, Acquire
  <2>5. ReportsLeft'
    BY <1>2 DEF ReportsLeft, TypeOK, Ended, BeforeSelect, ServersAgree, Acquire
  <2>6. StoppedInOrder'
    BY <1>2 DEF StoppedInOrder, TypeOK, Done, Unwinding, Acquire
  <2>7. QED
    BY <2>1, <2>2, <2>3, <2>4, <2>5, <2>6
<1>3. CASE Release(s)
  <2>1. TypeOK'
    BY <1>3 DEF TypeOK, InUse, Release
  <2>2. ResourcesByStep'
    BY <1>3 DEF ResourcesByStep, TypeOK, InUse, Release
  <2>3. ServersAgree'
    BY <1>3 DEF ServersAgree, TypeOK, BeforeSelect, Release
  <2>4. ListenersOpened'
    BY <1>3 DEF ListenersOpened, TypeOK, ResourcesByStep, Roles, Release
  <2>5. ReportsLeft'
    BY <1>3 DEF ReportsLeft, TypeOK, Ended, BeforeSelect, ServersAgree, Release
  <2>6. StoppedInOrder'
    BY <1>3 DEF StoppedInOrder, TypeOK, Done, Unwinding, Release
  <2>7. QED
    BY <2>1, <2>2, <2>3, <2>4, <2>5, <2>6
<1>4. CASE Finish(s)
  <2>1. TypeOK'
    BY <1>4 DEF TypeOK, InUse, Finish
  <2>2. ResourcesByStep'
    BY <1>4 DEF ResourcesByStep, TypeOK, InUse, Finish
  <2>3. ServersAgree'
    BY <1>4 DEF ServersAgree, TypeOK, BeforeSelect, Finish
  <2>4. ListenersOpened'
    BY <1>4 DEF ListenersOpened, TypeOK, ResourcesByStep, Roles, Finish
  <2>5. ReportsLeft'
    BY <1>4 DEF ReportsLeft, TypeOK, Ended, BeforeSelect, ServersAgree, Finish
  <2>6. StoppedInOrder'
    BY <1>4 DEF StoppedInOrder, TypeOK, Done, Unwinding, Finish
  <2>7. QED
    BY <2>1, <2>2, <2>3, <2>4, <2>5, <2>6
<1>5. QED
  BY <1>1, <1>2, <1>3, <1>4

\* The signal, and the time limit of the shutdown.
LEMMA EnvironmentInvariant ==
  ASSUME LifecycleInv, Signal \/ Expire
  PROVE  LifecycleInv'
<1> USE ServerNames DEF LifecycleInv
<1>1. TypeOK' /\ ResourcesByStep'
  BY DEF Signal, Expire, TypeOK, ResourcesByStep, InUse
<1>2. ServersAgree' /\ ListenersOpened'
  BY DEF Signal, Expire, ServersAgree, ListenersOpened
<1>3. ReportsLeft' /\ StoppedInOrder'
  BY DEF Signal, Expire, ReportsLeft, Ended, StoppedInOrder, Done
<1>4. QED
  BY <1>1, <1>2, <1>3

\* LifecycleInv is inductive: steps, resources, servers and reports agree, and
\* the servers are stopped one after the other (run, serve).
THEOREM LifecycleInvariant == Spec => []LifecycleInv
<1>1. LifecycleInv /\ [Next]_vars => LifecycleInv'
  <2> SUFFICES ASSUME LifecycleInv, [Next]_vars PROVE LifecycleInv'
    OBVIOUS
  <2>1. CASE Main
    BY <2>1, MainInvariant
  <2>2. CASE \E s \in Roles : Goroutine(s) \/ ServeFails(s) \/ Handlers(s)
    <3>1. PICK s \in Roles : Goroutine(s) \/ ServeFails(s) \/ Handlers(s)
      BY <2>2
    <3>2. CASE Goroutine(s) \/ ServeFails(s)
      BY <3>2, GoroutineInvariant DEF Goroutine
    <3>3. CASE Handlers(s)
      BY <3>3, HandlerInvariant DEF Handlers
    <3>4. QED
      BY <3>1, <3>2, <3>3
  <2>3. CASE Signal \/ Expire
    BY <2>3, EnvironmentInvariant
  <2>4. CASE Exited \/ UNCHANGED vars
    BY <2>4 DEF Exited, vars, LifecycleInv, TypeOK, ResourcesByStep, ServersAgree,
                ListenersOpened, ReportsLeft, StoppedInOrder, InUse, Ended, Done
  <2>5. QED
    BY <2>1, <2>2, <2>3, <2>4 DEF Next
<1>2. QED
  BY <1>1, InitInvariant, PTL DEF Spec

-----------------------------------------------------------------------------
(* What follows from it.                                                   *)

\* Exit code 0 is only returned by a process that was asked to stop and has
\* drained both servers (serve joins every error of stopServer).
THEOREM CleanExitDrained == Spec => []CleanExitMeansDrained
<1>1. LifecycleInv => CleanExitMeansDrained
  <2> SUFFICES ASSUME LifecycleInv, step = "exit", failed = FALSE
               PROVE  signalled /\ \A s \in Roles : closing[s] /\ handling[s] = 0
    BY DEF CleanExitMeansDrained, LifecycleInv, TypeOK
  <2>1. \A s \in Roles : Done(s) /\ signalled
    BY DEF LifecycleInv, StoppedInOrder, Unwinding
  <2>2. QED
    BY <2>1, ServerNames DEF Done
<1>2. QED
  BY <1>1, LifecycleInvariant, PTL

\* A server goroutine never waits to report (serverErrorBufferSize).
THEOREM ReportsNeverWait == Spec => []ReportsNeverBlock
<1>1. LifecycleInv => ReportsNeverBlock
  <2> SUFFICES ASSUME LifecycleInv, NEW s \in Roles, goroutine[s] = "reporting"
               PROVE  Len(errorsChannel) < serverErrorBufferSize
    BY DEF ReportsNeverBlock
  <2>1. Ended(s) = 0 /\ \A t \in Roles : Ended(t) \in {0, 1}
    BY DEF Ended
  <2>2. Ended("public") + Ended("management") <= 1
    BY <2>1, ServerNames
  <2>3. QED
    BY <2>1, <2>2, ServerNames DEF LifecycleInv, ReportsLeft, TypeOK, serverErrorBufferSize
<1>2. QED
  BY <1>1, LifecycleInvariant, PTL

\* Telemetry is flushed after the pool is closed, and the pool is closed after
\* the last query (the order of run's defers).
THEOREM TelemetryFlushedLast == Spec => []TelemetryOutlivesQueries
<1>1. LifecycleInv => TelemetryOutlivesQueries
  BY DEF LifecycleInv, ResourcesByStep, TelemetryOutlivesQueries
<1>2. QED
  BY <1>1, LifecycleInvariant, PTL

\* Whatever startup step failed, what was acquired before it is released
\* (closeListeners, run's defers).
THEOREM EverythingReleased == Spec => []ExitReleasesAll
<1>1. LifecycleInv => ExitReleasesAll
  BY DEF LifecycleInv, TypeOK, ResourcesByStep, ServersAgree, StoppedInOrder, Done,
         Unwinding, ExitReleasesAll
<1>2. QED
  BY <1>1, LifecycleInvariant, PTL

\* The management listener outlasts the drain of the public server (the order
\* of the servers slice).
THEOREM ManagementStopsLast == Spec => []ManagementOutlastsPublic
<1>1. LifecycleInv => ManagementOutlastsPublic
  <2> SUFFICES ASSUME LifecycleInv, step = "stop", handling["public"] > 0,
                      deadline = "armed", outcome["management"] # "failed"
               PROVE  socket["management"] = "open"
    BY DEF ManagementOutlastsPublic
  <2>1. handling["public"] \in Int /\ index \in 1..2
    BY ServerNames, LifecycleAssumption DEF LifecycleInv, TypeOK
  <2>2. index = 1
    BY <2>1, ServerNames DEF LifecycleInv, StoppedInOrder, Done
  <2>3. ~closing["management"]
    BY <2>2, ServerNames DEF LifecycleInv, StoppedInOrder
  <2>4. QED
    BY <2>3, ServerNames DEF LifecycleInv, TypeOK, ServersAgree
<1>2. QED
  BY <1>1, LifecycleInvariant, PTL

-----------------------------------------------------------------------------
(* Progress: the part of EventuallyExits that no scheduling is needed for. *)

\* How far the main goroutine has come: its step, the server its loop is at,
\* and whether the shutdown of that server, or of the pool, has begun.
Progress ==
  CASE step = "telemetry" -> 0
    [] step = "pool" -> 1
    [] step = "ping" -> 2
    [] step = "schema" -> 3
    [] step = "listen" -> 3 + index
    [] step = "start" -> 6
    [] step = "select" -> 7
    [] step = "stop" -> 6 + 2 * index + (IF closing[Servers[index]] THEN 1 ELSE 0)
    [] step = "closePool" -> IF pool = "closing" THEN 13 ELSE 12
    [] step = "flush" -> 14
    [] step = "exit" -> 15

MainAdvances ==
  /\ Progress' \in 0..15
  /\ Progress' >= Progress
  /\ Main => Progress' > Progress

LEMMA ProgressType ==
  ASSUME TypeOK
  PROVE  Progress \in 0..15
<1> DEFINE begun == IF closing[Servers[index]] THEN 1 ELSE 0
<1>1. index \in 1..2
  BY ServerNames DEF TypeOK
<1>2. CASE step = "stop"
  <2>1. begun \in {0, 1}
    OBVIOUS
  <2>2. Progress = 6 + 2 * index + begun
    BY <1>2 DEF Progress
  <2> HIDE DEF begun
  <2>3. QED
    BY <1>1, <2>1, <2>2
<1>3. CASE step = "listen"
  <2>1. Progress = 3 + index
    BY <1>3 DEF Progress
  <2>2. QED
    BY <1>1, <2>1
<1>4. CASE step = "closePool"
  BY <1>4 DEF Progress
<1>5. CASE step \in {"telemetry", "pool", "ping", "schema"}
  BY <1>5 DEF Progress
<1>6. CASE step \in {"start", "select", "flush", "exit"}
  BY <1>6 DEF Progress
<1>7. QED
  BY <1>2, <1>3, <1>4, <1>5, <1>6 DEF TypeOK

\* Startup only goes on, or unwinds.
LEMMA StartupAdvances ==
  ASSUME LifecycleInv, Startup
  PROVE  Progress' > Progress
<1>1. index \in 1..2 /\ (step # "listen" /\ step # "stop" => index = 1)
  BY ServerNames DEF LifecycleInv, TypeOK, ResourcesByStep
<1>2. CASE SetupTelemetry
  BY <1>2 DEF SetupTelemetry, GoTo, Abort, Progress
<1>3. CASE CreatePool
  BY <1>3 DEF CreatePool, GoTo, Abort, Progress
<1>4. CASE CheckDatabase
  BY <1>1, <1>4 DEF CheckDatabase, GoTo, Abort, Progress
<1>5. CASE Listen
  <2>1. step = "listen" /\ Progress = 3 + index /\ UNCHANGED pool
    BY <1>5 DEF Listen, Progress
  <2>2. CASE Abort("closePool")
    <3>1. step' = "closePool" /\ Progress' \in {12, 13}
      BY <2>2 DEF Abort, Progress
    <3>2. QED
      BY <1>1, <2>1, <3>1
  <2>3. CASE Advance("start")
    <3>1. CASE index < Len(Servers)
      BY <1>1, <2>1, <2>3, <3>1, ServerNames DEF Advance, Progress
    <3>2. CASE ~ (index < Len(Servers))
      BY <1>1, <2>1, <2>3, <3>2, ServerNames DEF Advance, Progress
    <3>3. QED
      BY <3>1, <3>2
  <2>4. QED
    BY <1>5, <2>2, <2>3 DEF Listen
<1>6. CASE StartServers
  BY <1>6 DEF StartServers, GoTo, Progress
<1>7. QED
  BY <1>2, <1>3, <1>4, <1>5, <1>6 DEF Startup

\* The shutdown stops one server after the other, each of them once.
LEMMA ShutdownAdvances ==
  ASSUME LifecycleInv, StopServer
  PROVE  Progress' > Progress
<1> DEFINE begun == IF closing[Servers[index]] THEN 1 ELSE 0
<1>1. index \in 1..2 /\ Len(Servers) = 2 /\ Servers[index] \in Roles
  BY ServerNames DEF LifecycleInv, TypeOK
<1>2. step = "stop" /\ Progress = 6 + 2 * index + begun /\ begun \in {0, 1}
  BY DEF StopServer, Shutdown, Drained, GiveUp, Progress
<1>3. CASE Shutdown
  <2>1. ~closing[Servers[index]] /\ closing' = [closing EXCEPT ![Servers[index]] = TRUE]
        /\ UNCHANGED <<step, index>>
    BY <1>3 DEF Shutdown
  <2>2. closing'[Servers[index]] = TRUE
    BY <1>1, <2>1 DEF LifecycleInv, TypeOK
  <2>3. Progress' = 7 + 2 * index
    BY <1>1, <1>2, <2>1, <2>2 DEF Progress
  <2>4. QED
    BY <1>1, <1>2, <2>1, <2>3
<1>4. CASE Drained \/ GiveUp
  <2>1. Advance("closePool") /\ UNCHANGED <<pool, closing>>
    BY <1>4 DEF Drained, GiveUp
  <2>2. CASE index < 2
    <3>1. index = 1 /\ index' = 2 /\ step' = "stop"
      BY <1>1, <1>2, <2>1, <2>2 DEF Advance
    <3>2. Progress' \in {10, 11}
      BY <3>1 DEF Progress
    <3>3. Progress \in {8, 9}
      BY <1>2, <3>1
    <3>4. QED
      BY <3>2, <3>3
  <2>3. CASE ~ (index < 2)
    <3>1. index = 2 /\ step' = "closePool"
      BY <1>1, <2>1, <2>3 DEF Advance
    <3>2. Progress' \in {12, 13}
      BY <3>1 DEF Progress
    <3>3. Progress \in {10, 11}
      BY <1>2, <3>1
    <3>4. QED
      BY <3>2, <3>3
  <2>4. QED
    BY <2>2, <2>3
<1>5. QED
  BY <1>3, <1>4 DEF StopServer

\* Nothing but the main goroutine's own steps moves it.
LEMMA OthersLeaveMain ==
  ASSUME LifecycleInv,
         \/ \E s \in Roles : Goroutine(s) \/ ServeFails(s) \/ Handlers(s)
         \/ Signal \/ Expire \/ UNCHANGED vars
  PROVE  UNCHANGED <<step, index, closing, pool>>
BY DEF Goroutine, Serve, ServeCloses, Report, ServeFails, ServeReturns,
       Handlers, Accept, Acquire, Release, Finish, Signal, Expire, vars

\* From app.Run to its exit the main goroutine takes at most fifteen steps,
\* whatever fails, and none of them back: it can only be waiting (run, serve).
THEOREM MainNeverGoesBack == Spec => [][MainAdvances]_vars
<1>1. LifecycleInv => Progress \in 0..15
  BY ProgressType DEF LifecycleInv
<1>2. ASSUME LifecycleInv, Next, Progress \in 0..15, (Progress \in 0..15)'
      PROVE  MainAdvances
  <2>1. CASE Select
    <3>1. step = "select" /\ step' = "stop" /\ index' = 1
      BY <1>2, <2>1 DEF Select, GoTo, LifecycleInv, ResourcesByStep
    <3>2. Progress = 7 /\ Progress' \in {8, 9}
      BY <3>1 DEF Progress
    <3>3. QED
      BY <1>2, <3>2 DEF MainAdvances
  <2>2. CASE ClosePool
    <3>1. \/ step = "closePool" /\ pool = "open" /\ step' = "closePool" /\ pool' = "closing"
          \/ step = "closePool" /\ pool = "closing" /\ step' = "flush"
      BY <2>2 DEF ClosePool
    <3>2. (Progress = 12 /\ Progress' = 13) \/ (Progress = 13 /\ Progress' = 14)
      BY <3>1 DEF Progress
    <3>3. QED
      BY <1>2, <3>2 DEF MainAdvances
  <2>3. CASE FlushTelemetry
    <3>1. step = "flush" /\ step' = "exit"
      BY <2>3 DEF FlushTelemetry
    <3>2. Progress = 14 /\ Progress' = 15
      BY <3>1 DEF Progress
    <3>3. QED
      BY <1>2, <3>2 DEF MainAdvances
  <2>4. CASE Startup
    <3>1. Progress' > Progress
      BY <1>2, <2>4, StartupAdvances
    <3>2. QED
      BY <1>2, <3>1 DEF MainAdvances
  <2>5. CASE StopServer
    <3>1. Progress' > Progress
      BY <1>2, <2>5, ShutdownAdvances
    <3>2. QED
      BY <1>2, <3>1 DEF MainAdvances
  <2>6. CASE ~Main
    <3>1. UNCHANGED <<step, index, closing, pool>>
      BY <1>2, <2>6, OthersLeaveMain DEF Next, Exited
    <3>2. Progress' = Progress
      BY <3>1 DEF Progress
    <3>3. QED
      BY <1>2, <2>6, <3>2 DEF MainAdvances
  <2>7. QED
    BY <2>1, <2>2, <2>3, <2>4, <2>5, <2>6 DEF Main, Deferred
<1>3. LifecycleInv /\ Progress \in 0..15 /\ (Progress \in 0..15)' /\ [Next]_vars
        => [MainAdvances]_vars
  BY <1>2
<1>4. QED
  BY <1>1, <1>3, LifecycleInvariant, PTL DEF Spec

=============================================================================
