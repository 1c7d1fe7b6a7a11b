------------------------- MODULE ConfigurationProofs -------------------------
(***************************************************************************)
(* Theorems about configurations, for every set of environments and files: *)
(* any variables with any values, and any file, at any moment of a         *)
(* `config init`.                                                          *)
(***************************************************************************)
EXTENDS Configuration, TLAPS

-----------------------------------------------------------------------------
(* The table of settings and the variables.                                *)

\* Seven days, counted in minutes, are a number of days that the settings take.
LEMMA DaysInRange == 10080 \in 1..MaxDays
<1>1. MaxDays \in Int /\ MaxDays >= 10080
  BY SMT DEF MaxDays
<1> QED
  BY <1>1

\* Each default is a value of its type.
LEMMA DefaultsParse ==
  ASSUME NEW s \in DOMAIN Sections, NEW n \in DOMAIN Sections[s]
  PROVE  /\ <<s, n>> \in Keys /\ Of(<<s, n>>) = Sections[s][n]
         /\ Parse(<<s, n>>, Sections[s][n].default) = Sections[s][n].default
<1>1. <<s, n>> \in Keys /\ Of(<<s, n>>) = Sections[s][n]
  BY DEF Keys, Of
<1>2. s \in {"telemetry", "daemon", "storage", "ingestion", "query", "interfaces"}
  BY DEF Sections
<1>3. CASE s = "telemetry"
  BY <1>1, <1>3 DEF Sections, Setting, Parse, DefaultUrl
<1>4. CASE s = "daemon"
  BY <1>1, <1>4 DEF Sections, Setting, Counted, Parse, ParseInt, StateHome
<1>5. CASE s = "storage"
  <2>1. CASE n = "retention_days"
    <3>1. Sections[s][n] = Setting("days", <<"int", 10080>>, 1, MaxSafeInteger)
      BY <1>5, <2>1 DEF Sections
    <3> QED
      BY <1>1, <3>1, DaysInRange DEF Setting, Parse, ParseDays
  <2>2. CASE n # "retention_days"
    BY <1>1, <1>5, <2>2 DEF Sections, Setting, Counted, Parse, ParseInt
  <2> QED
    BY <2>1, <2>2
<1>6. CASE s = "ingestion"
  BY <1>1, <1>6 DEF Sections, Setting, Counted, Parse, ParseInt
<1>7. CASE s = "query"
  <2>1. CASE n = "max_lookback_days"
    <3>1. Sections[s][n] = Setting("days", <<"int", 10080>>, 1, MaxSafeInteger)
      BY <1>7, <2>1 DEF Sections
    <3> QED
      BY <1>1, <3>1, DaysInRange DEF Setting, Parse, ParseDays
  <2>2. CASE n # "max_lookback_days"
    BY <1>1, <1>7, <2>2 DEF Sections, Setting, Counted, Parse, ParseInt
  <2> QED
    BY <2>1, <2>2
<1>8. CASE s = "interfaces"
  BY <1>1, <1>8 DEF Sections, Setting, Counted, Parse, ParseInt
<1> QED
  BY <1>3, <1>4, <1>5, <1>6, <1>7, <1>8, <1>2

\* The settings whose limits depend on each other.
LEMMA LimitedKeys ==
  /\ \A n \in {"max_compressed_bytes", "max_decompressed_bytes", "queue_byte_capacity"} :
       /\ <<"ingestion", n>> \in Keys /\ Of(<<"ingestion", n>>).kind = "int"
       /\ Of(<<"ingestion", n>>).low \in Int /\ Of(<<"ingestion", n>>).high \in Int
  /\ Of(<<"ingestion", "max_compressed_bytes">>).low = 1
  /\ <<"interfaces", "default_range_minutes">> \in Keys
  /\ Of(<<"interfaces", "default_range_minutes">>).kind = "int"
  /\ Of(<<"interfaces", "default_range_minutes">>).low = 1
  /\ Of(<<"interfaces", "default_range_minutes">>).high = 100800
  /\ <<"query", "max_results">> \in Keys /\ Of(<<"query", "max_results">>).kind = "int"
  /\ Of(<<"query", "max_results">>).low = 100 /\ Of(<<"query", "max_results">>).high = 500
  /\ <<"query", "max_lookback_days">> \in Keys
  /\ Of(<<"query", "max_lookback_days">>).kind = "days"
  /\ Of(<<"query", "max_lookback_days">>).low = 1 /\ Of(<<"query", "max_lookback_days">>).high \in Int
<1>1. DOMAIN Sections = {"telemetry", "daemon", "storage", "ingestion", "query", "interfaces"}
  BY DEF Sections
<1>2. \A n \in {"max_compressed_bytes", "max_decompressed_bytes", "queue_byte_capacity"} :
        n \in DOMAIN Sections["ingestion"]
  BY DEF Sections
<1>3. {"max_results", "max_lookback_days"} \subseteq DOMAIN Sections["query"]
  BY DEF Sections
<1>4. "default_range_minutes" \in DOMAIN Sections["interfaces"]
  BY DEF Sections
<1>5. /\ \A n \in {"max_compressed_bytes", "max_decompressed_bytes", "queue_byte_capacity"} :
           <<"ingestion", n>> \in Keys
      /\ <<"interfaces", "default_range_minutes">> \in Keys
      /\ <<"query", "max_results">> \in Keys /\ <<"query", "max_lookback_days">> \in Keys
  BY <1>1, <1>2, <1>3, <1>4, DefaultsParse
<1>6. /\ Of(<<"ingestion", "max_compressed_bytes">>) = Counted(8 * Mebi, 1, MaxSafeInteger)
      /\ Of(<<"ingestion", "max_decompressed_bytes">>) = Counted(32 * Mebi, 1, MaxSafeInteger)
      /\ Of(<<"ingestion", "queue_byte_capacity">>) = Counted(64 * Mebi, -MaxSafeInteger, MaxSafeInteger)
  BY DEF Of, Sections
<1>7. /\ Of(<<"interfaces", "default_range_minutes">>) = Counted(15, 1, 100800)
      /\ Of(<<"query", "max_results">>) = Counted(500, 100, 500)
      /\ Of(<<"query", "max_lookback_days">>) = Setting("days", <<"int", 10080>>, 1, MaxSafeInteger)
  BY DEF Of, Sections
<1> QED
  BY <1>5, <1>6, <1>7 DEF Counted, Setting, MaxSafeInteger

\* A setting has at most one variable, and the path of the file is not a setting.
LEMMA VariableOfKey ==
  /\ \A m, n \in DOMAIN Variables : Variables[m] = Variables[n] => m = n
  /\ "BELFRY_CONFIG_PATH" \notin DOMAIN Variables
BY DEF Variables

-----------------------------------------------------------------------------
(* The sources.                                                            *)

\* What an environment that is accepted provides.
LEMMA EnvProvides ==
  ASSUME NEW vars, LoadEnvOverrides(vars) # Invalid
  PROVE  LET given == LoadEnvOverrides(vars)[2]
             names == DOMAIN vars \cap DOMAIN Variables
         IN  /\ DOMAIN given = {Variables[n] : n \in names}
             /\ \A n \in names : given[Variables[n]] = vars[n]
<1> DEFINE names == DOMAIN vars \cap DOMAIN Variables
           given == [k \in {Variables[n] : n \in names} |-> vars[CHOOSE n \in names : Variables[n] = k]]
<1>1. LoadEnvOverrides(vars) = <<"provider", given>>
  BY DEF LoadEnvOverrides
<1>2. ASSUME NEW n \in names  PROVE given[Variables[n]] = vars[n]
  <2>1. (CHOOSE m \in names : Variables[m] = Variables[n]) = n
    <3>1. \A m \in names : Variables[m] = Variables[n] => m = n
      BY VariableOfKey
    <3> QED
      BY <3>1
  <2> QED
    BY <2>1
<1>3. LoadEnvOverrides(vars)[2] = given
  BY <1>1
<1> HIDE DEF given
<1>4. DOMAIN given = {Variables[n] : n \in names}
  BY DEF given
<1> QED
  BY <1>2, <1>3, <1>4

\* What a file that is accepted provides: its settings, or nothing when it is missing.
LEMMA FileProvides ==
  ASSUME NEW vars, NEW f, IsFile(f), LoadFile(vars, f) # Invalid
  PROVE  \/ f[1] = "missing" /\ LoadFile(vars, f) = <<"missingDefault", <<>>>>
         \/ /\ f[1] = "toml" /\ ShapeAccepted(f[2])
            /\ LoadFile(vars, f) = <<"provider", [k \in FileKeys(f[2]) |-> f[2][k[1]][2][k[2]]]>>
BY DEF LoadFile, Invalid, IsFile

\* The keys of an accepted file are settings.
LEMMA FileKeysKnown == ASSUME NEW tables, ShapeAccepted(tables)  PROVE FileKeys(tables) \subseteq Keys
BY DEF ShapeAccepted, FileKeys, Keys

\* The first of two providers goes before the second, and the default comes last.
LEMMA Precedence ==
  ASSUME NEW e, NEW g, NEW k \in Keys
  PROVE  ParsedWith(<<e, g>>)[k] =
           IF k \in DOMAIN e THEN Parse(k, e[k])
           ELSE IF k \in DOMAIN g THEN Parse(k, g[k]) ELSE Of(k).default
<1> DEFINE providers == <<e, g>>
           having == {i \in DOMAIN providers : k \in DOMAIN providers[i]}
           first  == CHOOSE i \in having : \A j \in having : i <= j
<1>1. DOMAIN providers = {1, 2} /\ providers[1] = e /\ providers[2] = g
  OBVIOUS
<1>2. ParsedWith(providers)[k] = IF having = {} THEN Of(k).default ELSE Parse(k, providers[first][k])
  BY DEF ParsedWith
<1>3. CASE k \in DOMAIN e
  <2>1. 1 \in having /\ having \subseteq {1, 2}
    BY <1>1, <1>3
  <2>2. \A i \in having : (\A j \in having : i <= j) => i = 1
    BY <2>1
  <2>3. \A j \in having : 1 <= j
    BY <2>1
  <2>4. first = 1
    BY <2>1, <2>2, <2>3
  <2> QED
    BY <1>1, <1>2, <1>3, <2>1, <2>4
<1>4. CASE k \notin DOMAIN e /\ k \in DOMAIN g
  <2>1. having = {2}
    BY <1>1, <1>4
  <2>2. first = 2
    BY <2>1
  <2> QED
    BY <1>1, <1>2, <1>4, <2>1, <2>2
<1>5. CASE k \notin DOMAIN e /\ k \notin DOMAIN g
  <2>1. having = {}
    BY <1>1, <1>5
  <2> QED
    BY <1>2, <1>5, <2>1
<1> QED
  BY <1>3, <1>4, <1>5

\* What it takes for a load to give a configuration.
LEMMA Loaded ==
  ASSUME NEW vars, NEW f, Load(vars, f) # Invalid
  PROVE  LET settings == ParsedWith(<<LoadEnvOverrides(vars)[2], LoadFile(vars, f)[2]>>)
         IN  /\ LoadEnvOverrides(vars) # Invalid /\ LoadFile(vars, f) # Invalid
             /\ \A k \in Keys : settings[k] # Invalid
             /\ ValidEffective(Configured(settings))
             /\ Load(vars, f)[2] = Configured(settings)
BY DEF Load, ParseEffective, Accepted

-----------------------------------------------------------------------------
(* A configuration that loads.                                             *)

\* Wherever the settings put them, the paths of a configuration are absolute.
LEMMA PathsAbsolute ==
  ASSUME NEW settings, NEW p \in DOMAIN Configured(settings).paths
  PROVE  IsAbsolute(Configured(settings).paths[p])
<1> DEFINE directory == ResolveStateDirectory(settings[<<"daemon", "state_directory">>])
           database  == settings[<<"storage", "database_path">>]
<1>1. ASSUME NEW q, q[1] = "path", q[2] \in {"home", "user"}
      PROVE  ExpandHome(q)[1] \in {"home", "working"}
  BY <1>1 DEF ExpandHome
<1>2. ASSUME NEW q  PROVE ResolveStateDirectory(q)[1] \in {"root", "home", "working"}
  <2>1. CASE q[1] = "path" /\ q[2] \in {"home", "user"}
    BY <2>1, <1>1 DEF ResolveStateDirectory
  <2>2. CASE q[1] = "path" /\ q[2] = "absolute"
    BY <2>2 DEF ResolveStateDirectory
  <2>3. CASE q = <<"blank">>
    BY <2>3 DEF ResolveStateDirectory
  <2>4. CASE ~(q[1] = "path" /\ q[2] \in {"home", "user"}) /\ ~(q[1] = "path" /\ q[2] = "absolute") /\ q # <<"blank">>
    BY <2>4 DEF ResolveStateDirectory
  <2> QED
    BY <2>1, <2>2, <2>3, <2>4
<1>3. directory[1] \in {"root", "home", "working"}
  BY <1>2
<1> HIDE DEF directory, database
<1>4. IsAbsolute(directory) /\ \A name : IsAbsolute(<<"below", directory, name>>)
  BY <1>3 DEF IsAbsolute
<1>5. IsAbsolute(ResolveStatePath(directory, database, "telemetry.db"))
  <2>1. CASE database = <<"blank">>
    BY <2>1, <1>4 DEF ResolveStatePath
  <2>2. CASE database[1] = "path" /\ database[2] \in {"home", "user"}
    BY <2>2, <1>1 DEF ResolveStatePath, IsAbsolute
  <2>3. CASE database[1] = "path" /\ database[2] = "absolute"
    BY <2>3 DEF ResolveStatePath, IsAbsolute
  <2>4. CASE /\ database # <<"blank">> /\ ~(database[1] = "path" /\ database[2] \in {"home", "user"})
             /\ ~(database[1] = "path" /\ database[2] = "absolute")
    BY <2>4, <1>4 DEF ResolveStatePath
  <2> QED
    BY <2>1, <2>2, <2>3, <2>4
<1>6. Configured(settings).paths =
        [stateDirectory |-> directory, registry |-> <<"below", directory, "daemon.json">>,
         lock |-> <<"below", directory, "daemon.lock">>, cursorSecret |-> <<"below", directory, "cursor.key">>,
         database |-> ResolveStatePath(directory, database, "telemetry.db")]
  BY DEF Configured, directory, database
<1> QED
  BY <1>4, <1>5, <1>6

\* The limits fit together.
LEMMA LimitsFit == ASSUME NEW c, ValidEffective(c)  PROVE LimitsSound(c)
<1> DEFINE N(s, n) == c.settings[<<s, n>>][2]
<1>1. ASSUME NEW k \in Keys, Of(k).kind \in {"int", "days"}  PROVE c.settings[k][2] \in Of(k).low..Of(k).high
  BY <1>1 DEF ValidEffective
<1>2. /\ N("ingestion", "max_decompressed_bytes") >= N("ingestion", "max_compressed_bytes")
      /\ N("ingestion", "queue_byte_capacity") >= N("ingestion", "max_compressed_bytes")
      /\ N("interfaces", "default_range_minutes") <= N("query", "max_lookback_days")
  BY DEF ValidEffective
<1>3. \A n \in {"max_compressed_bytes", "max_decompressed_bytes", "queue_byte_capacity"} :
        N("ingestion", n) \in Of(<<"ingestion", n>>).low..Of(<<"ingestion", n>>).high
  BY <1>1, LimitedKeys
<1>4. /\ N("ingestion", "max_compressed_bytes") \in Int /\ N("ingestion", "max_compressed_bytes") >= 1
      /\ N("ingestion", "max_decompressed_bytes") \in Int /\ N("ingestion", "queue_byte_capacity") \in Int
  BY <1>3, LimitedKeys
<1>5. N("interfaces", "default_range_minutes") \in Int /\ N("interfaces", "default_range_minutes") >= 1
  <2>1. N("interfaces", "default_range_minutes")
          \in Of(<<"interfaces", "default_range_minutes">>).low..Of(<<"interfaces", "default_range_minutes">>).high
    BY <1>1, LimitedKeys
  <2> HIDE DEF N
  <2>2. /\ Of(<<"interfaces", "default_range_minutes">>).low = 1
        /\ Of(<<"interfaces", "default_range_minutes">>).high = 100800
    BY LimitedKeys
  <2> QED
    BY <2>1, <2>2
<1>6. N("query", "max_results") \in 100..500
  <2>1. N("query", "max_results") \in Of(<<"query", "max_results">>).low..Of(<<"query", "max_results">>).high
    BY <1>1, LimitedKeys
  <2> HIDE DEF N
  <2>2. Of(<<"query", "max_results">>).low = 100 /\ Of(<<"query", "max_results">>).high = 500
    BY LimitedKeys
  <2> QED
    BY <2>1, <2>2
<1>7. N("query", "max_lookback_days") \in Int
  <2>1. N("query", "max_lookback_days")
          \in Of(<<"query", "max_lookback_days">>).low..Of(<<"query", "max_lookback_days">>).high
    BY <1>1, LimitedKeys
  <2> HIDE DEF N
  <2> QED
    BY <2>1
<1> HIDE DEF N
<1>8. ASSUME NEW limit \in {"max_decompressed_bytes", "queue_byte_capacity"}
      PROVE  N("ingestion", "max_compressed_bytes") \in 1..N("ingestion", limit)
  BY <1>2, <1>4, <1>8
<1>9. N("interfaces", "default_range_minutes") \in 1..N("query", "max_lookback_days")
  BY <1>2, <1>5, <1>7
<1> QED
  BY <1>6, <1>8, <1>9 DEF N, LimitsSound

\* The values that count first for a setting are those the providers give.
LEMMA GivenParsed ==
  ASSUME NEW f, IsFile(f), Load(env, f) # Invalid, NEW k \in Keys
  PROVE  /\ ParsedGiven(k, f) # {Invalid}
         /\ ParsedWith(<<LoadEnvOverrides(env)[2], LoadFile(env, f)[2]>>)[k]
              = IF ParsedGiven(k, f) = {} THEN Of(k).default ELSE CHOOSE v \in ParsedGiven(k, f) : TRUE
<1> DEFINE given == ParsedGiven(k, f)
           names == {n \in DOMAIN env \cap DOMAIN Variables : Variables[n] = k}
           e     == LoadEnvOverrides(env)[2]
           g     == LoadFile(env, f)[2]
           value == ParsedWith(<<e, g>>)[k]
<1>1. LoadEnvOverrides(env) # Invalid /\ LoadFile(env, f) # Invalid /\ value # Invalid
  BY Loaded
<1>2. /\ DOMAIN e = {Variables[n] : n \in DOMAIN env \cap DOMAIN Variables}
      /\ \A n \in DOMAIN env \cap DOMAIN Variables : e[Variables[n]] = env[n]
  BY <1>1, EnvProvides
<1>3. \/ f[1] = "missing" /\ DOMAIN g = {}
      \/ f[1] = "toml" /\ g = [j \in FileKeys(f[2]) |-> f[2][j[1]][2][j[2]]]
  BY <1>1, FileProvides
<1>4. value = IF k \in DOMAIN e THEN Parse(k, e[k]) ELSE IF k \in DOMAIN g THEN Parse(k, g[k]) ELSE Of(k).default
  BY Precedence
<1> HIDE DEF e, g, value
<1>5. CASE names # {}
  <2>1. PICK n \in names : TRUE
    BY <1>5
  <2>2. names = {n}
    BY <2>1, VariableOfKey
  <2>3. GivenFor(k, f) = {env[n]}
    BY <2>2 DEF GivenFor
  <2>4. given = {Parse(k, env[n])}
    BY <2>3 DEF ParsedGiven
  <2>5. k \in DOMAIN e /\ e[k] = env[n]
    BY <2>1, <1>2
  <2>6. value = Parse(k, env[n])
    BY <2>5, <1>4
  <2> QED
    BY <2>4, <2>6, <1>1 DEF value, e, g
<1>6. CASE names = {} /\ f[1] = "toml" /\ k \in FileKeys(f[2])
  <2>1. GivenFor(k, f) = {f[2][k[1]][2][k[2]]}
    BY <1>6 DEF GivenFor
  <2>2. given = {Parse(k, f[2][k[1]][2][k[2]])}
    BY <2>1 DEF ParsedGiven
  <2>3. k \notin DOMAIN e
    BY <1>2, <1>6
  <2>4. k \in DOMAIN g /\ g[k] = f[2][k[1]][2][k[2]]
    BY <1>3, <1>6
  <2>5. value = Parse(k, f[2][k[1]][2][k[2]])
    BY <1>4, <2>3, <2>4
  <2> QED
    BY <2>2, <2>5, <1>1 DEF value, e, g
<1>7. CASE names = {} /\ ~(f[1] = "toml" /\ k \in FileKeys(f[2]))
  <2>1. GivenFor(k, f) = {}
    BY <1>7 DEF GivenFor
  <2>2. given = {}
    BY <2>1 DEF ParsedGiven
  <2>3. k \notin DOMAIN e
    BY <1>2, <1>7
  <2>4. k \notin DOMAIN g
    BY <1>3, <1>7
  <2>5. value = Of(k).default
    BY <1>4, <2>3, <2>4
  <2> QED
    BY <2>2, <2>5, <1>1 DEF value, e, g
<1> QED
  BY <1>5, <1>6, <1>7

\* All that ConfigurationSound says of a load.
LEMMA LoadIsSound ==
  ASSUME NEW f, IsFile(f), Load(env, f) # Invalid
  PROVE  LoadSound(Load(env, f)[2], f)
<1> DEFINE c == Load(env, f)[2]
           settings == ParsedWith(<<LoadEnvOverrides(env)[2], LoadFile(env, f)[2]>>)
<1>1. c = Configured(settings) /\ ValidEffective(c)
  BY Loaded
<1>2. c.settings = settings
  BY <1>1 DEF Configured
<1>3. \A p \in DOMAIN c.paths : IsAbsolute(c.paths[p])
  BY <1>1, PathsAbsolute
<1>4. \A k \in Keys :
        /\ ParsedGiven(k, f) # {Invalid}
        /\ settings[k] = IF ParsedGiven(k, f) = {} THEN Of(k).default ELSE CHOOSE v \in ParsedGiven(k, f) : TRUE
  BY GivenParsed
<1>5. LimitsSound(c)
  BY <1>1, LimitsFit
<1> HIDE DEF c, settings
<1>6. SettingsSound(c, f)
  BY <1>2, <1>4 DEF SettingsSound
<1> QED
  BY <1>3, <1>5, <1>6 DEF LoadSound, c

-----------------------------------------------------------------------------
(* A validation.                                                           *)

\* All that ConfigurationSound says of a validation: a bad key of the file would be the
\* value that counts, and the load invalid, unless a variable overrides it.
LEMMA ValidationIsTrue ==
  ASSUME NEW f, IsFile(f), Validate(env, f) # Invalid
  PROVE  ReportTrue(Validate(env, f)[2], f)
<1> DEFINE r == Validate(env, f)[2]
           source == LoadFile(env, f)
<1>1. PathSource(env) # "invalid"
  BY DEF Validate
<1>2. r = [file      |-> CASE source = Invalid -> "invalid"
                           [] source[1] = "missingDefault" -> "warning"
                           [] OTHER -> IF Accepted(<<source[2]>>) THEN "valid" ELSE "invalid",
           env       |-> IF LoadEnvOverrides(env) = Invalid THEN "invalid" ELSE "valid",
           effective |-> IF Load(env, f) = Invalid THEN "invalid" ELSE "valid"]
  BY <1>1 DEF Validate
<1>3. r.effective = "valid" <=> Load(env, f) # Invalid
  BY <1>2
<1>4. r.effective = "valid" => r.env = "valid"
  <2>1. Load(env, f) # Invalid => LoadEnvOverrides(env) # Invalid
    BY Loaded
  <2> QED
    BY <1>2, <1>3, <2>1
<1>5. ASSUME r.effective = "valid", r.file = "invalid"
      PROVE  /\ f[1] = "toml" /\ ShapeAccepted(f[2])
             /\ \A k \in FileKeys(f[2]) :
                  Parse(k, f[2][k[1]][2][k[2]]) = Invalid =>
                    \E n \in DOMAIN env \cap DOMAIN Variables : Variables[n] = k
  <2>1. Load(env, f) # Invalid /\ source # Invalid
    BY <1>3, <1>5, Loaded
  <2>2. source[1] # "missingDefault"
    BY <1>2, <1>5, <2>1
  <2>3. f[1] = "toml" /\ ShapeAccepted(f[2])
    BY <2>1, <2>2, FileProvides
  <2>4. ASSUME NEW k \in FileKeys(f[2]), Parse(k, f[2][k[1]][2][k[2]]) = Invalid,
               ~\E n \in DOMAIN env \cap DOMAIN Variables : Variables[n] = k
        PROVE  FALSE
    <3>1. k \in Keys
      BY <2>3, FileKeysKnown
    <3>2. GivenFor(k, f) = {f[2][k[1]][2][k[2]]}
      BY <2>3, <2>4 DEF GivenFor
    <3>3. ParsedGiven(k, f) = {Invalid}
      BY <3>2, <2>4 DEF ParsedGiven
    <3>4. ParsedGiven(k, f) # {Invalid}
      BY <2>1, <3>1, GivenParsed
    <3> QED
      BY <3>3, <3>4
  <2> QED
    BY <2>3, <2>4
<1> HIDE DEF r
<1> QED
  BY <1>3, <1>4, <1>5 DEF ReportTrue, r

-----------------------------------------------------------------------------
(* `config init`.                                                          *)

\* The configuration depends on what each source has for each setting.
LEMMA SameParsed ==
  ASSUME NEW e, NEW g, \A k \in DOMAIN g : k \in Keys => Parse(k, g[k]) = Of(k).default
  PROVE  ParsedWith(<<e, g>>) = ParsedWith(<<e, <<>>>>)
<1>1. ASSUME NEW k \in Keys  PROVE ParsedWith(<<e, g>>)[k] = ParsedWith(<<e, <<>>>>)[k]
  <2>1. DOMAIN <<>> = {}
    OBVIOUS
  <2> QED
    BY <2>1, Precedence
<1>2. \A h : DOMAIN ParsedWith(h) = Keys /\ ParsedWith(h) = [k \in Keys |-> ParsedWith(h)[k]]
  BY DEF ParsedWith
<1>3. [k \in Keys |-> ParsedWith(<<e, g>>)[k]] = [k \in Keys |-> ParsedWith(<<e, <<>>>>)[k]]
  BY <1>1
<1> QED
  BY <1>2, <1>3

\* The path of the file is not a setting: without it the environment says the same.
LEMMA PathIsNoSetting ==
  /\ PathSource(WithoutPath) = "default"
  /\ LoadEnvOverrides(WithoutPath) = LoadEnvOverrides(env)
<1>1. "BELFRY_CONFIG_PATH" \notin DOMAIN WithoutPath
  BY DEF WithoutPath
<1>2. DOMAIN WithoutPath \cap DOMAIN Variables = DOMAIN env \cap DOMAIN Variables
  BY VariableOfKey DEF WithoutPath
<1> DEFINE names == DOMAIN env \cap DOMAIN Variables
<1>3. \A n \in names : WithoutPath[n] = env[n]
  BY VariableOfKey DEF WithoutPath
<1>4. (\A n \in names : VariableAccepted(n, WithoutPath[n])) <=> (\A n \in names : VariableAccepted(n, env[n]))
  BY <1>3
<1>5. ASSUME NEW k \in {Variables[n] : n \in names}
      PROVE  WithoutPath[CHOOSE n \in names : Variables[n] = k] = env[CHOOSE n \in names : Variables[n] = k]
  <2>1. (CHOOSE n \in names : Variables[n] = k) \in names
    <3>1. \E n \in names : Variables[n] = k
      OBVIOUS
    <3> QED
      BY <3>1
  <2> QED
    BY <2>1, <1>3
<1>6. [k \in {Variables[n] : n \in names} |-> WithoutPath[CHOOSE n \in names : Variables[n] = k]] =
        [k \in {Variables[n] : n \in names} |-> env[CHOOSE n \in names : Variables[n] = k]]
  BY <1>5
<1> QED
  <2>1. PathSource(WithoutPath) = "default"
    BY <1>1 DEF PathSource
  <2>2. LoadEnvOverrides(WithoutPath) =
          IF \A n \in names : VariableAccepted(n, WithoutPath[n])
          THEN <<"provider", [k \in {Variables[n] : n \in names} |->
                               WithoutPath[CHOOSE n \in names : Variables[n] = k]]>>
          ELSE Invalid
    BY <1>2 DEF LoadEnvOverrides
  <2>3. LoadEnvOverrides(env) =
          IF \A n \in names : VariableAccepted(n, env[n])
          THEN <<"provider", [k \in {Variables[n] : n \in names} |->
                               env[CHOOSE n \in names : Variables[n] = k]]>>
          ELSE Invalid
    BY DEF LoadEnvOverrides
  <2> QED
    BY <2>1, <2>2, <2>3, <1>4, <1>6

\* A file that says only what the defaults say, or nothing, changes nothing.
DefaultsOnly(f) ==
  /\ f[1] = "toml" /\ ShapeAccepted(f[2])
  /\ \A k \in FileKeys(f[2]) : Parse(k, f[2][k[1]][2][k[2]]) = Of(k).default

LEMMA DefaultsChangeNothing ==
  ASSUME NEW f, DefaultsOnly(f), PathSource(env) # "invalid"
  PROVE  Load(env, f) = Load(WithoutPath, <<"missing">>)
<1> DEFINE g == [k \in FileKeys(f[2]) |-> f[2][k[1]][2][k[2]]]
           e == LoadEnvOverrides(env)
<1>1. LoadFile(env, f) = <<"provider", g>>
  BY DEF LoadFile, DefaultsOnly
<1>2. LoadFile(WithoutPath, <<"missing">>) = <<"missingDefault", <<>>>>
  BY PathIsNoSetting DEF LoadFile
<1>3. \A k \in DOMAIN g : k \in Keys => Parse(k, g[k]) = Of(k).default
  BY DEF DefaultsOnly
<1> HIDE DEF g
<1>4. ParsedWith(<<e[2], g>>) = ParsedWith(<<e[2], <<>>>>)
  BY <1>3, SameParsed
<1>5. <<"provider", g>> # Invalid /\ <<"missingDefault", <<>>>> # Invalid
  BY DEF Invalid
<1> HIDE DEF e
<1>6. ParseEffective(<<"provider", g>>, e) = ParseEffective(<<"missingDefault", <<>>>>, e)
  BY <1>4, <1>5 DEF ParseEffective, Accepted
<1>7. Load(env, f) = ParseEffective(<<"provider", g>>, e)
  BY <1>1 DEF Load, e
<1>8. Load(WithoutPath, <<"missing">>) = ParseEffective(<<"missingDefault", <<>>>>, e)
  BY <1>2, PathIsNoSetting DEF Load, e
<1> QED
  BY <1>6, <1>7, <1>8

\* The file between its creation and its text, and the one that `config init` writes.
LEMMA EmptyFileDefaults == DefaultsOnly(<<"toml", [s \in {} |-> <<>>]>>)
BY DEF DefaultsOnly, ShapeAccepted, FileKeys

LEMMA StarterFileDefaults == DefaultsOnly(StarterFile)
<1> DEFINE tables == StarterFile[2]
           left   == {"state_directory", "database_path"}
<1>1. /\ StarterFile[1] = "toml" /\ DOMAIN tables = DOMAIN Sections
      /\ \A s \in DOMAIN Sections :
           tables[s] = <<"table", [k \in DOMAIN Sections[s] \ left |-> Sections[s][k].default]>>
  BY DEF StarterFile
<1> HIDE DEF tables
<1>2. ASSUME NEW s \in DOMAIN Sections
      PROVE  /\ tables[s][1] = "table" /\ DOMAIN tables[s][2] = DOMAIN Sections[s] \ left
             /\ \A n \in DOMAIN tables[s][2] : tables[s][2][n] = Sections[s][n].default
  <2> DEFINE row == [n \in DOMAIN Sections[s] \ left |-> Sections[s][n].default]
  <2>1. tables[s] = <<"table", row>>
    BY <1>1
  <2>2. DOMAIN row = DOMAIN Sections[s] \ left /\ \A n \in DOMAIN row : row[n] = Sections[s][n].default
    OBVIOUS
  <2> HIDE DEF row
  <2>3. tables[s][1] = "table" /\ tables[s][2] = row
    BY <2>1
  <2> QED
    BY <2>2, <2>3
<1>3. ShapeAccepted(tables)
  BY <1>1, <1>2 DEF ShapeAccepted
<1>4. ASSUME NEW k \in FileKeys(tables)  PROVE Parse(k, tables[k[1]][2][k[2]]) = Of(k).default
  <2>1. PICK s \in DOMAIN Sections : \E n \in DOMAIN tables[s][2] : k = <<s, n>>
    BY <1>1, <1>2 DEF FileKeys
  <2>2. PICK n \in DOMAIN tables[s][2] : k = <<s, n>>
    BY <2>1
  <2>3. n \in DOMAIN Sections[s] /\ tables[s][2][n] = Sections[s][n].default
    BY <1>2
  <2>4. k[1] = s /\ k[2] = n
    BY <2>2
  <2> QED
    BY <2>3, <2>4, <2>2, DefaultsParse
<1> QED
  BY <1>1, <1>3, <1>4 DEF DefaultsOnly, tables

-----------------------------------------------------------------------------
(* The theorems.                                                           *)

\* The file is one that a source tells apart, and whoever created it has a path for it.
FileInv ==
  /\ IsFile(file)
  /\ init = "created" => PathSource(env) # "invalid"

ConfigInv == FileInv /\ ConfigurationSound

LEMMA ConfigInitInv == ConfigInit => ConfigInv
BY FilesAssumption DEF ConfigInit, ConfigInv, FileInv, ConfigurationSound, NoReport

LEMMA ConfigStepInv == ConfigInv /\ [ConfigNext]_configVars => ConfigInv'
<1> SUFFICES ASSUME ConfigInv, [ConfigNext]_configVars  PROVE ConfigInv'
  OBVIOUS
<1> USE DEF configVars
<1>1. env' = env
  BY DEF ConfigNext, CreateFile, WriteFile, LoadConfig, ValidateConfig
<1>2. FileInv'
  <2>1. StarterFile[1] = "toml"
    BY DEF StarterFile
  <2>2. CASE CreateFile
    BY <2>2 DEF CreateFile, ConfigInv, FileInv, IsFile
  <2>3. CASE WriteFile
    BY <2>1, <2>3 DEF WriteFile, ConfigInv, FileInv, IsFile
  <2>4. CASE LoadConfig \/ ValidateConfig \/ UNCHANGED configVars
    BY <2>4 DEF LoadConfig, ValidateConfig, ConfigInv, FileInv, IsFile
  <2> QED
    BY <2>2, <2>3, <2>4 DEF ConfigNext
<1>3. ConfigurationSound'
  <2>1. \A k, f : GivenFor(k, f)' = GivenFor(k, f)
    BY <1>1 DEF GivenFor
  <2>2. \A k, f : ParsedGiven(k, f)' = ParsedGiven(k, f)
    BY <2>1 DEF ParsedGiven
  <2>3. \A c, f : LoadSound(c, f)' = LoadSound(c, f)
    <3>1. ASSUME NEW c, NEW f  PROVE SettingsSound(c, f)' = SettingsSound(c, f)
      BY <2>2 DEF SettingsSound
    <3> QED
      BY <3>1 DEF LoadSound
  <2>4. \A r, f : ReportTrue(r, f)' = ReportTrue(r, f)
    BY <1>1 DEF ReportTrue
  <2>5. CASE CreateFile \/ WriteFile \/ UNCHANGED configVars
    <3>1. UNCHANGED report
      BY <2>5 DEF CreateFile, WriteFile
    <3> QED
      BY <2>3, <2>4, <3>1 DEF ConfigInv, ConfigurationSound
  <2>6. CASE LoadConfig
    <3>1. report' = [of |-> "load", file |-> file, result |-> Load(env, file)]
      BY <2>6 DEF LoadConfig
    <3>2. Load(env, file) # Invalid => LoadSound(Load(env, file)[2], file)
      BY LoadIsSound DEF ConfigInv, FileInv
    <3> QED
      BY <2>3, <3>1, <3>2 DEF ConfigurationSound
  <2>7. CASE ValidateConfig
    <3>1. report' = [of |-> "validate", file |-> file, result |-> Validate(env, file)]
      BY <2>7 DEF ValidateConfig
    <3>2. Validate(env, file) # Invalid => ReportTrue(Validate(env, file)[2], file)
      BY ValidationIsTrue DEF ConfigInv, FileInv
    <3> QED
      BY <2>4, <3>1, <3>2 DEF ConfigurationSound
  <2> QED
    BY <2>5, <2>6, <2>7 DEF ConfigNext
<1> QED
  BY <1>2, <1>3 DEF ConfigInv

\* A configuration that loads has for every setting what the first source that names it
\* says, or the default, its limits fit together and its paths are absolute; and a
\* validation agrees with a load and hides no bad source.
THEOREM ConfigurationCorrect == ConfigSpec => []ConfigurationSound
<1>1. ConfigInv => ConfigurationSound
  BY DEF ConfigInv
<1> QED
  BY <1>1, ConfigInitInv, ConfigStepInv, PTL DEF ConfigSpec

LEMMA ConfigStepNeutral ==
  ConfigInv /\ [ConfigNext]_configVars =>
    [file' # file => init \in {"idle", "created"} /\ (init = "idle" => file = <<"missing">>)
                     /\ Load(env, file') = Load(WithoutPath, <<"missing">>)]_configVars
<1> SUFFICES ASSUME ConfigInv, ConfigNext, file' # file
             PROVE  /\ init \in {"idle", "created"} /\ (init = "idle" => file = <<"missing">>)
                    /\ Load(env, file') = Load(WithoutPath, <<"missing">>)
  BY DEF configVars
<1>1. CASE CreateFile
  <2>1. /\ init = "idle" /\ PathSource(env) # "invalid"
        /\ file = <<"missing">> /\ file' = <<"toml", [s \in {} |-> <<>>]>>
    BY <1>1 DEF CreateFile
  <2> QED
    BY <2>1, EmptyFileDefaults, DefaultsChangeNothing
<1>2. CASE WriteFile
  <2>1. init = "created" /\ PathSource(env) # "invalid" /\ file' = StarterFile
    BY <1>2 DEF WriteFile, ConfigInv, FileInv
  <2> QED
    BY <2>1, StarterFileDefaults, DefaultsChangeNothing
<1>3. ~LoadConfig /\ ~ValidateConfig
  BY DEF LoadConfig, ValidateConfig
<1> QED
  BY <1>1, <1>2, <1>3 DEF ConfigNext

\* `config init` changes only a file that was missing or that it created itself, and at
\* every moment of it a load gives what the defaults do.
THEOREM InitCorrect == ConfigSpec => InitNeutral
<1> QED
  BY ConfigInitInv, ConfigStepInv, ConfigStepNeutral, PTL DEF ConfigSpec, InitNeutral

=============================================================================
