---------------------------- MODULE Configuration ----------------------------
(***************************************************************************)
(* packages/config: how a configuration is put together from the defaults, *)
(* a TOML file and the environment, checked, and reported on, and how      *)
(* `belfry config init` creates the file.                                  *)
(*                                                                         *)
(* A value is a tag and what it holds: a number as TOML or a variable has  *)
(* it (int, fraction), its text (numeral), a Boolean, a URL, a path by     *)
(* where it starts (absolute, ~/, ~user, relative), another word, a blank. *)
(* Durations in days are counted in minutes, sizes in bytes, all within    *)
(* TLC's integers.                                                         *)
(***************************************************************************)
EXTENDS Integers, FiniteSets

CONSTANTS Environments, Files  \* the variables that may be set, the files there may be

\* What a file can be to loadFileProvider
IsFile(f) == f[1] \in {"missing", "unreadable", "malformed", "toml"}
ASSUME FilesAssumption == \A f \in Files : IsFile(f)

VARIABLES
  env,     \* the variables that are set, by name
  file,    \* the file at the resolved path: missing, unreadable, not TOML, or its tables
  init,    \* what `config init` has come to: idle, created, written or failed
  report   \* the outcome of the last load and the report of the last validation

configVars == <<env, file, init, report>>

-----------------------------------------------------------------------------
MaxSafeInteger == 2147483647  \* 2^53 - 1 in the code
Hour == 3600000
Mebi == 1048576

\* The settings of a file, by section: the type, the default and, checked when the
\* configuration is complete, the range of each.
Setting(kind, default, low, high) == [kind |-> kind, default |-> default, low |-> low, high |-> high]
Counted(default, low, high) == Setting("int", <<"int", default>>, low, high)
DefaultUrl == <<"url", "collector">>
StateHome  == <<"path", "absolute", "state">>
Sections ==
  [telemetry  |-> [enabled |-> Setting("bool", <<"bool", FALSE>>, 0, 0), otlp_endpoint |-> Setting("url", DefaultUrl, 0, 0)],
   daemon     |-> [host |-> Setting("text", <<"text", "127.0.0.1">>, 0, 0), port |-> Counted(4318, 1, 65535),
                   state_directory |-> Setting("text", StateHome, 0, 0),
                   startup_timeout_ms |-> Counted(5000, 1, Hour), shutdown_timeout_ms |-> Counted(10000, 1, Hour)],
   storage    |-> [database_path |-> Setting("text", <<"blank">>, 0, 0),
                   retention_days |-> Setting("days", <<"int", 10080>>, 1, MaxSafeInteger),
                   retention_max_bytes |-> Counted(1024 * Mebi, 1, MaxSafeInteger),
                   retention_batch_size |-> Counted(1000, 1, 10000), indexed_attribute_limit |-> Counted(64, 1, 1024),
                   indexed_value_max_bytes |-> Counted(512, 1, Mebi), indexed_key_limit |-> Counted(256, 1, 65536),
                   indexed_values_per_key_limit |-> Counted(1024, 1, 1000000)],
   ingestion  |-> [max_compressed_bytes |-> Counted(8 * Mebi, 1, MaxSafeInteger),
                   max_decompressed_bytes |-> Counted(32 * Mebi, 1, MaxSafeInteger),
                   queue_request_capacity |-> Counted(64, 1, 65536),
                   queue_byte_capacity |-> Counted(64 * Mebi, -MaxSafeInteger, MaxSafeInteger),
                   writer_timeout_ms |-> Counted(30000, 100, Hour), drain_timeout_ms |-> Counted(10000, 1, Hour)],
   query      |-> [max_lookback_days |-> Setting("days", <<"int", 10080>>, 1, MaxSafeInteger),
                   max_results |-> Counted(500, 100, 500), timeout_ms |-> Counted(2000, 1, Hour)],
   interfaces |-> [refresh_interval_ms |-> Counted(2000, 750, Hour), default_range_minutes |-> Counted(15, 1, 100800),
                   web_open_browser |-> Setting("bool", <<"bool", TRUE>>, 0, 0)]]

Keys == UNION {{<<s, k>> : k \in DOMAIN Sections[s]} : s \in DOMAIN Sections}
Of(k) == Sections[k[1]][k[2]]

Invalid == <<"invalid">>
MaxDays == 3650 * 1440

-----------------------------------------------------------------------------
\* What a descriptor of each type makes of a value
ParseInt(v)  == IF v[1] \in {"int", "numeral"} THEN <<"int", v[2]>> ELSE Invalid
ParseDays(v) == IF v[1] \in {"int", "numeral", "fraction"} /\ v[2] \in 1..MaxDays THEN <<"int", v[2]>> ELSE Invalid
Parse(k, v) ==
  CASE Of(k).kind = "int"  -> ParseInt(v)
    [] Of(k).kind = "days" -> ParseDays(v)
    [] Of(k).kind = "bool" -> IF v[1] = "bool" THEN v ELSE Invalid
    [] Of(k).kind = "url"  -> IF v[1] = "url" THEN v ELSE Invalid
    [] OTHER               -> v

IsLoopbackHost(v) == v \in {<<"text", h>> : h \in {"127.0.0.1", "localhost", "::1"}}

\* The variables, each the override of a key, and the checks of loadEnvOverrideProvider
Variables ==
  [BELFRY_TELEMETRY |-> <<"telemetry", "enabled">>, BELFRY_OTLP_ENDPOINT |-> <<"telemetry", "otlp_endpoint">>,
   BELFRY_DAEMON_HOST |-> <<"daemon", "host">>, BELFRY_DAEMON_PORT |-> <<"daemon", "port">>,
   BELFRY_STATE_DIRECTORY |-> <<"daemon", "state_directory">>, BELFRY_DATABASE_PATH |-> <<"storage", "database_path">>,
   BELFRY_RETENTION_DAYS |-> <<"storage", "retention_days">>,
   BELFRY_RETENTION_MAX_BYTES |-> <<"storage", "retention_max_bytes">>]

IntegerBetween(v, low, high) == v[1] = "numeral" /\ v[2] \in low..high
VariableAccepted(name, v) ==
  CASE name = "BELFRY_TELEMETRY"           -> v[1] = "bool"
    [] name = "BELFRY_OTLP_ENDPOINT"       -> v[1] = "url"
    [] name = "BELFRY_DAEMON_HOST"         -> IsLoopbackHost(v)
    [] name = "BELFRY_DAEMON_PORT"         -> IntegerBetween(v, 1, 65535)
    [] name = "BELFRY_RETENTION_DAYS"      -> v[1] \in {"numeral", "fraction"} /\ v[2] >= 1
    [] name = "BELFRY_RETENTION_MAX_BYTES" -> IntegerBetween(v, 1, MaxSafeInteger)
    [] OTHER                               -> v[1] # "blank"

\* A source is what it gives for each key, or its error.
LoadEnvOverrides(vars) ==
  LET names == DOMAIN vars \cap DOMAIN Variables
  IN  IF \A n \in names : VariableAccepted(n, vars[n])
      THEN <<"provider", [k \in {Variables[n] : n \in names} |-> vars[CHOOSE n \in names : Variables[n] = k]]>>
      ELSE Invalid

\* The path is that of a variable, unless it is blank, or the default.
PathSource(vars) ==
  IF "BELFRY_CONFIG_PATH" \notin DOMAIN vars THEN "default"
  ELSE IF vars.BELFRY_CONFIG_PATH = <<"blank">> THEN "invalid" ELSE "env"

\* Sections and keys are those of the table; a section that is not a table says nothing.
ShapeAccepted(tables) ==
  \A s \in DOMAIN tables :
    s \in DOMAIN Sections /\ (tables[s][1] = "table" => DOMAIN tables[s][2] \subseteq DOMAIN Sections[s])

FileKeys(tables) ==
  UNION {IF tables[s][1] = "table" THEN {<<s, k>> : k \in DOMAIN tables[s][2]} ELSE {} : s \in DOMAIN tables}

LoadFile(vars, f) ==
  CASE f[1] = "missing" /\ PathSource(vars) = "env" -> Invalid
    [] f[1] = "missing" /\ PathSource(vars) # "env" -> <<"missingDefault", <<>>>>
    [] f[1] \in {"unreadable", "malformed"}         -> Invalid
    [] f[1] = "toml" -> IF ShapeAccepted(f[2])
                        THEN <<"provider", [k \in FileKeys(f[2]) |-> f[2][k[1]][2][k[2]]]>> ELSE Invalid

ParsedFromLast(providers) ==  \* Mutant: the file goes before the environment
  [k \in Keys |->
     LET having == {i \in DOMAIN providers : k \in DOMAIN providers[i]}
         last   == CHOOSE i \in having : \A j \in having : j <= i
     IN  IF having = {} THEN Of(k).default ELSE Parse(k, providers[last][k])]

\* The first provider that has a key gives it, then the default.
ParsedWith(providers) ==
  [k \in Keys |->
     LET having == {i \in DOMAIN providers : k \in DOMAIN providers[i]}
         first  == CHOOSE i \in having : \A j \in having : i <= j
     IN  IF having = {} THEN Of(k).default ELSE Parse(k, providers[first][k])]

-----------------------------------------------------------------------------
\* Where a path leads: from the root, the home or the working directory, or below the state directory
ExpandHome(p) ==
  CASE p[1] = "path" /\ p[2] = "home" -> <<"home", p[3]>>
    [] p[1] = "path" /\ p[2] = "user" -> <<"working", p[3]>>
ResolveStateDirectory(p) ==
  CASE p[1] = "path" /\ p[2] \in {"home", "user"} -> ExpandHome(p)
    [] p[1] = "path" /\ p[2] = "absolute"         -> <<"root", p[3]>>
    [] p = <<"blank">>                            -> <<"home", "">>
    [] OTHER                                      -> <<"home", p>>
ResolveStatePath(directory, p, name) ==
  CASE p = <<"blank">>                             -> <<"below", directory, name>>
    [] p[1] = "path" /\ p[2] \in {"home", "user"}  -> ExpandHome(p)
    [] p[1] = "path" /\ p[2] = "absolute"          -> <<"root", p[3]>>
    [] OTHER                                       -> <<"below", directory, p>>

IsAbsolute(location) ==
  \/ location[1] \in {"root", "home", "working"}
  \/ location[1] = "below" /\ location[2][1] \in {"root", "home", "working"}

\* The configuration of parsed settings, with the paths they lead to
Configured(settings) ==
  LET directory == ResolveStateDirectory(settings[<<"daemon", "state_directory">>])
  IN  [settings |-> settings,
       paths    |-> [stateDirectory |-> directory,
                     registry       |-> <<"below", directory, "daemon.json">>,
                     lock           |-> <<"below", directory, "daemon.lock">>,
                     cursorSecret   |-> <<"below", directory, "cursor.key">>,
                     database       |->
                       ResolveStatePath(directory, settings[<<"storage", "database_path">>], "telemetry.db")]]

\* validateEffectiveConfiguration: the ranges, and the limits that depend on each other
ValidEffective(c) ==
  LET N(s, k) == c.settings[<<s, k>>][2]
  IN  /\ IsLoopbackHost(c.settings[<<"daemon", "host">>])
      /\ IsAbsolute(c.paths.stateDirectory)
      /\ \A k \in Keys : Of(k).kind \in {"int", "days"} => c.settings[k][2] \in Of(k).low..Of(k).high
      /\ N("ingestion", "max_decompressed_bytes") >= N("ingestion", "max_compressed_bytes")
      /\ N("ingestion", "queue_byte_capacity") >= N("ingestion", "max_compressed_bytes")
      /\ N("interfaces", "default_range_minutes") <= N("query", "max_lookback_days")

Accepted(providers) ==
  LET settings == ParsedWith(providers)
  IN  \A k \in Keys : settings[k] # Invalid

\* parseEffectiveConfig: a source with an error gives none, the environment goes before the file
ParseEffective(fileSource, envSource) ==
  LET providers == <<envSource[2], fileSource[2]>>
  IN  IF Invalid \in {fileSource, envSource} THEN Invalid
      ELSE IF ~Accepted(providers) THEN Invalid
      ELSE IF ~ValidEffective(Configured(ParsedWith(providers))) THEN Invalid
      ELSE <<"config", Configured(ParsedWith(providers))>>

Load(vars, f) ==
  IF PathSource(vars) = "invalid" THEN Invalid
  ELSE ParseEffective(LoadFile(vars, f), LoadEnvOverrides(vars))

\* The statuses of `belfry config validate`
Validate(vars, f) ==
  LET source == LoadFile(vars, f)
  IN  IF PathSource(vars) = "invalid" THEN Invalid
      ELSE <<"report",
             [file      |-> CASE source = Invalid -> "invalid"
                              [] source[1] = "missingDefault" -> "warning"
                              [] OTHER -> IF Accepted(<<source[2]>>) THEN "valid" ELSE "invalid",
              env       |-> IF LoadEnvOverrides(vars) = Invalid THEN "invalid" ELSE "valid",
              effective |-> IF Load(vars, f) = Invalid THEN "invalid" ELSE "valid"]>>

\* The file `config init` writes: the defaults, without the two paths
StarterFile ==
  <<"toml",
    [s \in DOMAIN Sections |->
       <<"table", [k \in DOMAIN Sections[s] \ {"state_directory", "database_path"}
                     |-> Sections[s][k].default]>>]>>

-----------------------------------------------------------------------------
NoReport == [of |-> "none"]
ConfigInit == env \in Environments /\ file \in Files /\ init = "idle" /\ report = NoReport

CreateFileOverwrites ==  \* Mutant: without the flag wx
  /\ init = "idle" /\ PathSource(env) # "invalid"
  /\ file' = <<"toml", [s \in {} |-> <<>>]>> /\ init' = "created"
  /\ UNCHANGED <<env, report>>

\* writeFileString with the flag wx: first the file, which must not exist, then its text
CreateFile ==
  /\ init = "idle" /\ PathSource(env) # "invalid"
  /\ \/ file = <<"missing">> /\ file' = <<"toml", [s \in {} |-> <<>>]>> /\ init' = "created"
     \/ init' = "failed" /\ UNCHANGED file  \* ConfigFileAlreadyExists, or no directory to write to
  /\ UNCHANGED <<env, report>>

WriteFile ==
  /\ init = "created"
  /\ \/ file' = StarterFile /\ init' = "written"
     \/ init' = "failed" /\ UNCHANGED file
  /\ UNCHANGED <<env, report>>

\* A load or a validation, at any moment
LoadConfig     == report' = [of |-> "load", file |-> file, result |-> Load(env, file)] /\ UNCHANGED <<env, file, init>>
ValidateConfig == report' = [of |-> "validate", file |-> file, result |-> Validate(env, file)] /\ UNCHANGED <<env, file, init>>

ConfigNext == CreateFile \/ WriteFile \/ LoadConfig \/ ValidateConfig
ConfigSpec == ConfigInit /\ [][ConfigNext]_configVars

-----------------------------------------------------------------------------
\* The values given for a key, the one that counts first
GivenFor(k, f) ==
  LET names == {n \in DOMAIN env \cap DOMAIN Variables : Variables[n] = k}
  IN  {env[n] : n \in names} \cup
        IF names = {} /\ f[1] = "toml" /\ k \in FileKeys(f[2]) THEN {f[2][k[1]][2][k[2]]} ELSE {}

ParsedGiven(k, f) == {Parse(k, v) : v \in GivenFor(k, f)}

SettingsSound(c, f) ==
  \A k \in Keys :
    /\ ParsedGiven(k, f) # {Invalid}
    /\ c.settings[k] = IF ParsedGiven(k, f) = {} THEN Of(k).default ELSE CHOOSE v \in ParsedGiven(k, f) : TRUE

LimitsSound(c) ==
  /\ \A limit \in {"max_decompressed_bytes", "queue_byte_capacity"} :
       c.settings[<<"ingestion", "max_compressed_bytes">>][2] \in 1..c.settings[<<"ingestion", limit>>][2]
  /\ c.settings[<<"interfaces", "default_range_minutes">>][2] \in 1..c.settings[<<"query", "max_lookback_days">>][2]
  /\ c.settings[<<"query", "max_results">>][2] \in 100..500

\* A configuration that loads has, setting by setting, what the environment says, else
\* what the file says, else the default, and its limits fit together: a largest request
\* fits the queue and its decompression, the default range the lookback (docs/11, the
\* table of limits).  All its paths are absolute.
LoadSound(c, f) ==
  SettingsSound(c, f) /\ LimitsSound(c) /\ \A p \in DOMAIN c.paths : IsAbsolute(c.paths[p])

\* A validation calls the effective configuration valid when a load gives one, and does
\* not hide a bad source: the environment is then valid too, and the file unless each
\* bad key of it is overridden.
ReportTrue(r, f) ==
  /\ (r.effective = "valid") <=> (Load(env, f) # Invalid)
  /\ r.effective = "valid" => r.env = "valid"
  /\ r.effective = "valid" /\ r.file = "invalid" =>
       /\ f[1] = "toml" /\ ShapeAccepted(f[2])
       /\ \A k \in FileKeys(f[2]) :
            Parse(k, f[2][k[1]][2][k[2]]) = Invalid => \E n \in DOMAIN env \cap DOMAIN Variables : Variables[n] = k

ConfigurationSound ==
  /\ report.of = "load" /\ report.result # Invalid => LoadSound(report.result[2], report.file)
  /\ report.of = "validate" /\ report.result # Invalid => ReportTrue(report.result[2], report.file)

\* `config init` never touches a file that exists, and what it writes changes nothing: at
\* every moment of it a load gives what the defaults do (docs/11: it "writes every key
\* above with the built-in defaults").
WithoutPath == [n \in DOMAIN env \ {"BELFRY_CONFIG_PATH"} |-> env[n]]
InitNeutral ==
  [][file' # file => init \in {"idle", "created"} /\ (init = "idle" => file = <<"missing">>)
                       /\ Load(env, file') = Load(WithoutPath, <<"missing">>)]_configVars

=============================================================================
