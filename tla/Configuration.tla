--------------------------- MODULE Configuration ---------------------------
(***************************************************************************)
(* How a call of the program comes to its settings: load_config() and      *)
(* Config::validate() of src/src/config.cpp, and the commands of           *)
(* src/src/main.cpp.                                                       *)
(*                                                                         *)
(* A layer is a partial function from settings to values: the defaults,    *)
(* then a YAML file, the environment and the flags.  Settings that are     *)
(* treated alike are represented by one of them.  Calls follow each other  *)
(* in one directory and one environment, and one of them, "config          *)
(* generate > config.yaml", writes a file that the next may read.          *)
(***************************************************************************)
EXTENDS Integers, Sequences

CONSTANTS
    Directories,      \* what the files may hold at first
    Environments,     \* what the environment may hold
    Calls,            \* what may be called
    MaxCalls,         \* bound: the calls of a behaviour
    Unreadable,       \* a value that does not convert
    Missing,          \* the content of a file that is not there
    Broken,           \* the content of one that is no YAML
    HostPort(_, _)    \* "host(port)"

ASSUME MaxCallsAssumption == MaxCalls \in Nat

\* The variables that load_config() asks for, and the flags of main() that it does
\* not; without a subcommand there is no path behind it.
ASSUME EnvironmentsAssumption ==
    \A variables \in Environments :
      DOMAIN variables \subseteq
        {"queue_manager", "channel", "connection_name", "user", "password"}
ASSUME CallsAssumption ==
    \A c \in Calls :
      /\ DOMAIN c.flags \subseteq
           {"interval", "max_cycles", "port", "continuous", "reset_stats"}
      /\ c.command = "run" => c.behind = ""

VARIABLES
    files,   \* the files, by path
    env,     \* the variables of the environment that are set
    stage,   \* where the call under way is
    call,    \* what was called: command, path before it, path behind it, flags
    read,    \* the layer that the file gave
    cfg,     \* the settings as they are
    ended    \* the calls that have returned

vars == <<files, env, stage, call, read, cfg, ended>>

\* The places that load_config() looks into, in this order.
Candidates == <<"config.yaml", "configs/default.yaml", "./config/config.yaml">>

Nothing == <<>>  \* the layer that gives no setting

-----------------------------------------------------------------------------
(* Settings.                                                               *)

Defaults ==
    [queue_manager |-> "", channel |-> "", connection_name |-> "", host |-> "",
     mq_port |-> 0, user |-> "", username |-> "", password |-> "",
     stats_queue |-> "STATISTICS", interval |-> 60, reconnect_interval |-> 5,
     rediscover_interval |-> 0, max_cycles |-> 0, continuous |-> FALSE,
     reset_stats |-> FALSE, keep_running |-> TRUE, use_status |-> TRUE,
     use_statistics |-> FALSE, use_publications |-> TRUE, port |-> 9091,
     override_c_type |-> FALSE, tags |-> <<>>, values |-> <<>>]

Settings == DOMAIN Defaults

Durations == {"interval", "reconnect_interval", "rediscover_interval"}

\* What the sample file says: some of it is taken from the defaults, the rest is
\* written out by hand.
Sample(secondsUnit) ==
    [queue_manager |-> "", channel |-> "", host |-> "", mq_port |-> 0,
     username |-> "", password |-> "", stats_queue |-> Defaults.stats_queue,
     reset_stats |-> FALSE, interval |-> [n |-> Defaults.interval, unit |-> "s"],
     continuous |-> FALSE, keep_running |-> TRUE,
     reconnect_interval |-> [n |-> Defaults.reconnect_interval, unit |-> secondsUnit],
     use_status |-> TRUE, use_statistics |-> FALSE,
     rediscover_interval |-> [n |-> 0, unit |-> "s"],
     port |-> Defaults.port, override_c_type |-> FALSE,
     tags |-> <<>>, values |-> <<>>]

\* Mutant: one of the durations is written in minutes.
GenerateMinutes == Sample("m")

Generate == Sample("s")

\* "m" is minutes, and so is "ms"; any other unit, "h" too, is seconds.
ParseDuration(d) == IF d.unit \in {"m", "ms"} THEN 60 * d.n ELSE d.n

\* What does not convert is read as the default.
ReadSetting(s, raw) ==
    IF raw = Unreadable THEN Defaults[s]
    ELSE IF s \in Durations THEN ParseDuration(raw) ELSE raw

\* Settings with a layer put over them; nobody asks the layer for others.
Over(layer, c) == [s \in DOMAIN c |-> IF s \in DOMAIN layer THEN layer[s] ELSE c[s]]

\* get_connection_name(), is_client_mode()
ConnectionName(c) ==
    CASE c.connection_name # ""           -> c.connection_name
      [] c.connection_name = "" /\ c.host # "" /\ c.mq_port > 0
                                          -> HostPort(c.host, c.mq_port)
      [] OTHER                            -> ""
ClientMode(c) == ConnectionName(c) # "" \/ c.host # ""

\* get_user(): what the client connects with.
User(c) == IF c.username # "" THEN c.username ELSE c.user

\* Config::validate()
Valid(c) ==
    /\ c.queue_manager # ""
    /\ ClientMode(c) => c.channel # "" /\ ConnectionName(c) # ""
    /\ c.interval >= 1
    /\ c.port \in 1 .. 65535
    /\ c.tags # <<>> => Len(c.tags) = Len(c.values)

-----------------------------------------------------------------------------
(* A call.                                                                 *)

\* Mutant: the path before a subcommand is forgotten.
PathBehind(c) == IF c.command = "run" THEN c.before ELSE c.behind

\* A path behind the subcommand counts more than one before it.
Path(c) == IF c.behind # "" THEN c.behind ELSE c.before

Existing == {i \in DOMAIN Candidates : files[Candidates[i]] # Missing}

\* The file that is read; "" if there is none to be found.
Located ==
    CASE Path(call) # ""                   -> Path(call)
      [] Path(call) = "" /\ Existing # {}  ->
           Candidates[CHOOSE i \in Existing : \A j \in Existing : i <= j]
      [] OTHER                             -> ""

Init ==
    /\ files \in Directories /\ env \in Environments
    /\ stage = "idle" /\ call = <<>> /\ read = Nothing /\ cfg = Defaults
    /\ ended = <<>>

\* The call returns.
Returns(c, code) ==
    /\ stage' = "idle"
    /\ ended' = Append(ended, [call |-> c, files |-> files, cfg |-> cfg,
                               exit |-> code, started |-> stage = "run"])

Exit(code) == Returns(call, code)

Go(to) == stage' = to /\ UNCHANGED ended

\* main() as far as the command.
Call(c) ==
    /\ stage = "idle" /\ Len(ended) < MaxCalls
    /\ call' = c
    /\ \/ c.command = "version" /\ Returns(c, 0) /\ UNCHANGED <<files, read, cfg>>
       \/ /\ c.command = "generate" /\ Returns(c, 0)
          /\ files' = [files EXCEPT !["config.yaml"] = Generate]
          /\ UNCHANGED <<read, cfg>>
       \/ /\ c.command = "validate" /\ Path(c) = ""
          /\ Returns(c, 1) /\ UNCHANGED <<files, read, cfg>>
       \/ /\ \/ c.command \in {"run", "test"}
             \/ c.command = "validate" /\ Path(c) # ""
          /\ Go("file") /\ cfg' = Defaults /\ read' = Nothing
          /\ UNCHANGED files
    /\ UNCHANGED env

\* YAML::LoadFile() and what takes the settings from it.
ReadFile ==
    /\ stage = "file"
    /\ LET content == files[Located]
           loads   == /\ content \notin {Missing, Broken}
                      /\ "stats_queue" \in DOMAIN content =>
                           content.stats_queue # Unreadable
           layer   == [s \in DOMAIN content |-> ReadSetting(s, content[s])]
       IN  \/ Located = "" /\ Go("host") /\ UNCHANGED <<read, cfg>>
           \/ Located # "" /\ ~loads /\ Exit(1) /\ UNCHANGED <<read, cfg>>
           \/ /\ Located # "" /\ loads /\ Go("host")
              /\ read' = layer /\ cfg' = Over(layer, cfg)
    /\ UNCHANGED <<files, env, call>>

BuildConnectionName ==
    /\ stage = "host"
    /\ cfg' = [cfg EXCEPT !.connection_name = ConnectionName(cfg)]
    /\ Go("environment") /\ UNCHANGED <<files, env, call, read>>

\* Mutant: a variable counts for what the file leaves open.
ReadEnvironmentWeak ==
    /\ stage = "environment"
    /\ cfg' = Over([s \in {s \in DOMAIN env : cfg[s] = ""} |-> env[s]], cfg)
    /\ Go("ctype") /\ UNCHANGED <<files, env, call, read>>

\* A variable that is empty counts as one that is not set.
ReadEnvironment ==
    /\ stage = "environment"
    /\ cfg' = Over([s \in {s \in DOMAIN env : env[s] # ""} |-> env[s]], cfg)
    /\ Go("ctype") /\ UNCHANGED <<files, env, call, read>>

ForceCType ==
    /\ stage = "ctype"
    /\ cfg' = [cfg EXCEPT !.override_c_type = @ \/ cfg.use_statistics]
    /\ Go(IF call.command = "run" THEN "flags" ELSE "validate")
    /\ UNCHANGED <<files, env, call, read>>

\* The values that flags have when they are not given; given, they count for nothing.
FlagDefaults == [interval |-> 60, max_cycles |-> 0, port |-> 9090,
                 continuous |-> FALSE, reset_stats |-> FALSE]
Counting(flags) ==
    [s \in {s \in DOMAIN flags : flags[s] # FlagDefaults[s]} |-> flags[s]]

OverrideWithFlags ==
    /\ stage = "flags"
    /\ cfg' = Over(Counting(call.flags), cfg)
    /\ Go("validate") /\ UNCHANGED <<files, env, call, read>>

Validate ==
    /\ stage = "validate"
    /\ \/ ~Valid(cfg) /\ Exit(1)
       \/ Valid(cfg) /\ call.command = "validate" /\ Exit(0)
       \/ Valid(cfg) /\ call.command = "test" /\ Go("connect")
       \/ Valid(cfg) /\ call.command = "run" /\ Go("run")
    /\ UNCHANGED <<files, env, call, read, cfg>>

\* "test": the queue manager answers or not.
TryConnection ==
    /\ stage = "connect"
    /\ \E code \in {0, 1} : Exit(code)
    /\ UNCHANGED <<files, env, call, read, cfg>>

\* The collector has run (see ExporterLifecycle) and was stopped, or failed.
Stop ==
    /\ stage = "run" /\ Exit(0)
    /\ UNCHANGED <<files, env, call, read, cfg>>

Finished == stage = "idle" /\ Len(ended) = MaxCalls /\ UNCHANGED vars

Next ==
    \/ \E c \in Calls : Call(c)
    \/ ReadFile \/ BuildConnectionName \/ ReadEnvironment \/ ForceCType
    \/ OverrideWithFlags \/ Validate \/ TryConnection \/ Stop
    \/ Finished

Spec == Init /\ [][Next]_vars

-----------------------------------------------------------------------------
(* Properties.                                                             *)

\* The settings that these layers give by rank, each for itself: flags over variables
\* of the environment over the file over the defaults.
Ranked(flags, variables, file) ==
    LET given(s) ==
            CASE s \in DOMAIN flags -> flags[s]
              [] s \notin DOMAIN flags /\ s \in DOMAIN variables /\ variables[s] # ""
                                    -> variables[s]
              [] s \notin DOMAIN flags /\ (s \in DOMAIN variables => variables[s] = "")
                   /\ s \in DOMAIN file -> file[s]
              [] OTHER              -> Defaults[s]
    IN  [s \in Settings |->
           CASE s = "connection_name" /\ given(s) = "" /\ given("host") # ""
                  /\ given("mq_port") > 0   -> HostPort(given("host"), given("mq_port"))
             [] s = "override_c_type"       -> given(s) \/ given("use_statistics")
             [] OTHER                       -> given(s)]

FlagsOf(c) == IF c.command = "run" THEN Counting(c.flags) ELSE Nothing

\* Each setting for itself comes from the flags, as far as they do not say what they
\* say when not given, else from the environment, the file, or the defaults: none is
\* undone by a layer of a lower rank, by the connection name that is built between the
\* two, or by the forced counter type (load_config).  The user of the connection is
\* two settings, and there the file counts more than the environment.  In both
\* exceptions the documents promise the opposite (README.md:282 and 292, main.cpp:68).
SettingsRanked ==
    stage \in {"validate", "connect", "run"} =>
        LET ranked == Ranked(FlagsOf(call), env, read) IN
        /\ cfg = ranked
        /\ User(cfg) = IF "username" \in DOMAIN read /\ read.username # "" THEN read.username
                       ELSE ranked.user

\* A configuration that "config validate" or "test" has accepted starts the
\* collector, with the same settings, if it is called for the same file before
\* the files change, and without flags that override any; a file that was named
\* before the subcommand counts like one named behind it.
ValidatedConfigurationStarts ==
    \A i, j \in DOMAIN ended :
        LET tried == ended[i]
            ran   == ended[j]
        IN  /\ i < j /\ tried.files = ran.files
            /\ tried.call.command \in {"validate", "test"} /\ tried.exit = 0
            /\ ran.call.command = "run" /\ FlagsOf(ran.call) = Nothing
            /\ ran.call.before = IF tried.call.behind # "" THEN tried.call.behind
                                 ELSE tried.call.before
            => ran.started /\ ran.cfg = tried.cfg

\* The file that "config generate" writes says what holds without a file: what
\* was written out by hand agrees with default_config().
GeneratedFileIsNeutral ==
    stage \in {"validate", "connect", "run"} /\ Located # "" /\ files[Located] = Generate =>
        cfg = Ranked(FlagsOf(call), env, Nothing)
=============================================================================
