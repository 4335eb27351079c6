------------------------ MODULE ConfigurationProofs ------------------------
(***************************************************************************)
(* The settings of Configuration for every content of the files and of the *)
(* environment, and for every sequence of calls.                           *)
(*                                                                         *)
(* The first part is about the layers alone: what the settings are when    *)
(* the file, the connection name, the environment, the counter type and    *)
(* the flags have been put over each other is what the layers give by      *)
(* rank.  The inductive invariant then says how many layers lie over each  *)
(* other at each place of a call, which file they came from, and for each  *)
(* call that has returned what its file comes to.                          *)
(***************************************************************************)
EXTENDS Configuration, TLAPS

\* What the environment and the flags can give.
EnvSettings  == {"queue_manager", "channel", "connection_name", "user", "password"}
FlagSettings == {"interval", "max_cycles", "port", "continuous", "reset_stats"}

\* The variables that count, and the settings when the layers lie over each other so far.
NotEmpty(variables) ==
    [s \in {s \in DOMAIN variables : variables[s] # ""} |-> variables[s]]

WithFile(file) == Over(file, Defaults)
WithHost(file) ==
    [WithFile(file) EXCEPT !.connection_name = ConnectionName(WithFile(file))]
WithVariables(variables, file) == Over(NotEmpty(variables), WithHost(file))
WithCType(variables, file) ==
    LET c == WithVariables(variables, file)
    IN  [c EXCEPT !.override_c_type = @ \/ c.use_statistics]
WithFlags(flags, variables, file) == Over(flags, WithCType(variables, file))

\* What Over() gives, setting by setting.
LEMMA OverLayer ==
  ASSUME NEW layer, NEW c
  PROVE  /\ DOMAIN Over(layer, c) = DOMAIN c
         /\ \A s \in DOMAIN c :
              Over(layer, c)[s] = IF s \in DOMAIN layer THEN layer[s] ELSE c[s]
  BY DEF Over

\* An empty variable is no setting.
LEMMA NotEmptyLayer ==
  ASSUME NEW variables
  PROVE  /\ DOMAIN NotEmpty(variables) = {s \in DOMAIN variables : variables[s] # ""}
         /\ \A s \in DOMAIN NotEmpty(variables) : NotEmpty(variables)[s] = variables[s]
  BY DEF NotEmpty

\* The settings by name.
LEMMA SettingNames ==
  Settings = {"queue_manager", "channel", "connection_name", "host", "mq_port", "user",
              "username", "password", "stats_queue", "interval", "reconnect_interval",
              "rediscover_interval", "max_cycles", "continuous", "reset_stats",
              "keep_running", "use_status", "use_statistics", "use_publications",
              "port", "override_c_type", "tags", "values"}
  BY DEF Settings, Defaults

\* Put over each other as load_config() and main() do it, the layers give what
\* they give by rank.
LEMMA LayersByRank ==
  ASSUME NEW flags, NEW variables, NEW file,
         DOMAIN flags \subseteq FlagSettings, DOMAIN variables \subseteq EnvSettings
  PROVE  WithFlags(flags, variables, file) = Ranked(flags, variables, file)
<1> DEFINE given(s) ==
            CASE s \in DOMAIN flags -> flags[s]
              [] s \notin DOMAIN flags /\ s \in DOMAIN variables /\ variables[s] # ""
                                    -> variables[s]
              [] s \notin DOMAIN flags /\ (s \in DOMAIN variables => variables[s] = "")
                   /\ s \in DOMAIN file -> file[s]
              [] OTHER              -> Defaults[s]
<1> DEFINE ranked(s) ==
           CASE s = "connection_name" /\ given(s) = "" /\ given("host") # ""
                  /\ given("mq_port") > 0   -> HostPort(given("host"), given("mq_port"))
             [] s = "override_c_type"       -> given(s) \/ given("use_statistics")
             [] OTHER                       -> given(s)
<1>1. Ranked(flags, variables, file) = [s \in Settings |-> ranked(s)]
  BY DEF Ranked
<1> DEFINE c1 == WithFile(file)
           c2 == WithHost(file)
           c3 == WithVariables(variables, file)
           c4 == WithCType(variables, file)
           c5 == WithFlags(flags, variables, file)
<1>2. /\ DOMAIN c1 = Settings
      /\ \A s \in Settings : c1[s] = IF s \in DOMAIN file THEN file[s] ELSE Defaults[s]
  BY OverLayer DEF WithFile, Settings
<1>3. /\ DOMAIN c2 = Settings
      /\ c2["connection_name"] = ConnectionName(c1)
      /\ \A s \in Settings : s # "connection_name" => c2[s] = c1[s]
  BY <1>2, SettingNames DEF WithHost
<1>4. /\ DOMAIN c3 = Settings
      /\ \A s \in Settings :
           c3[s] = IF s \in DOMAIN variables /\ variables[s] # "" THEN variables[s]
                   ELSE c2[s]
  <2>1. c3 = Over(NotEmpty(variables), c2)
    BY DEF WithVariables
  <2> DEFINE set == NotEmpty(variables)
  <2>2. /\ DOMAIN set = {s \in DOMAIN variables : variables[s] # ""}
        /\ \A s \in DOMAIN set : set[s] = variables[s]
    BY NotEmptyLayer
  <2> HIDE DEF set, c2, c3
  <2>3. /\ DOMAIN Over(set, c2) = DOMAIN c2
        /\ \A s \in DOMAIN c2 :
             Over(set, c2)[s] = IF s \in DOMAIN set THEN set[s] ELSE c2[s]
    BY OverLayer
  <2>4. c3 = Over(set, c2)
    BY <2>1 DEF set
  <2> QED
    BY <1>3, <2>2, <2>3, <2>4
<1>5. /\ DOMAIN c4 = Settings
      /\ c4["override_c_type"] = (c3["override_c_type"] \/ c3["use_statistics"])
      /\ \A s \in Settings : s # "override_c_type" => c4[s] = c3[s]
  BY <1>4, SettingNames DEF WithCType
<1>6. /\ DOMAIN c5 = Settings
      /\ \A s \in Settings : c5[s] = IF s \in DOMAIN flags THEN flags[s] ELSE c4[s]
  BY <1>5, OverLayer DEF WithFlags
<1>7. c5 = [s \in Settings |-> c5[s]]
  BY <1>6 DEF WithFlags, Over
<1>8. ASSUME NEW s \in Settings PROVE c5[s] = ranked(s)
  <2>1. CASE s = "connection_name"
    <3>1. {"host", "mq_port", s} \cap FlagSettings = {}
          /\ {"host", "mq_port"} \cap EnvSettings = {}
          /\ {"host", "mq_port", s} \subseteq Settings
      BY <2>1, SettingNames DEF FlagSettings, EnvSettings
    <3>2. given("host") = c1["host"] /\ given("mq_port") = c1["mq_port"]
      BY <3>1, <1>2
    <3>3. c5[s] = IF s \in DOMAIN variables /\ variables[s] # "" THEN variables[s]
                  ELSE ConnectionName(c1)
      BY <2>1, <3>1, <1>3, <1>4, <1>5, <1>6
    <3>4. CASE s \in DOMAIN variables /\ variables[s] # ""
      <4>1. given(s) = variables[s]
        BY <3>1, <3>4
      <4> QED
        BY <2>1, <3>3, <3>4, <4>1
    <3>5. CASE ~(s \in DOMAIN variables /\ variables[s] # "")
      <4>1. given(s) = c1[s]
        BY <3>1, <3>5, <1>2
      <4> HIDE DEF given, c1
      <4>2. c5[s] = ConnectionName(c1)
        BY <3>3, <3>5
      <4>3. ranked(s) = ConnectionName(c1)
        BY <2>1, <3>2, <4>1 DEF ConnectionName
      <4> QED
        BY <4>2, <4>3
    <3> QED
      BY <3>4, <3>5
  <2>2. CASE s = "override_c_type"
    <3>1. {"use_statistics", s} \cap (FlagSettings \cup EnvSettings) = {}
          /\ {"use_statistics", s} \subseteq Settings
      BY <2>2, SettingNames DEF FlagSettings, EnvSettings
    <3>2. given(s) = c3[s] /\ given("use_statistics") = c3["use_statistics"]
      BY <2>2, <3>1, <1>2, <1>3, <1>4
    <3>3. c5[s] = (c3[s] \/ c3["use_statistics"])
      BY <2>2, <3>1, <1>5, <1>6
    <3> HIDE DEF given, c3, c5
    <3> QED
      BY <2>2, <3>2, <3>3
  <2>3. CASE s \notin {"connection_name", "override_c_type"}
    BY <2>3, <1>2, <1>3, <1>4, <1>5, <1>6
  <2> QED
    BY <2>1, <2>2, <2>3
<1> HIDE DEF ranked
<1> QED
  BY <1>1, <1>7, <1>8

-----------------------------------------------------------------------------
(* The inductive invariant.                                                *)

\* The file that a call finds among these, whether it loads, and the layer it gives.
Found(fs, c) ==
    LET there == {i \in DOMAIN Candidates : fs[Candidates[i]] # Missing}
    IN  CASE Path(c) # ""                 -> Path(c)
          [] Path(c) = "" /\ there # {}   ->
               Candidates[CHOOSE i \in there : \A j \in there : i <= j]
          [] OTHER                        -> ""
LoadsContent(content) ==
    /\ content \notin {Missing, Broken}
    /\ "stats_queue" \in DOMAIN content => content.stats_queue # Unreadable
LayerOf(content) == [s \in DOMAIN content |-> ReadSetting(s, content[s])]
Loads(fs, c) == Found(fs, c) = "" \/ LoadsContent(fs[Found(fs, c)])
Layer(fs, c) == IF Found(fs, c) = "" THEN Nothing ELSE LayerOf(fs[Found(fs, c)])

\* What a call comes to on these files, if its file loads.
Result(fs, c) == WithFlags(FlagsOf(c), env, Layer(fs, c))

\* The places behind the file, and behind the layers.
Later == {"host", "environment", "ctype", "flags", "validate", "connect", "run"}
Last  == {"validate", "connect", "run"}

\* Where a call is, and which commands come there.
CallInv ==
    /\ env \in Environments
    /\ stage \in {"idle", "file"} \cup Later
    /\ stage # "idle" => call \in Calls /\ call.command \in {"run", "test", "validate"}
    /\ stage \in {"flags", "run"} => call.command = "run"
    /\ stage = "connect" => call.command = "test"

\* How many layers lie over each other.
LayersInv ==
    /\ stage = "file" => cfg = Defaults /\ read = Nothing
    /\ stage = "host" => cfg = WithFile(read)
    /\ stage = "environment" => cfg = WithHost(read)
    /\ stage = "ctype" => cfg = WithVariables(env, read)
    /\ stage = "flags" => cfg = WithCType(env, read)
    /\ stage \in Last => cfg = WithFlags(FlagsOf(call), env, read)

\* Which file the layer came from; what is used is valid.
ReadInv ==
    /\ stage \in Later => Loads(files, call) /\ read = Layer(files, call)
    /\ stage \in {"connect", "run"} => Valid(cfg)

\* One that was accepted is what its file comes to, and one that comes to something
\* valid has started.
Right(e) ==
    /\ e.call \in Calls
    /\ e.call.command \in {"test", "validate"} /\ e.exit = 0 =>
         /\ Loads(e.files, e.call) /\ Valid(Result(e.files, e.call))
         /\ e.cfg = Result(e.files, e.call)
    /\ /\ e.call.command = "run" /\ Loads(e.files, e.call)
       /\ Valid(Result(e.files, e.call))
       => e.started /\ e.cfg = Result(e.files, e.call)

\* Every call that has returned was right.
EndedInv ==
    /\ \E S : ended \in Seq(S)
    /\ \A i \in DOMAIN ended : Right(ended[i])

IInv == CallInv /\ LayersInv /\ ReadInv /\ EndedInv

\* The file that the call under way is to read.
LEMMA FoundIsLocated ==
  Located = Found(files, call)
  BY DEF Located, Existing, Found

\* The defaults as a function of the empty string: the backend that proves the next
\* lemma loses its way over the literal "".
DefaultsWith(none) ==
    [queue_manager |-> none, channel |-> none, connection_name |-> none, host |-> none,
     mq_port |-> 0, user |-> none, username |-> none, password |-> none,
     stats_queue |-> "STATISTICS", interval |-> 60, reconnect_interval |-> 5,
     rediscover_interval |-> 0, max_cycles |-> 0, continuous |-> FALSE,
     reset_stats |-> FALSE, keep_running |-> TRUE, use_status |-> TRUE,
     use_statistics |-> FALSE, use_publications |-> TRUE, port |-> 9091,
     override_c_type |-> FALSE, tags |-> <<>>, values |-> <<>>]

\* A record is the function of its fields.
LEMMA DefaultsFunction ==
  Defaults = [s \in DOMAIN Defaults |-> Defaults[s]]
<1>1. ASSUME NEW none, NEW c, c = DefaultsWith(none) PROVE c = [s \in DOMAIN c |-> c[s]]
  BY <1>1, Z3T(60) DEF DefaultsWith
<1>2. Defaults = DefaultsWith("")
  BY DEF Defaults, DefaultsWith
<1> QED
  BY <1>1, <1>2

\* A layer that gives nothing changes nothing.
LEMMA NoLayer ==
  /\ DOMAIN Nothing = {}
  /\ WithFile(Nothing) = Defaults
  /\ \A variables, file :
       WithFlags(Nothing, variables, file) = WithCType(variables, file)
<1>1. DOMAIN Nothing = {}
  BY DEF Nothing
<1>2. WithFile(Nothing) = Defaults
  <2>1. Over(Nothing, Defaults) = [s \in DOMAIN Defaults |-> Defaults[s]]
    BY <1>1 DEF Over
  <2> QED
    BY <2>1, DefaultsFunction DEF WithFile
<1>3. ASSUME NEW variables, NEW file
      PROVE  WithFlags(Nothing, variables, file) = WithCType(variables, file)
  <2> DEFINE c == WithVariables(variables, file)
             d == WithCType(variables, file)
  <2>1. d = [c EXCEPT !.override_c_type = @ \/ c.use_statistics]
    BY DEF WithCType
  <2>2. d = [s \in DOMAIN d |-> d[s]]
    <3> HIDE DEF c
    <3> QED
      BY <2>1
  <2> HIDE DEF d
  <2>3. Over(Nothing, d) = [s \in DOMAIN d |-> d[s]]
    BY <1>1 DEF Over
  <2> QED
    BY <2>2, <2>3 DEF WithFlags, d
<1> QED
  BY <1>1, <1>2, <1>3

\* Flags that count are flags.
LEMMA CountingFlags ==
  ASSUME NEW c \in Calls
  PROVE  DOMAIN FlagsOf(c) \subseteq FlagSettings
<1>1. DOMAIN c.flags \subseteq FlagSettings
  BY CallsAssumption DEF FlagSettings
<1> QED
  BY <1>1, NoLayer DEF FlagsOf, Counting

\* The invariant holds before the first call.
THEOREM InitIInv ==
  Init => IInv
<1> SUFFICES ASSUME Init PROVE IInv
  OBVIOUS
<1>1. stage = "idle" /\ env \in Environments /\ ended = <<>>
  BY DEF Init
<1> QED
  BY <1>1 DEF IInv, CallInv, LayersInv, ReadInv, EndedInv, Later, Last

-----------------------------------------------------------------------------
(* Each step preserves it.                                                 *)

\* main() begins with the defaults, or returns at once.
LEMMA CallStep ==
  ASSUME IInv, NEW c \in Calls, Call(c)
  PROVE  CallInv' /\ LayersInv' /\ ReadInv'
<1>1. stage' = "idle" \/ stage' = "file"
  BY DEF Call, Returns, Go
<1>2. stage' = "file" =>
        call' \in Calls /\ call'.command \in {"run", "test", "validate"}
        /\ cfg' = Defaults /\ read' = Nothing
  BY DEF Call, Returns, Go
<1>3. env' \in Environments
  BY DEF IInv, CallInv, Call
<1> QED
  BY <1>1, <1>2, <1>3 DEF CallInv, LayersInv, ReadInv, Later, Last

\* The file puts its layer over the defaults, or there is none, or the call fails.
LEMMA ReadFileStep ==
  ASSUME IInv, ReadFile
  PROVE  CallInv' /\ LayersInv' /\ ReadInv'
<1>1. stage = "file" /\ cfg = Defaults /\ read = Nothing
      /\ env' = env /\ files' = files /\ call' = call
  BY DEF IInv, LayersInv, ReadFile
<1>2. CASE Located = "" /\ Go("host") /\ UNCHANGED <<read, cfg>>
  <2>1. Loads(files, call) /\ Layer(files, call) = Nothing
    BY <1>2, FoundIsLocated DEF Loads, Layer
  <2>2. stage' = "host" /\ cfg' = WithFile(read')
    BY <1>1, <1>2, NoLayer DEF Go
  <2> QED
    BY <1>1, <1>2, <2>1, <2>2
    DEF IInv, CallInv, LayersInv, ReadInv, Later, Last
<1>3. CASE Exit(1)
  BY <1>1, <1>3 DEF IInv, CallInv, LayersInv, ReadInv, Later, Last, Exit, Returns
<1>4. CASE /\ Located # "" /\ LoadsContent(files[Located]) /\ Go("host")
           /\ read' = LayerOf(files[Located]) /\ cfg' = Over(LayerOf(files[Located]), cfg)
  <2>1. Loads(files, call) /\ Layer(files, call) = LayerOf(files[Located])
    BY <1>4, FoundIsLocated DEF Loads, Layer
  <2>2. stage' = "host" /\ cfg' = WithFile(read')
    BY <1>1, <1>4 DEF Go, WithFile
  <2> QED
    BY <1>1, <1>4, <2>1, <2>2
    DEF IInv, CallInv, LayersInv, ReadInv, Later, Last
<1> QED
  BY <1>2, <1>3, <1>4 DEF ReadFile, LoadsContent, LayerOf

\* Each place of load_config() behind the file puts one more layer over the others.
LEMMA LayerStep ==
  ASSUME IInv,
         BuildConnectionName \/ ReadEnvironment \/ ForceCType \/ OverrideWithFlags
  PROVE  CallInv' /\ LayersInv' /\ ReadInv'
<1>1. /\ stage \in {"host", "environment", "ctype", "flags"}
      /\ env' = env /\ files' = files /\ call' = call /\ read' = read
  BY DEF BuildConnectionName, ReadEnvironment, ForceCType, OverrideWithFlags
<1>2. /\ stage' \in {"environment", "ctype", "flags", "validate"}
      /\ stage' = "flags" => call.command = "run"
  BY DEF BuildConnectionName, ReadEnvironment, ForceCType, OverrideWithFlags, Go
<1>3. CallInv' /\ ReadInv'
  BY <1>1, <1>2 DEF IInv, CallInv, ReadInv, Later
<1>4. CASE BuildConnectionName
  <2>1. cfg = WithFile(read) /\ stage' = "environment"
    BY <1>4 DEF IInv, LayersInv, BuildConnectionName, Go
  <2>2. cfg' = WithHost(read)
    BY <1>4, <2>1 DEF BuildConnectionName, WithHost
  <2> QED
    BY <1>1, <1>3, <2>1, <2>2 DEF LayersInv, Last
<1>5. CASE ReadEnvironment
  <2>1. cfg = WithHost(read) /\ stage' = "ctype"
    BY <1>5 DEF IInv, LayersInv, ReadEnvironment, Go
  <2>2. cfg' = WithVariables(env, read)
    BY <1>5, <2>1 DEF ReadEnvironment, WithVariables, NotEmpty
  <2> QED
    BY <1>1, <1>3, <2>1, <2>2 DEF LayersInv, Last
<1>6. CASE ForceCType
  <2>1. cfg = WithVariables(env, read)
    BY <1>6 DEF IInv, LayersInv, ForceCType
  <2>2. cfg' = WithCType(env, read)
    BY <1>6, <2>1 DEF ForceCType, WithCType
  <2>3. stage' = IF call.command = "run" THEN "flags" ELSE "validate"
    BY <1>6 DEF ForceCType, Go
  <2>4. stage' = "validate" => WithFlags(FlagsOf(call), env, read) = WithCType(env, read)
    BY <2>3, NoLayer DEF FlagsOf
  <2> QED
    BY <1>1, <1>3, <2>2, <2>3, <2>4 DEF LayersInv, Last
<1>7. CASE OverrideWithFlags
  <2>1. cfg = WithCType(env, read) /\ stage' = "validate" /\ call.command = "run"
    BY <1>7 DEF IInv, CallInv, LayersInv, OverrideWithFlags, Go
  <2>2. cfg' = WithFlags(FlagsOf(call), env, read)
    BY <1>7, <2>1 DEF OverrideWithFlags, WithFlags, FlagsOf
  <2> QED
    BY <1>1, <1>3, <2>1, <2>2 DEF LayersInv, Last
<1> QED
  BY <1>4, <1>5, <1>6, <1>7

\* Behind the layers the settings stay, and only valid ones are used.
LEMMA LastStep ==
  ASSUME IInv, Validate \/ TryConnection \/ Stop \/ Finished
  PROVE  CallInv' /\ LayersInv' /\ ReadInv'
<1>1. env' = env /\ files' = files /\ call' = call /\ read' = read /\ cfg' = cfg
  BY DEF Validate, TryConnection, Stop, Finished, vars
<1>2. CASE stage' = "idle"
  BY <1>1, <1>2 DEF IInv, CallInv, LayersInv, ReadInv, Later, Last
<1>3. CASE stage' # "idle"
  <2>1. Validate
    BY <1>3 DEF TryConnection, Stop, Finished, vars, Exit, Returns
  <2>2. /\ stage = "validate" /\ Valid(cfg)
        /\ \/ stage' = "connect" /\ call.command = "test"
           \/ stage' = "run" /\ call.command = "run"
    BY <1>3, <2>1 DEF Validate, Exit, Returns, Go
  <2>3. Valid(cfg')
    BY <1>1, <2>2
  <2> QED
    BY <1>1, <2>2, <2>3 DEF IInv, CallInv, LayersInv, ReadInv, Later, Last
<1> QED
  BY <1>2, <1>3

\* One more call has returned, and it was right.
LEMMA AppendRight ==
  ASSUME EndedInv, NEW e, ended' = Append(ended, e), Right(e), env' = env
  PROVE  EndedInv'
<1>1. PICK S : ended \in Seq(S)
  BY DEF EndedInv
<1>2. ended \in Seq(S \cup {e}) /\ e \in S \cup {e}
  BY <1>1
<1>3. ended' \in Seq(S \cup {e})
  BY <1>2
<1>4. DOMAIN ended' = 1 .. Len(ended) + 1 /\ DOMAIN ended = 1 .. Len(ended)
      /\ Len(ended) \in Nat
  BY <1>2
<1>5. ASSUME NEW i \in DOMAIN ended' PROVE Right(ended[i])'
  <2>1. ended'[i] = IF i \in DOMAIN ended THEN ended[i] ELSE e
    BY <1>2, <1>4
  <2>2. Right(ended'[i])
    BY <2>1 DEF EndedInv
  <2> QED
    BY <2>2 DEF Right, Result
<1> QED
  BY <1>3, <1>5 DEF EndedInv

\* No call has returned.
LEMMA EndedSame ==
  ASSUME EndedInv, ended' = ended, env' = env
  PROVE  EndedInv'
<1>1. \A i \in DOMAIN ended : Right(ended[i])'
  BY DEF EndedInv, Right, Result
<1> QED
  BY <1>1 DEF EndedInv

\* Behind the layers the settings are what the file comes to.
LEMMA ResultAtLast ==
  ASSUME IInv, stage \in Last
  PROVE  Loads(files, call) /\ cfg = Result(files, call)
  BY DEF IInv, LayersInv, ReadInv, Result, Later, Last

\* Whichever way a call returns, it was right.
LEMMA EndedStep ==
  ASSUME IInv, Next
  PROVE  EndedInv'
<1> USE DEF IInv
<1>1. ASSUME NEW c \in Calls, Call(c) PROVE EndedInv'
  <2>1. env' = env
    BY <1>1 DEF Call
  <2>2. CASE ended' = ended
    BY <2>1, <2>2, EndedSame
  <2>3. ASSUME NEW code, Returns(c, code), c.command # "run",
               c.command \in {"version", "generate"} \/ code = 1
        PROVE  EndedInv'
    <3> DEFINE e == [call |-> c, files |-> files, cfg |-> cfg, exit |-> code,
                     started |-> stage = "run"]
    <3>1. Right(e)
      BY <2>3 DEF Right
    <3>2. ended' = Append(ended, e)
      BY <2>3 DEF Returns
    <3> QED
      BY <2>1, <3>1, <3>2, AppendRight
  <2> QED
    BY <1>1, <2>2, <2>3 DEF Call, Go
<1>2. ASSUME NEW code, Exit(code), stage # "idle", env' = env,
             call.command \in {"test", "validate"} /\ code = 0 =>
               stage \in Last /\ Valid(cfg),
             call.command = "run" /\ Loads(files, call) =>
               stage = "run" \/ (stage \in Last /\ ~Valid(cfg))
      PROVE  EndedInv'
  <2> DEFINE e == [call |-> call, files |-> files, cfg |-> cfg, exit |-> code,
                   started |-> stage = "run"]
  <2>1. call \in Calls
    BY <1>2 DEF CallInv
  <2>2. stage = "run" => stage \in Last
    BY DEF Last
  <2>3. stage \in Last => Loads(files, call) /\ cfg = Result(files, call)
    BY ResultAtLast
  <2>4. Right(e)
    BY <1>2, <2>1, <2>2, <2>3 DEF Right
  <2>5. ended' = Append(ended, e)
    BY <1>2 DEF Exit, Returns
  <2> QED
    BY <1>2, <2>4, <2>5, AppendRight
<1>3. CASE ReadFile
  <2>1. /\ env' = env /\ stage = "file"
        /\ ended' = ended \/ (~Loads(files, call) /\ Exit(1))
    BY <1>3, FoundIsLocated DEF ReadFile, Go, Loads, LoadsContent
  <2> QED
    BY <1>2, <2>1, EndedSame DEF Last
<1>4. CASE Validate
  <2>1. /\ env' = env /\ stage = "validate"
        /\ \/ ended' = ended
           \/ ~Valid(cfg) /\ Exit(1)
           \/ Valid(cfg) /\ call.command = "validate" /\ Exit(0)
    BY <1>4 DEF Validate, Go
  <2> QED
    BY <1>2, <2>1, EndedSame DEF Last
<1>5. CASE TryConnection
  <2>1. /\ env' = env /\ stage = "connect" /\ Valid(cfg) /\ call.command = "test"
        /\ \E code \in {0, 1} : Exit(code)
    BY <1>5 DEF TryConnection, CallInv, ReadInv
  <2> QED
    BY <1>2, <2>1 DEF Last
<1>6. CASE Stop
  <2>1. env' = env /\ stage = "run" /\ call.command = "run" /\ Exit(0)
    BY <1>6 DEF Stop, CallInv
  <2> QED
    BY <1>2, <2>1
<1>7. CASE BuildConnectionName \/ ReadEnvironment \/ ForceCType \/ OverrideWithFlags
           \/ Finished
  <2>1. env' = env /\ ended' = ended
    BY <1>7 DEF BuildConnectionName, ReadEnvironment, ForceCType, OverrideWithFlags,
                Finished, Go, vars
  <2> QED
    BY <2>1, EndedSame
<1> QED
  BY <1>1, <1>3, <1>4, <1>5, <1>6, <1>7 DEF Next

\* Every step preserves the invariant.
THEOREM NextIInv ==
  IInv /\ [Next]_vars => IInv'
<1> SUFFICES ASSUME IInv, [Next]_vars PROVE IInv'
  OBVIOUS
<1>1. CASE Next
  <2>1. CallInv' /\ LayersInv' /\ ReadInv'
    BY <1>1, CallStep, ReadFileStep, LayerStep, LastStep DEF Next
  <2> QED
    BY <1>1, <2>1, EndedStep DEF IInv
<1>2. CASE UNCHANGED vars
  <2>1. EndedInv'
    BY <1>2, EndedSame DEF IInv, vars
  <2>2. CallInv' /\ LayersInv'
    BY <1>2 DEF IInv, CallInv, LayersInv, vars
  <2>3. ReadInv'
    <3>1. stage' \in {"connect", "run"} => Valid(cfg')
      BY <1>2 DEF IInv, ReadInv, vars
    <3> QED
      BY <1>2, <3>1 DEF IInv, ReadInv, vars
  <2> QED
    BY <2>1, <2>2, <2>3 DEF IInv
<1> QED
  BY <1>1, <1>2

\* The invariant holds in every state.
THEOREM Invariance ==
  Spec => []IInv
  BY InitIInv, NextIInv, PTL DEF Spec

-----------------------------------------------------------------------------
(* The theorems.                                                           *)

\* Only the file gives the user name that beats the one of the environment.
LEMMA UserRanked ==
  ASSUME NEW flags, DOMAIN flags \subseteq FlagSettings, NEW variables,
         DOMAIN variables \subseteq EnvSettings, NEW file
  PROVE  User(Ranked(flags, variables, file)) =
           IF "username" \in DOMAIN file /\ file.username # "" THEN file.username
           ELSE Ranked(flags, variables, file).user
<1>1. "username" \notin FlagSettings /\ "username" \notin EnvSettings
  BY DEF FlagSettings, EnvSettings
<1>2. "username" \in Settings /\ Defaults.username = ""
  BY DEF Settings, Defaults
<1>3. Ranked(flags, variables, file).username =
        IF "username" \in DOMAIN file THEN file.username ELSE Defaults.username
  BY <1>1, <1>2 DEF Ranked
<1> QED
  BY <1>2, <1>3 DEF User

\* The settings of the invariant are the ones by rank.
LEMMA IInvRanked ==
  IInv => SettingsRanked
<1> SUFFICES ASSUME IInv, stage \in Last
             PROVE  LET ranked == Ranked(FlagsOf(call), env, read) IN
                    /\ cfg = ranked
                    /\ User(cfg) = IF "username" \in DOMAIN read /\ read.username # ""
                                     THEN read.username ELSE ranked.user
  BY DEF SettingsRanked, Last
<1>1. cfg = WithFlags(FlagsOf(call), env, read)
  BY DEF IInv, LayersInv
<1>2. DOMAIN FlagsOf(call) \subseteq FlagSettings
  BY CountingFlags DEF IInv, CallInv, Last
<1>3. DOMAIN env \subseteq EnvSettings
  BY EnvironmentsAssumption DEF IInv, CallInv, EnvSettings
<1>4. cfg = Ranked(FlagsOf(call), env, read)
  BY <1>1, <1>2, <1>3, LayersByRank
<1> QED
  BY <1>2, <1>3, <1>4, UserRanked

\* Each setting for itself comes from the flags that say something else than when not
\* given, else from the environment, the file, or the defaults, whatever the layers
\* say; but the user of the connection is the user name of the file, if it has one,
\* and only else the one of the environment.
THEOREM RankedByLayers ==
  Spec => []SettingsRanked
  BY Invariance, IInvRanked, PTL

\* Two calls for one file come to the same settings.
LEMMA IInvStarts ==
  IInv => ValidatedConfigurationStarts
<1> SUFFICES ASSUME IInv, NEW i \in DOMAIN ended, NEW j \in DOMAIN ended,
                    ended[i].files = ended[j].files,
                    ended[i].call.command \in {"validate", "test"}, ended[i].exit = 0,
                    ended[j].call.command = "run", FlagsOf(ended[j].call) = Nothing,
                    ended[j].call.before =
                      IF ended[i].call.behind # "" THEN ended[i].call.behind
                      ELSE ended[i].call.before
             PROVE  ended[j].started /\ ended[j].cfg = ended[i].cfg
  BY DEF ValidatedConfigurationStarts
<1> DEFINE tried == ended[i]
           ran   == ended[j]
<1>1. Right(tried) /\ Right(ran)
  BY DEF IInv, EndedInv
<1>2. Path(ran.call) = Path(tried.call)
  <2>1. ran.call.behind = ""
    BY <1>1, CallsAssumption DEF Right
  <2> QED
    BY <2>1 DEF Path
<1>3. Found(ran.files, ran.call) = Found(tried.files, tried.call)
  BY <1>2 DEF Found
<1>4. FlagsOf(tried.call) = FlagsOf(ran.call)
  BY DEF FlagsOf
<1>5. /\ Loads(ran.files, ran.call) = Loads(tried.files, tried.call)
      /\ Result(ran.files, ran.call) = Result(tried.files, tried.call)
  BY <1>3, <1>4 DEF Loads, Layer, Result
<1> QED
  BY <1>1, <1>5 DEF Right

\* A configuration that "config validate" or "test" has accepted starts the collector
\* with the same settings, whatever was called in between, as long as the files are
\* the same.
THEOREM ValidatedStarts ==
  Spec => []ValidatedConfigurationStarts
  BY Invariance, IInvStarts, PTL

\* The sample file gives each of its settings the default.
LEMMA SampleAgrees ==
  ASSUME NEW s \in DOMAIN Generate
  PROVE  s \in Settings /\ LayerOf(Generate)[s] = Defaults[s]
<1>1. /\ s \in Settings
      /\ \/ s \in Durations /\ Generate[s] = [n |-> Defaults[s], unit |-> "s"]
         \/ s \notin Durations /\ Generate[s] = Defaults[s]
  <2>1. DOMAIN Generate = {"queue_manager", "channel", "host", "mq_port", "username",
                           "password", "stats_queue", "reset_stats", "interval",
                           "continuous", "keep_running", "reconnect_interval",
                           "use_status", "use_statistics", "rediscover_interval",
                           "port", "override_c_type", "tags", "values"}
    BY DEF Generate, Sample
  <2>2. s \in Settings
    BY <2>1, SettingNames
  <2>3. /\ Generate.queue_manager = Defaults.queue_manager
        /\ Generate.channel = Defaults.channel
        /\ Generate.host = Defaults.host
        /\ Generate.mq_port = Defaults.mq_port
        /\ Generate.username = Defaults.username
        /\ Generate.password = Defaults.password
        /\ Generate.reset_stats = Defaults.reset_stats
        /\ Generate.continuous = Defaults.continuous
        /\ Generate.keep_running = Defaults.keep_running
        /\ Generate.use_status = Defaults.use_status
        /\ Generate.use_statistics = Defaults.use_statistics
        /\ Generate.override_c_type = Defaults.override_c_type
        /\ Generate.tags = Defaults.tags
        /\ Generate.values = Defaults.values
    BY DEF Generate, Sample, Defaults
  <2>4. /\ Generate.stats_queue = Defaults.stats_queue /\ Generate.port = Defaults.port
        /\ Generate.interval = [n |-> Defaults.interval, unit |-> "s"]
        /\ Generate.reconnect_interval =
             [n |-> Defaults.reconnect_interval, unit |-> "s"]
    BY DEF Generate, Sample
  <2>5. Generate.rediscover_interval = [n |-> Defaults.rediscover_interval, unit |-> "s"]
    BY DEF Generate, Sample, Defaults
  <2> QED
    BY <2>1, <2>2, <2>3, <2>4, <2>5 DEF Durations
<1>2. LayerOf(Generate)[s] = ReadSetting(s, Generate[s])
  BY DEF LayerOf
<1>3. ReadSetting(s, Generate[s]) = Defaults[s]
  BY <1>1 DEF ReadSetting, ParseDuration
<1> QED
  BY <1>1, <1>2, <1>3

\* By rank, the sample file counts as no file.
LEMMA SampleRanksAsNone ==
  ASSUME NEW flags, NEW variables
  PROVE  Ranked(flags, variables, LayerOf(Generate)) = Ranked(flags, variables, Nothing)
<1> DEFINE given(file, s) ==
            CASE s \in DOMAIN flags -> flags[s]
              [] s \notin DOMAIN flags /\ s \in DOMAIN variables /\ variables[s] # ""
                                    -> variables[s]
              [] s \notin DOMAIN flags /\ (s \in DOMAIN variables => variables[s] = "")
                   /\ s \in DOMAIN file -> file[s]
              [] OTHER              -> Defaults[s]
<1> DEFINE ranked(file, s) ==
           CASE s = "connection_name" /\ given(file, s) = "" /\ given(file, "host") # ""
                  /\ given(file, "mq_port") > 0
                       -> HostPort(given(file, "host"), given(file, "mq_port"))
             [] s = "override_c_type" -> given(file, s) \/ given(file, "use_statistics")
             [] OTHER                 -> given(file, s)
<1>1. \A file : Ranked(flags, variables, file) = [s \in Settings |-> ranked(file, s)]
  BY DEF Ranked
<1>2. ASSUME NEW s PROVE given(LayerOf(Generate), s) = given(Nothing, s)
  <2>1. DOMAIN LayerOf(Generate) = DOMAIN Generate
    BY DEF LayerOf
  <2> QED
    BY <2>1, SampleAgrees, NoLayer
<1>3. ASSUME NEW s PROVE ranked(LayerOf(Generate), s) = ranked(Nothing, s)
  <2>1. /\ given(LayerOf(Generate), s) = given(Nothing, s)
        /\ given(LayerOf(Generate), "host") = given(Nothing, "host")
        /\ given(LayerOf(Generate), "mq_port") = given(Nothing, "mq_port")
        /\ given(LayerOf(Generate), "use_statistics") = given(Nothing, "use_statistics")
    BY <1>2
  <2> HIDE DEF given
  <2> QED
    BY <2>1
<1> HIDE DEF ranked
<1> QED
  BY <1>1, <1>3

\* The file that was read is the sample.
LEMMA IInvNeutral ==
  IInv => GeneratedFileIsNeutral
<1> SUFFICES ASSUME IInv, stage \in Last, Located # "", files[Located] = Generate
             PROVE  cfg = Ranked(FlagsOf(call), env, Nothing)
  BY DEF GeneratedFileIsNeutral, Last
<1>1. read = LayerOf(Generate)
  BY FoundIsLocated DEF IInv, ReadInv, Layer, Later, Last
<1>2. cfg = Ranked(FlagsOf(call), env, read)
  BY IInvRanked DEF SettingsRanked, Last
<1> QED
  BY <1>1, <1>2, SampleRanksAsNone

\* The file that "config generate" writes says what holds without a file, under every
\* environment and every flags.
THEOREM GeneratedNeutral ==
  Spec => []GeneratedFileIsNeutral
  BY Invariance, IInvNeutral, PTL

=============================================================================
