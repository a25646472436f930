----------------------------- MODULE CliLogging -----------------------------
(***************************************************************************)
(* How scli starts its logging, before the command line is parsed: from    *)
(* the file of --log-config, sink by sink, or from --log-level, the        *)
(* environment or the default, and then the hook into the library.  An     *)
(* exception that no handler takes ends the process.                       *)
(***************************************************************************)
EXTENDS Integers, Sequences

CONSTANTS
  LevelName,  \* what the caller writes for a level, in either place
  MaxSinks    \* bound on the sinks of a configuration

\* spdlog's levels.
Trace == 0
Debug == 1
Info == 2
Warn == 3
Err == 4
Critical == 5
NoMessages == 6

LibDebug == 0
LibOff == 4

VARIABLES
  args,    \* the command line and the environment
  config,  \* the file of --log-config
  step,    \* "start", "sinks", "level", "fallback", "ready" or "terminated"
  sinks,   \* the sinks opened from the configuration
  logger,  \* the registered logger: its level and sinks
  hook,    \* the library's threshold
  told     \* whether an error was printed

vars == <<args, config, step, sinks, logger, hook, told>>

\* What an option, a variable or a key gives that is absent.
NotGiven == ""

SinkKinds == {"stderr", "stdout", "file", "no path", "cannot open", "unknown", "wrong type"}

Configs ==
       [file : {"missing", "no JSON", "no object"}]
  \cup [file : {"object"}, level : LevelName \cup {NotGiven, "wrong type"},
        sinks : UNION {[1 .. n -> SinkKinds] : n \in 0 .. MaxSinks}]

NoLogger == [level |-> NoMessages, sinks |-> <<>>]

Init ==
  /\ args \in [config : BOOLEAN, level : LevelName \cup {NotGiven}, env : LevelName \cup {NotGiven}]
  /\ config \in IF args.config THEN Configs ELSE {[file |-> "missing"]}
  /\ step = "start"
  /\ sinks = <<>>
  /\ logger = NoLogger
  /\ hook = LibOff
  /\ told = FALSE

Default(name, other) == IF name = NotGiven THEN other ELSE name

\* An unknown name is "warn".
parse_level(name) ==
  CASE name = "trace" -> Trace [] name = "debug" -> Debug [] name = "info" -> Info
    [] name = "error" -> Err [] name = "critical" -> Critical [] name = "off" -> NoMessages
    [] OTHER -> Warn

to_lib_threshold(level) ==
  CASE level \in {Trace, Debug} -> LibDebug
    [] level = Info -> 1 [] level = Warn -> 2
    [] level \in {Err, Critical} -> 3
    [] OTHER -> LibOff

\* The logger in force, and the hook with it.
Wire(level, to) ==
  /\ logger' = [level |-> level, sinks |-> to]
  /\ hook' = to_lib_threshold(level)
  /\ step' = "ready"

Refuse == step' = "fallback" /\ told' = TRUE
Terminate == step' = "terminated" /\ UNCHANGED told

-----------------------------------------------------------------------------

ReadConfig ==
  /\ step = "start"
  /\ args.config
  /\ \/ config.file \in {"missing", "no JSON"} /\ Refuse
     \/ config.file \in {"no object", "object"} /\ step' = "sinks" /\ UNCHANGED told
  /\ UNCHANGED <<args, config, sinks, logger, hook>>

\* The sinks the configuration names; one that is no object names none.
Named == IF config.file = "object" THEN config.sinks ELSE <<>>

\* make_logger_from_json opens the next sink.  Only a runtime_error is caught around
\* it: the exceptions of the JSON library and of spdlog are not.
MakeSink ==
  /\ step = "sinks"
  /\ Len(sinks) < Len(Named)
  /\ LET kind == Named[Len(sinks) + 1] IN
     \/ kind \in {"stderr", "stdout", "file"} /\ sinks' = Append(sinks, kind) /\ UNCHANGED <<step, told>>
     \/ kind \in {"no path", "unknown"} /\ Refuse /\ UNCHANGED sinks
     \/ kind \in {"wrong type", "cannot open"} /\ Terminate /\ UNCHANGED sinks
  /\ UNCHANGED <<args, config, logger, hook>>

SinksMade ==
  /\ step = "sinks"
  /\ Len(sinks) = Len(Named)
  /\ step' = "level"
  /\ sinks' = IF sinks = <<>> THEN <<"stderr">> ELSE sinks
  /\ UNCHANGED <<args, config, logger, hook, told>>

\* What asking the configuration for its level gives; one that is no object throws.
ConfigLevel == IF config.file = "object" THEN config.level ELSE "wrong type"

\* The level of the configuration, or of --log-level when it has none.
UseConfig ==
  /\ step = "level"
  /\ ConfigLevel # "wrong type"
  /\ Wire(parse_level(Default(ConfigLevel, Default(args.level, "warn"))), sinks)
  /\ UNCHANGED <<args, config, sinks, told>>

LevelThrows ==
  /\ step = "level"
  /\ ConfigLevel = "wrong type"
  /\ Terminate
  /\ UNCHANGED <<args, config, sinks, logger, hook>>

\* Deviation: a refused configuration still gives its level.
UseLevelOfConfig ==
  /\ step = "fallback" \/ (step = "start" /\ ~args.config)
  /\ LET own == IF config.file = "object" THEN config.level ELSE NotGiven
     IN  Wire(parse_level(Default(own, Default(args.level, Default(args.env, "warn")))), <<"stderr">>)
  /\ UNCHANGED <<args, config, sinks, told>>

\* cli_init_logging, without a configuration or after one was refused.
UseLevel ==
  /\ step = "fallback" \/ (step = "start" /\ ~args.config)
  /\ Wire(parse_level(Default(args.level, Default(args.env, "warn"))), <<"stderr">>)
  /\ UNCHANGED <<args, config, sinks, told>>

Next == ReadConfig \/ MakeSink \/ SinksMade \/ UseConfig \/ LevelThrows \/ UseLevel

Spec == Init /\ [][Next]_vars

-----------------------------------------------------------------------------
(* Properties *)

\* Where a message at a level of the library, or a fatal error, ends up: the sinks of
\* the logger, or standard error when the logger would not log it (die).
HandedOver(lib) == hook <= lib
Logs(level) == logger.level <= level
DieGoesTo == IF Logs(Err) THEN {logger.sinks[i] : i \in DOMAIN logger.sinks} ELSE {"stderr"}

\* The hook and the logger agree however both were configured: the library hands over
\* what the logger logs, and nothing else except its errors at "critical"; and a fatal
\* error is seen somewhere at every level.
SameAudience ==
  step = "ready" =>
    /\ \A lib \in 0 .. 3 : Logs(lib + 1) => HandedOver(lib)
    /\ \A lib \in 0 .. 3 : HandedOver(lib) /\ ~Logs(lib + 1) => logger.level = Critical /\ lib = 3
    /\ DieGoesTo # {}

\* A level is that of the first of these names that is given.
OfFirstGiven(level, names) ==
  \E i \in DOMAIN names :
    /\ names[i] # NotGiven /\ \A j \in 1 .. i - 1 : names[j] = NotGiven
    /\ level = parse_level(names[i])

\* What is in a configuration that is refused, and in one that throws past every handler.
SomeSink(kinds) == \E i \in DOMAIN Named : Named[i] \in kinds
Refusable == config.file \in {"missing", "no JSON"} \/ SomeSink({"no path", "unknown"})
Throwing == SomeSink({"wrong type", "cannot open"}) \/ ConfigLevel = "wrong type"

\* One source is in force, whole.  Either it is a configuration, with all its sinks,
\* nobody told of an error, and its own level or else that of --log-level; or there is
\* none, or one that scli told of and refused, and then nothing of it is left: standard
\* error alone, at the level of --log-level, of the environment, or "warn".  (README.md
\* calls this "default warn-level logging"; it is that when neither of the two is given.)
\* An exception ends the process before anything is in force.
OneSource ==
  /\ step = "ready" =>
       \/ /\ args.config /\ ~told /\ config.file = "object"
          /\ config.level # "wrong type" /\ OfFirstGiven(logger.level, <<config.level, args.level, "warn">>)
          /\ logger.sinks = IF config.sinks = <<>> THEN <<"stderr">> ELSE config.sinks
          /\ \A i \in DOMAIN config.sinks : config.sinks[i] \in {"stderr", "stdout", "file"}
       \/ /\ IF args.config THEN told /\ Refusable ELSE ~told
          /\ OfFirstGiven(logger.level, <<args.level, args.env, "warn">>)
          /\ logger.sinks = <<"stderr">>
  /\ step = "terminated" =>
       args.config /\ ~told /\ Throwing /\ logger = NoLogger /\ hook = LibOff

\* README.md: "If the file is missing, malformed, or contains an unknown sink type,
\* scli prints an error and falls back to default warn-level logging."
MalformedFallsBack ==
  LET malformed == config.file # "object"
      unknown == SomeSink({"unknown"}) /\ ~SomeSink({"wrong type", "cannot open"})
  IN  args.config /\ (malformed \/ unknown) =>
        /\ step # "terminated"
        /\ step = "ready" => told /\ logger = [level |-> Warn, sinks |-> <<"stderr">>]
=============================================================================
