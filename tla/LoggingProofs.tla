---------------------------- MODULE LoggingProofs ----------------------------
(***************************************************************************)
(* Proofs about the logging hook of the library, about scli's way from its *)
(* options to a logger, about the files its commands leave, and about the  *)
(* forms in which bytes leave a command and enter another.  The four have  *)
(* nothing in common but the process they run in.                          *)
(***************************************************************************)
EXTENDS CryptoLog, SequenceTheorems, WellFoundedInduction, TLAPS

CONSTANTS
  LevelName, MaxSinks,     \* CliLogging
  Run, Nobody, MaxEncoded, Radix, Data, Text  \* CliCommands

ASSUME RunAssumption == Nobody \notin Run

VARIABLES
  args, config, phase, sinks, logger, hook, told,  \* CliLogging
  command, file, at, step, flushed                 \* CliCommands

configVars == <<args, config, phase, sinks, logger, hook, told>>
commandVars == <<command, file, at, step, flushed>>

Config == INSTANCE CliLogging WITH step <- phase
Commands == INSTANCE CliCommands

ASSUME EncodingAssumption == Commands!EncodingShape

\* One source of configuration is in force, whole, for the logger and for the hook.
OneSource == Config!OneSource /\ Config!SameAudience

\* What a run that exits 0 wrote is whole and stays.
SuccessStays == Commands!SuccessStays

\* What a run that exits 0 wrote or printed another reads back.
ReadsBack == (\E r \in Run : step[r] = "ok") => Commands!ReadsBack

-----------------------------------------------------------------------------
(* The hook, for every set of loggers, sinks and levels and every sequence  *)
(* of registrations.                                                        *)

\* A logger inside the critical section holds the mutex; inside the sink, it is
\* inside the registered one.
LockInv(t) ==
  /\ pc[t] \in {"locked", "in_sink"} => locked = t
  /\ pc[t] = "in_sink" => outcome[t] = fn

\* Between registrations, sink and threshold are those of the last one.
InForce(n) ==
  IF n = 0 THEN fn = NoSink /\ threshold = Off
  ELSE fn = Registrations[n].fn /\ threshold = ThresholdOf(Registrations[n])

OwnerInv ==
  /\ pc[Owner] = "idle" => InForce(made)
  /\ pc[Owner] # "idle" => made \in 1 .. Len(Registrations)
  /\ pc[Owner] = "set_threshold" => fn = Registrations[made].fn

\* What a logger has found out, if no registration has overlapped its call.
Undisturbed(t) == pc[t] # "idle" /\ begun[t] = made

CallInv(t) ==
  /\ begun[t] <= made
  /\ pc[t] # "idle" => level[t] \in Level
  /\ pc[t] \notin {"idle", "in_sink"} => outcome[t] = NoSink
  /\ Undisturbed(t) => pc[Owner] = "idle"
  /\ Undisturbed(t) /\ pc[t] \in {"lock", "locked", "in_sink"} => level[t] >= threshold

\* The inductive invariant behind SinkAlive and Heard.
IInv ==
  /\ TypeOK
  /\ DOMAIN pc = Logger \cup {Owner}
  /\ OwnerInv
  /\ \A t \in Logger : LockInv(t) /\ CallInv(t)

LEMMA RegistrationFacts ==
  ASSUME NEW n \in 1 .. Len(Registrations)
  PROVE  /\ Registrations[n].fn \in Sink \cup {NoSink}
         /\ Registrations[n].threshold \in Level \cup {Off}
         /\ ThresholdOf(Registrations[n]) \in Level \cup {Off}
<1> DEFINE R == [fn : Sink \cup {NoSink}, threshold : Level \cup {Off}]
<1>1. Registrations \in Seq(R)
  BY LogAssumption
<1>2. Registrations[n] \in R
  <2> HIDE DEF R
  <2>. QED
    BY <1>1, ElementOfSeq
<1>. QED
  BY <1>2 DEF ThresholdOf

LEMMA InitIInv == Init => IInv
<1> SUFFICES ASSUME Init PROVE IInv
  OBVIOUS
<1>1. TypeOK
  BY LogAssumption DEF Init, TypeOK
<1>2. OwnerInv
  BY LogAssumption DEF Init, OwnerInv, InForce
<1>3. ASSUME NEW t \in Logger PROVE LockInv(t) /\ CallInv(t)
  BY <1>3, LogAssumption DEF Init, LockInv, CallInv, Undisturbed
<1>. QED
  BY <1>1, <1>2, <1>3 DEF Init, IInv

\* A registration: only its middle step changes the sink, with the mutex free.
LEMMA SetStep == IInv /\ Set => IInv'
<1> SUFFICES ASSUME IInv, Set PROVE IInv'
  OBVIOUS
<1>0. Owner \notin Logger /\ Len(Registrations) \in Nat
  BY LogAssumption
<1>1. CASE SetBegin
  <2>1. TypeOK' /\ (DOMAIN pc = Logger \cup {Owner})'
    BY <1>0, <1>1 DEF SetBegin, Goto, IInv, TypeOK
  <2>2. OwnerInv'
    BY <1>0, <1>1 DEF SetBegin, Goto, IInv, TypeOK, OwnerInv, InForce
  <2>3. ASSUME NEW t \in Logger PROVE LockInv(t)' /\ CallInv(t)'
    BY <1>0, <1>1, <2>3 DEF SetBegin, Goto, IInv, TypeOK, LockInv, CallInv, Undisturbed
  <2>. QED
    BY <2>1, <2>2, <2>3 DEF IInv
<1>2. CASE SetFn
  <2>0. made \in 1 .. Len(Registrations)
    BY <1>2 DEF SetFn, Goto, IInv, OwnerInv
  <2>1. TypeOK' /\ (DOMAIN pc = Logger \cup {Owner})'
    BY <1>0, <1>2, <2>0, RegistrationFacts DEF SetFn, Goto, IInv, TypeOK
  <2>2. OwnerInv'
    BY <1>0, <1>2, <2>0 DEF SetFn, Goto, IInv, TypeOK, OwnerInv
  <2>3. ASSUME NEW t \in Logger PROVE LockInv(t)' /\ CallInv(t)'
    BY <1>0, <1>2, <2>3, LogAssumption
    DEF SetFn, Goto, IInv, TypeOK, LockInv, CallInv, Undisturbed
  <2>. QED
    BY <2>1, <2>2, <2>3 DEF IInv
<1>3. CASE SetThreshold
  <2>0. made \in 1 .. Len(Registrations)
    BY <1>3 DEF SetThreshold, Goto, IInv, OwnerInv
  <2>1. TypeOK' /\ (DOMAIN pc = Logger \cup {Owner})'
    BY <1>0, <1>3, <2>0, RegistrationFacts DEF SetThreshold, Goto, IInv, TypeOK
  <2>2. OwnerInv'
    BY <1>0, <1>3, <2>0 DEF SetThreshold, Goto, IInv, TypeOK, OwnerInv, InForce
  <2>3. ASSUME NEW t \in Logger PROVE LockInv(t)' /\ CallInv(t)'
    BY <1>0, <1>3, <2>3 DEF SetThreshold, Goto, IInv, TypeOK, LockInv, CallInv, Undisturbed
  <2>. QED
    BY <2>1, <2>2, <2>3 DEF IInv
<1>. QED
  BY <1>1, <1>2, <1>3 DEF Set

\* What a step of one logger leaves alone.
LEMMA LogFrame ==
  ASSUME IInv, NEW t \in Logger, LogBegin(t) \/ Log(t)
  PROVE  /\ fn' = fn /\ threshold' = threshold /\ made' = made
         /\ DOMAIN pc' = Logger \cup {Owner} /\ pc'[Owner] = pc[Owner]
         /\ \A u \in Logger \ {t} : /\ pc'[u] = pc[u] /\ level'[u] = level[u]
                                    /\ outcome'[u] = outcome[u] /\ begun'[u] = begun[u]
                                    /\ locked = u => locked' = u
<1> USE LogAssumption DEF IInv, TypeOK, Goto, LockInv
<1>1. CASE LogBegin(t)
  BY <1>1 DEF LogBegin
<1>2. CASE Enabled(t) \/ Below(t) \/ Check(t)
  BY <1>2 DEF Enabled, Below, Check
<1>3. CASE Lock(t)
  BY <1>3 DEF Lock
<1>4. CASE NoFn(t) \/ SinkReturns(t)
  BY <1>4 DEF NoFn, SinkReturns
<1>5. CASE CallSink(t)
  BY <1>5 DEF CallSink
<1>. QED
  BY <1>1, <1>2, <1>3, <1>4, <1>5 DEF Log

\* Types, and what the acting logger knows, after each of its steps.
LEMMA LogTypes ==
  ASSUME IInv, NEW t \in Logger, LogBegin(t) \/ Log(t)
  PROVE  TypeOK'
<1> USE LogAssumption DEF IInv, TypeOK, Goto
<1>1. CASE LogBegin(t)
  <2>1. PICK l \in Level : level' = [level EXCEPT ![t] = l]
    BY <1>1 DEF LogBegin
  <2>2. level' \in [Logger -> Level \cup {Off}]
    BY <2>1
  <2>3. begun' \in [Logger -> -1 .. Len(Registrations)]
    <3>1. made \in -1 .. Len(Registrations) /\ -1 \in -1 .. Len(Registrations)
      OBVIOUS
    <3>. QED
      BY <1>1, <3>1 DEF LogBegin
  <2>4. pc'[Owner] = pc[Owner]
        /\ \A u \in Logger : pc'[u] \in {pc[u], "enabled", "check"}
    BY <1>1 DEF LogBegin
  <2>5. outcome' \in [Logger -> Sink \cup {NoSink}]
    BY <1>1 DEF LogBegin
  <2>. QED
    BY <1>1, <2>2, <2>3, <2>4, <2>5 DEF LogBegin
<1>2. CASE Enabled(t) \/ Below(t) \/ Check(t)
  BY <1>2 DEF Enabled, Below, Check
<1>3. CASE Lock(t)
  BY <1>3 DEF Lock
<1>4. CASE NoFn(t) \/ SinkReturns(t)
  BY <1>4 DEF NoFn, SinkReturns
<1>5. CASE CallSink(t)
  BY <1>5 DEF CallSink
<1>. QED
  BY <1>1, <1>2, <1>3, <1>4, <1>5 DEF Log

LEMMA LogSelf ==
  ASSUME IInv, NEW t \in Logger, LogBegin(t) \/ Log(t)
  PROVE  LockInv(t)' /\ CallInv(t)'
<1> USE LogAssumption DEF IInv, TypeOK, Goto, LockInv, CallInv, Undisturbed
<1>1. CASE LogBegin(t)
  BY <1>1 DEF LogBegin
<1>2. CASE Enabled(t) \/ Below(t)
  BY <1>2 DEF Enabled, Below
<1>3. CASE Check(t)
  BY <1>3 DEF Check
<1>4. CASE Lock(t)
  BY <1>4 DEF Lock
<1>5. CASE NoFn(t) \/ SinkReturns(t)
  BY <1>5 DEF NoFn, SinkReturns
<1>6. CASE CallSink(t)
  BY <1>6 DEF CallSink
<1>. QED
  BY <1>1, <1>2, <1>3, <1>4, <1>5, <1>6 DEF Log

LEMMA LogStep ==
  ASSUME IInv, NEW t \in Logger, LogBegin(t) \/ Log(t)
  PROVE  IInv'
<1>1. TypeOK' /\ LockInv(t)' /\ CallInv(t)'
  BY LogTypes, LogSelf
<1>2. OwnerInv' /\ (DOMAIN pc = Logger \cup {Owner})'
  BY LogFrame DEF IInv, OwnerInv, InForce
<1>3. ASSUME NEW u \in Logger \ {t} PROVE LockInv(u)' /\ CallInv(u)'
  BY <1>3, LogFrame DEF IInv, LockInv, CallInv, Undisturbed
<1>. QED
  BY <1>1, <1>2, <1>3 DEF IInv

\* The invariant holds in every behaviour.
THEOREM Invariance == Spec => []IInv
<1>1. IInv /\ [Next]_vars => IInv'
  <2> SUFFICES ASSUME IInv, [Next]_vars PROVE IInv'
    OBVIOUS
  <2>1. CASE UNCHANGED vars
    BY <2>1 DEF vars, IInv, TypeOK, OwnerInv, InForce, LockInv, CallInv, Undisturbed
  <2>2. CASE Next
    BY <2>2, SetStep, LogStep DEF Next
  <2>. QED
    BY <2>1, <2>2
<1>. QED
  BY <1>1, InitIInv, PTL DEF Spec

\* crypto_set_log_sink never destroys a sink that a thread is inside, and none is
\* entered after it was replaced.
THEOREM AliveInside == Spec => []SinkAlive
<1>1. IInv => SinkAlive
  BY DEF IInv, SinkAlive, LockInv
<1>. QED
  BY <1>1, Invariance, PTL

\* A call of crypto_log that no registration overlaps is heard by exactly the sink
\* that the registration in force asks for.
THEOREM HeardByAudience == Spec => Heard
<1>1. ASSUME IInv, Next, NEW t \in Logger, pc[t] # "idle", pc'[t] = "idle", begun[t] = made
      PROVE  outcome[t] = Audience(made, level[t])
  <2>0. Undisturbed(t) /\ InForce(made) /\ level[t] \in Level /\ made \in Nat
    BY <1>1 DEF IInv, Undisturbed, CallInv, OwnerInv, TypeOK
  <2>1. Below(t) \/ NoFn(t) \/ SinkReturns(t)
    <3>1. CASE Set
      BY <1>1, <3>1, LogAssumption DEF IInv, Set, SetBegin, SetFn, SetThreshold, Goto
    <3>2. CASE \E u \in Logger : LogBegin(u) \/ Log(u)
      <4>1. PICK u \in Logger : LogBegin(u) \/ Log(u)
        BY <3>2
      <4>2. u = t
        BY <1>1, <4>1, LogFrame
      <4>. QED
        BY <1>1, <4>1, <4>2
        DEF IInv, Log, LogBegin, Enabled, Check, Lock, CallSink, Goto
    <3>. QED
      BY <1>1, <3>1, <3>2 DEF Next
  <2>2. CASE Below(t)
    <3>1. /\ outcome[t] = NoSink
          /\ level[t] < threshold /\ level[t] \in Int /\ threshold \in Int
      BY <1>1, <2>0, <2>2, LogAssumption DEF Below, Goto, IInv, TypeOK, CallInv
    <3>. QED
      BY <2>0, <3>1, LogAssumption DEF InForce, Audience
  <2>3. CASE NoFn(t)
    <3>1. outcome[t] = NoSink /\ fn = NoSink
      BY <1>1, <2>3 DEF NoFn, Goto, IInv, CallInv
    <3>. QED
      BY <2>0, <3>1 DEF InForce, Audience
  <2>4. CASE SinkReturns(t)
    <3>1. outcome[t] = fn /\ level[t] >= threshold
      BY <1>1, <2>0, <2>4 DEF SinkReturns, Goto, IInv, LockInv, CallInv
    <3>. QED
      BY <2>0, <3>1, LogAssumption DEF InForce, Audience
  <2>. QED
    BY <2>1, <2>2, <2>3, <2>4
<1>2. IInv /\ [Next]_vars =>
        [\A t \in Logger : pc[t] # "idle" /\ pc'[t] = "idle" /\ begun[t] = made
           => outcome[t] = Audience(made, level[t])]_vars
  BY <1>1
<1>. QED
  BY <1>2, Invariance, PTL DEF Spec, Heard

-----------------------------------------------------------------------------
(* scli's logger, for every name of a level and any number of sinks.  What   *)
(* makes OneSource inductive is how far a configuration has been followed    *)
(* while nothing is in force yet.                                            *)

Opens == {"stderr", "stdout", "file"}

\* The sinks opened so far are the first of those the configuration names.
Following ==
  /\ args.config /\ ~told /\ config.file \in {"object", "no object"}
  /\ sinks \in Seq(Opens) /\ Len(sinks) <= Len(Config!Named)
  /\ \A i \in 1 .. Len(sinks) : sinks[i] = Config!Named[i]

\* All of them are open, and standard error when none was named.
Followed ==
  /\ args.config /\ ~told /\ config.file \in {"object", "no object"}
  /\ Config!Named \in Seq(Opens)
  /\ sinks = IF Config!Named = <<>> THEN <<"stderr">> ELSE Config!Named

ConfigInv ==
  /\ config \in IF args.config THEN Config!Configs ELSE {[file |-> "missing"]}
  /\ args.config \in BOOLEAN
  /\ phase \in {"start", "sinks", "level", "fallback", "ready", "terminated"}
  /\ phase = "start" => sinks = <<>> /\ ~told
  /\ phase = "sinks" => Following
  /\ phase = "level" => Followed
  /\ phase = "fallback" => args.config /\ told /\ Config!Refusable
  /\ phase # "ready" => logger = Config!NoLogger /\ hook = Config!LibOff
  /\ OneSource

\* The sinks a configuration names are a finite sequence.
LEMMA NamedIs ==
  ASSUME ConfigInv, args.config
  PROVE  Config!Named \in Seq(Config!SinkKinds)
<1>1. CASE config.file = "object"
  <2>1. config \in [file : {"object"}, level : LevelName \cup {Config!NotGiven, "wrong type"},
                    sinks : UNION {[1 .. n -> Config!SinkKinds] : n \in 0 .. MaxSinks}]
    BY <1>1 DEF ConfigInv, Config!Configs
  <2>2. PICK n \in 0 .. MaxSinks : config.sinks \in [1 .. n -> Config!SinkKinds]
    BY <2>1
  <2>3. n \in Nat
    OBVIOUS
  <2>. QED
    BY <1>1, <2>2, <2>3, SeqDef DEF Config!Named
<1>2. CASE config.file # "object"
  BY <1>2 DEF Config!Named
<1>. QED
  BY <1>1, <1>2

\* One sink more, after those that are open.
LEMMA SinkAppended ==
  ASSUME NEW kind \in Opens, sinks \in Seq(Opens)
  PROVE  /\ Append(sinks, kind) \in Seq(Opens) /\ Len(Append(sinks, kind)) = Len(sinks) + 1
         /\ \A i \in 1 .. Len(sinks) : Append(sinks, kind)[i] = sinks[i]
         /\ Append(sinks, kind)[Len(sinks) + 1] = kind
BY AppendProperties

\* The hook's threshold is the logger's, except that the library knows no "critical".
LEMMA LevelFacts ==
  /\ \A name : Config!parse_level(name) \in 0 .. 6
  /\ \A l \in 0 .. 6 :
       /\ \A lib \in 0 .. 3 : l <= lib + 1 => Config!to_lib_threshold(l) <= lib
       /\ \A lib \in 0 .. 3 :
            Config!to_lib_threshold(l) <= lib /\ ~(l <= lib + 1) => l = 5 /\ lib = 3
BY DEF Config!parse_level, Config!to_lib_threshold, Config!Trace, Config!Debug, Config!Info,
       Config!Warn, Config!Err, Config!Critical, Config!NoMessages, Config!LibDebug, Config!LibOff

\* Whatever the level, logger and hook agree once they are wired, and there is a sink.
LEMMA WireAgrees ==
  ASSUME NEW name, NEW to \in Seq(Config!SinkKinds), to # <<>>,
         Config!Wire(Config!parse_level(name), to)
  PROVE  Config!SameAudience'
<1> DEFINE l == Config!parse_level(name)
<1>1. logger' = [level |-> l, sinks |-> to] /\ hook' = Config!to_lib_threshold(l)
  BY DEF Config!Wire
<1>2. logger'.level = l /\ logger'.sinks = to
  BY <1>1
<1>3. l \in 0 .. 6
  BY LevelFacts
<1> HIDE DEF l
<1>4. Config!DieGoesTo' # {}
  <2>1. to[1] \in {to[i] : i \in DOMAIN to}
    <3>1. 1 \in DOMAIN to
      BY EmptySeq, LenProperties
    <3>. QED
      BY <3>1
  <2>. QED
    BY <1>2, <2>1 DEF Config!DieGoesTo
<1>5. /\ \A lib \in 0 .. 3 : l <= lib + 1 => hook' <= lib
      /\ \A lib \in 0 .. 3 : hook' <= lib /\ ~(l <= lib + 1) => l = 5 /\ lib = 3
  BY <1>1, <1>3, LevelFacts
<1>. QED
  BY <1>2, <1>4, <1>5 DEF Config!SameAudience, Config!Logs, Config!HandedOver, Config!Critical

\* What is read off the configuration stays while the configuration does.
LEMMA ReadingOn ==
  ASSUME ConfigInv, args' = args, config' = config
  PROVE  /\ Config!Named' = Config!Named /\ Config!ConfigLevel' = Config!ConfigLevel
         /\ Config!Refusable' = Config!Refusable /\ Config!Throwing' = Config!Throwing
BY DEF Config!Named, Config!ConfigLevel, Config!Refusable, Config!Throwing, Config!SomeSink

\* The level asked for is that of the first name given.
LEMMA FirstGiven ==
  ASSUME NEW first, NEW second, NEW third, third # Config!NotGiven, NEW l,
         l = Config!parse_level(Config!Default(first, Config!Default(second, third)))
  PROVE  Config!OfFirstGiven(l, <<first, second, third>>)
<1> DEFINE names == <<first, second, third>>
<1>1. DOMAIN names = 1 .. 3 /\ names[1] = first /\ names[2] = second /\ names[3] = third
  OBVIOUS
<1>2. CASE first # Config!NotGiven
  BY <1>1, <1>2 DEF Config!Default, Config!OfFirstGiven
<1>3. CASE first = Config!NotGiven /\ second # Config!NotGiven
  <2>1. 2 \in 1 .. 3 /\ \A j \in 1 .. 2 - 1 : j = 1
    OBVIOUS
  <2>. QED
    BY <1>1, <1>3, <2>1 DEF Config!Default, Config!OfFirstGiven
<1>4. CASE first = Config!NotGiven /\ second = Config!NotGiven
  <2>1. 3 \in 1 .. 3 /\ \A j \in 1 .. 3 - 1 : j = 1 \/ j = 2
    OBVIOUS
  <2>. QED
    BY <1>1, <1>4, <2>1 DEF Config!Default, Config!OfFirstGiven
<1>. QED
  BY <1>2, <1>3, <1>4

\* The default is a name.
LEMMA WarnIsGiven == "warn" # Config!NotGiven
BY Zenon DEF Config!NotGiven

LEMMA ConfigInit == Config!Init => ConfigInv
BY DEF Config!Init, ConfigInv, OneSource, Config!OneSource, Config!SameAudience

LEMMA ConfigStep == ConfigInv /\ [Config!Next]_(Config!vars) => ConfigInv'
<1> SUFFICES ASSUME ConfigInv, [Config!Next]_(Config!vars) PROVE ConfigInv'
  OBVIOUS
<1>1. CASE UNCHANGED Config!vars
  <2>1. OneSource' = OneSource /\ Following' = Following /\ Followed' = Followed
    BY <1>1 DEF Config!vars, OneSource, Config!OneSource, Config!SameAudience, Config!Logs,
                Config!HandedOver, Config!DieGoesTo, Config!OfFirstGiven, Config!Refusable,
                Config!Throwing, Config!SomeSink, Config!ConfigLevel, Following, Followed, Config!Named
  <2>2. Config!Refusable' = Config!Refusable
    BY <1>1, ReadingOn DEF Config!vars
  <2>. QED
    BY <1>1, <2>1, <2>2 DEF Config!vars, ConfigInv, Config!NoLogger
<1>2. phase' \notin {"ready", "terminated"} => OneSource'
  BY DEF OneSource, Config!OneSource, Config!SameAudience
<1>3. CASE Config!ReadConfig
  <2>1. args' = args /\ config' = config /\ sinks' = sinks /\ sinks = <<>> /\ ~told /\ args.config
    BY <1>3 DEF Config!ReadConfig, ConfigInv
  <2>4. logger' = Config!NoLogger /\ hook' = Config!LibOff
    BY <1>3 DEF Config!ReadConfig, ConfigInv
  <2>2. CASE phase' = "fallback" /\ told' /\ config.file \in {"missing", "no JSON"}
    <3>1. Config!Refusable'
      BY <2>1, <2>2, ReadingOn DEF Config!Refusable
    <3>. QED
      BY <1>2, <2>1, <2>2, <2>4, <3>1 DEF ConfigInv, Config!NoLogger
  <2>3. CASE phase' = "sinks" /\ told' = told /\ config.file \in {"no object", "object"}
    <3>1. Config!Named \in Seq(Config!SinkKinds) /\ Config!Named' = Config!Named
      BY <2>1, NamedIs DEF Config!Named
    <3>2. Len(sinks) = 0 /\ sinks \in Seq(Opens) /\ 0 <= Len(Config!Named)
      BY <2>1, <3>1
    <3>3. Following'
      <4>1. args'.config /\ ~told' /\ config'.file \in {"object", "no object"}
        BY <2>1, <2>3
      <4>2. sinks' \in Seq(Opens) /\ Len(sinks') <= Len(Config!Named')
        BY <2>1, <3>1, <3>2
      <4>3. \A i \in 1 .. Len(sinks') : sinks'[i] = Config!Named'[i]
        BY <2>1, <3>2
      <4>. QED
        BY <4>1, <4>2, <4>3 DEF Following
    <3>. QED
      BY <1>2, <2>1, <2>3, <2>4, <3>3 DEF ConfigInv, Config!NoLogger
  <2>. QED
    BY <1>3, <2>2, <2>3 DEF Config!ReadConfig, Config!Refuse
<1>4. CASE Config!MakeSink
  <2>1. args' = args /\ config' = config /\ Following /\ Len(sinks) < Len(Config!Named)
    BY <1>4 DEF Config!MakeSink, ConfigInv
  <2>2. Config!Named \in Seq(Config!SinkKinds) /\ Config!Named' = Config!Named
    BY <2>1, NamedIs DEF Config!Named, Following
  <2>6. /\ args.config /\ ~told /\ config.file \in {"object", "no object"}
        /\ sinks \in Seq(Opens) /\ \A i \in 1 .. Len(sinks) : sinks[i] = Config!Named[i]
    BY <2>1 DEF Following
  <2>7. Len(sinks) \in Nat /\ Len(Config!Named) \in Nat
    BY <2>2, <2>6, LenProperties
  <2> DEFINE kind == Config!Named[Len(sinks) + 1]
  <2>8. logger' = Config!NoLogger /\ hook' = Config!LibOff
    BY <1>4 DEF Config!MakeSink, ConfigInv
  <2>9. \A kinds : kind \in kinds => Config!SomeSink(kinds)
    <3>1. Len(sinks) + 1 \in DOMAIN Config!Named
      BY <2>1, <2>2, <2>7
    <3>. QED
      BY <3>1 DEF Config!SomeSink
  <2>3. CASE kind \in Opens /\ sinks' = Append(sinks, kind) /\ phase' = phase /\ told' = told
    <3>1. /\ sinks' \in Seq(Opens) /\ Len(sinks') = Len(sinks) + 1
          /\ \A i \in 1 .. Len(sinks) : sinks'[i] = sinks[i]
          /\ sinks'[Len(sinks) + 1] = kind
      BY <2>3, <2>6, SinkAppended
    <3>2. Len(sinks') <= Len(Config!Named')
      BY <2>1, <2>2, <2>7, <3>1
    <3>3. \A i \in 1 .. Len(sinks') : sinks'[i] = Config!Named'[i]
      <4> SUFFICES ASSUME NEW i \in 1 .. Len(sinks) + 1 PROVE sinks'[i] = Config!Named[i]
        BY <2>2, <3>1
      <4>1. CASE i = Len(sinks) + 1
        BY <3>1, <4>1
      <4>2. CASE i # Len(sinks) + 1
        <5>1. i \in 1 .. Len(sinks)
          BY <2>7, <4>2
        <5>. QED
          BY <2>6, <3>1, <5>1
      <4>. QED
        BY <4>1, <4>2
    <3>5. Following'
      BY <2>1, <2>3, <2>6, <3>1, <3>2, <3>3 DEF Following
    <3>4. phase = "sinks"
      BY <1>4 DEF Config!MakeSink
    <3>. QED
      BY <1>2, <2>1, <2>3, <2>8, <3>4, <3>5 DEF ConfigInv, Config!NoLogger
  <2>4. CASE kind \in {"no path", "unknown"} /\ phase' = "fallback" /\ told'
    <3>1. Config!Refusable'
      BY <2>1, <2>4, <2>9, ReadingOn DEF Config!Refusable
    <3>. QED
      BY <1>2, <2>1, <2>4, <2>6, <2>8, <3>1 DEF ConfigInv, Config!NoLogger
  <2>5. CASE kind \in {"wrong type", "cannot open"} /\ phase' = "terminated" /\ told' = told
    <3>1. Config!Throwing'
      BY <2>1, <2>5, <2>9, ReadingOn DEF Config!Throwing
    <3>2. OneSource'
      BY <2>1, <2>5, <2>6, <2>8, <3>1
      DEF OneSource, Config!OneSource, Config!SameAudience, Config!NoLogger
    <3>. QED
      BY <2>1, <2>5, <2>6, <2>8, <3>2 DEF ConfigInv, Config!NoLogger
  <2>. QED
    BY <1>4, <2>3, <2>4, <2>5 DEF Config!MakeSink, Config!Refuse, Config!Terminate, Opens
<1>5. CASE Config!SinksMade
  <2>1. /\ args' = args /\ config' = config /\ told' = told /\ phase' = "level"
        /\ Following /\ Len(sinks) = Len(Config!Named)
        /\ sinks' = IF sinks = <<>> THEN <<"stderr">> ELSE sinks
    BY <1>5 DEF Config!SinksMade, ConfigInv
  <2>2. Config!Named \in Seq(Config!SinkKinds) /\ Config!Named' = Config!Named
    BY <2>1, NamedIs DEF Config!Named, Following
  <2>3. sinks = Config!Named
    <3>1. sinks \in Seq(Opens) /\ \A i \in 1 .. Len(sinks) : sinks[i] = Config!Named[i]
      BY <2>1 DEF Following
    <3>. QED
      BY <2>1, <2>2, <3>1, SeqEqual
  <2>4. Followed'
    BY <2>1, <2>2, <2>3 DEF Following, Followed
  <2>5. logger' = Config!NoLogger /\ hook' = Config!LibOff
    BY <1>5 DEF Config!SinksMade, ConfigInv
  <2>. QED
    BY <1>2, <2>1, <2>4, <2>5 DEF ConfigInv, Config!NoLogger
<1>6. CASE Config!UseConfig
  <2> DEFINE name == Config!Default(Config!ConfigLevel, Config!Default(args.level, "warn"))
  <2>1. /\ args' = args /\ config' = config /\ told' = told /\ phase' = "ready"
        /\ Followed /\ Config!ConfigLevel # "wrong type"
        /\ Config!Wire(Config!parse_level(name), sinks)
        /\ sinks' = sinks
    BY <1>6 DEF Config!UseConfig, ConfigInv, Config!Wire
  <2>2. config.file = "object" /\ Config!Named = config.sinks /\ Config!ConfigLevel = config.level
    BY <2>1 DEF Config!ConfigLevel, Config!Named
  <2>3. /\ Config!Named \in Seq(Opens)
        /\ sinks = IF Config!Named = <<>> THEN <<"stderr">> ELSE Config!Named
    BY <2>1 DEF Followed
  <2>8. <<"stderr">> \in Seq(Opens) /\ <<"stderr">> # <<>>
    BY DEF Opens
  <2>9. sinks \in Seq(Opens) /\ sinks # <<>>
    BY <2>3, <2>8
  <2>4. sinks \in Seq(Config!SinkKinds)
    <3>1. Opens \subseteq Config!SinkKinds
      BY DEF Opens, Config!SinkKinds
    <3>. QED
      BY <2>9, <3>1, SeqDef
  <2>5. Config!SameAudience'
    BY <2>1, <2>4, <2>9, WireAgrees
  <2>6. logger' = [level |-> Config!parse_level(name), sinks |-> sinks]
    BY <2>1 DEF Config!Wire
  <2>7. Config!OneSource'
    <3>1. logger'.level = Config!parse_level(name) /\ logger'.sinks = sinks
      BY <2>6
    <3>2. Config!OfFirstGiven(logger.level, <<config.level, args.level, "warn">>)'
      <4>1. Config!OfFirstGiven(logger'.level, <<config.level, args.level, "warn">>)
        BY <2>2, <3>1, WarnIsGiven, FirstGiven
      <4>. QED
        BY <2>1, <4>1 DEF Config!OfFirstGiven
    <3>3. \A i \in DOMAIN config.sinks : config.sinks[i] \in {"stderr", "stdout", "file"}
      <4>1. config.sinks \in Seq(Opens)
        BY <2>2, <2>3
      <4>. QED
        BY <4>1, SeqDef DEF Opens
    <3> HIDE DEF name
    <3>4. sinks = IF config.sinks = <<>> THEN <<"stderr">> ELSE config.sinks
      BY <2>1, <2>2 DEF Followed
    <3>5. config.file = "object" /\ config.level # "wrong type"
      BY <2>1, <2>2
    <3>6. args'.config /\ ~told'
      BY <2>1 DEF Followed
    <3>. QED
      BY <2>1, <3>1, <3>2, <3>3, <3>4, <3>5, <3>6 DEF Config!OneSource, Config!OfFirstGiven
  <2>. QED
    BY <2>1, <2>5, <2>7 DEF ConfigInv, OneSource
<1>7. CASE Config!LevelThrows
  <2>1. /\ args' = args /\ config' = config /\ phase' = "terminated" /\ told' = told
        /\ Followed /\ Config!ConfigLevel = "wrong type"
    BY <1>7 DEF Config!LevelThrows, Config!Terminate, ConfigInv
  <2>2. args.config /\ ~told
    BY <2>1 DEF Followed
  <2>3. logger' = Config!NoLogger /\ hook' = Config!LibOff
    BY <1>7 DEF Config!LevelThrows, ConfigInv
  <2>4. Config!Throwing'
    BY <2>1, ReadingOn DEF Config!Throwing
  <2>5. OneSource'
    BY <2>1, <2>2, <2>3, <2>4 DEF OneSource, Config!OneSource, Config!SameAudience, Config!NoLogger
  <2>. QED
    BY <2>1, <2>3, <2>5 DEF ConfigInv, Config!NoLogger
<1>8. CASE Config!UseLevel
  <2> DEFINE name == Config!Default(args.level, Config!Default(args.env, "warn"))
  <2>1. /\ args' = args /\ config' = config /\ told' = told /\ phase' = "ready"
        /\ IF args.config THEN told /\ Config!Refusable ELSE ~told
        /\ Config!Wire(Config!parse_level(name), <<"stderr">>)
    BY <1>8 DEF Config!UseLevel, ConfigInv, Config!Wire
  <2>2. <<"stderr">> \in Seq(Config!SinkKinds) /\ <<"stderr">> # <<>>
    BY DEF Config!SinkKinds
  <2>3. Config!SameAudience'
    BY <2>1, <2>2, WireAgrees
  <2>4. logger'.level = Config!parse_level(name) /\ logger'.sinks = <<"stderr">>
    BY <2>1 DEF Config!Wire
  <2>5. Config!OfFirstGiven(logger.level, <<args.level, args.env, "warn">>)'
    <3>1. Config!OfFirstGiven(logger'.level, <<args.level, args.env, "warn">>)
      BY <2>4, WarnIsGiven, FirstGiven
    <3>. QED
      BY <2>1, <3>1 DEF Config!OfFirstGiven
  <2>6. IF args'.config THEN told' /\ Config!Refusable' ELSE ~told'
    BY <2>1, ReadingOn
  <2> HIDE DEF name
  <2>7. Config!OneSource'
    BY <2>1, <2>4, <2>5, <2>6 DEF Config!OneSource, Config!OfFirstGiven
  <2>. QED
    BY <2>1, <2>3, <2>7 DEF ConfigInv, OneSource
<1>. QED
  BY <1>1, <1>3, <1>4, <1>5, <1>6, <1>7, <1>8 DEF Config!Next

\* When scli gets to its commands, one source of configuration is in force, whole, and
\* the library hands over what the logger logs.
THEOREM SourceIsOne == Config!Spec => []OneSource
<1>1. ConfigInv => OneSource
  BY DEF ConfigInv
<1>. QED
  BY <1>1, ConfigInit, ConfigStep, PTL DEF Config!Spec

-----------------------------------------------------------------------------
(* The files of scli's commands, for any number of runs.  SuccessStays alone *)
(* is not inductive: what a finished run wrote is safe because the others    *)
(* never get past the open of the first secret, and that has to be known of  *)
(* runs on their way as well.                                                *)

CommandTypes ==
  /\ command \in DOMAIN Commands!Plans
  /\ file \in [Commands!Path -> [by : Run \cup {Nobody}, whole : BOOLEAN]]
  /\ at \in [Run -> {1, 2}]
  /\ \A r \in Run : at[r] \in DOMAIN Commands!Plan
  /\ step \in [Run -> {"compute", "open", "write", "ok", "died", "killed"}]
  /\ flushed \in [Run -> BOOLEAN]

\* The i-th artefact of run r is written; or it is, or was opened.
Written(r, i) == i < at[r] \/ (step[r] = "ok" /\ i = at[r])
Opened(r, i) == Written(r, i) \/ (step[r] = "write" /\ i = at[r])

\* The i-th artefact is a secret, or comes after one.
Guarded(i) == \E j \in 1 .. i : Commands!Plan[j].secret

FileOf(i) == file[Commands!Plan[i].path]

\* What a run opened once it was past its first secret is its own, and what it
\* wrote is whole.
Kept(r, i) ==
  /\ Opened(r, i) => FileOf(i).by = r
  /\ Written(r, i) => FileOf(i).whole \/ (~Commands!Plan[i].secret /\ ~flushed[r])

CommandInv ==
  /\ CommandTypes
  /\ \A r \in Run : step[r] = "ok" => at[r] = Len(Commands!Plan)
  /\ \A r \in Run, i \in DOMAIN Commands!Plan : Guarded(i) => Kept(r, i)

\* Every command has one or two artefacts, at different paths.
LEMMA PlanFacts ==
  ASSUME command \in DOMAIN Commands!Plans
  PROVE  /\ Len(Commands!Plan) \in {1, 2}
         /\ DOMAIN Commands!Plan = 1 .. Len(Commands!Plan)
         /\ \A i \in DOMAIN Commands!Plan :
              /\ Commands!Plan[i].path \in Commands!Path
              /\ Commands!Plan[i].secret \in BOOLEAN
         /\ \A i, j \in DOMAIN Commands!Plan :
              Commands!Plan[i].path = Commands!Plan[j].path => i = j
<1> USE DEF Commands!Path
<1>1. CASE command = "keygen"
  <2>1. Commands!Plan = <<[secret |-> TRUE, path |-> "private"],
                           [secret |-> FALSE, path |-> "public"]>>
    BY <1>1 DEF Commands!Plan, Commands!Plans, Commands!keygen, Commands!Secret, Commands!Public
  <2>2. Len(Commands!Plan) = 2 /\ DOMAIN Commands!Plan = 1 .. 2
    BY <2>1
  <2>3. /\ Commands!Plan[1].secret = TRUE /\ Commands!Plan[1].path = "private"
        /\ Commands!Plan[2].secret = FALSE /\ Commands!Plan[2].path = "public"
    BY <2>1
  <2>4. \A i \in DOMAIN Commands!Plan : i = 1 \/ i = 2
    BY <2>2
  <2>. QED
    BY <2>2, <2>3, <2>4
<1>2. CASE command = "derive"
  <2>1. Commands!Plan = <<[secret |-> TRUE, path |-> "ikm"],
                           [secret |-> TRUE, path |-> "output"]>>
    BY <1>2 DEF Commands!Plan, Commands!Plans, Commands!derive, Commands!Secret, Commands!Public
  <2>2. Len(Commands!Plan) = 2 /\ DOMAIN Commands!Plan = 1 .. 2
    BY <2>1
  <2>3. /\ Commands!Plan[1].secret = TRUE /\ Commands!Plan[1].path = "ikm"
        /\ Commands!Plan[2].secret = TRUE /\ Commands!Plan[2].path = "output"
    BY <2>1
  <2>4. \A i \in DOMAIN Commands!Plan : i = 1 \/ i = 2
    BY <2>2
  <2>. QED
    BY <2>2, <2>3, <2>4
<1>3. CASE command = "encapsulate"
  <2>1. Commands!Plan = <<[secret |-> FALSE, path |-> "ciphertext"],
                           [secret |-> TRUE, path |-> "shared"]>>
    BY <1>3 DEF Commands!Plan, Commands!Plans, Commands!encapsulate, Commands!Secret,
                Commands!Public
  <2>2. Len(Commands!Plan) = 2 /\ DOMAIN Commands!Plan = 1 .. 2
    BY <2>1
  <2>3. /\ Commands!Plan[1].secret = FALSE /\ Commands!Plan[1].path = "ciphertext"
        /\ Commands!Plan[2].secret = TRUE /\ Commands!Plan[2].path = "shared"
    BY <2>1
  <2>4. \A i \in DOMAIN Commands!Plan : i = 1 \/ i = 2
    BY <2>2
  <2>. QED
    BY <2>2, <2>3, <2>4
<1>4. CASE command = "compute"
  <2>1. Commands!Plan = <<[secret |-> TRUE, path |-> "shared"]>>
    BY <1>4 DEF Commands!Plan, Commands!Plans, Commands!compute, Commands!Secret, Commands!Public
  <2>2. Len(Commands!Plan) = 1 /\ DOMAIN Commands!Plan = 1 .. 1
    BY <2>1
  <2>3. /\ Commands!Plan[1].secret = TRUE /\ Commands!Plan[1].path = "shared"
    BY <2>1
  <2>4. \A i \in DOMAIN Commands!Plan : i = 1
    BY <2>2
  <2>. QED
    BY <2>2, <2>3, <2>4
<1>5. CASE command = "encrypt"
  <2>1. Commands!Plan = <<[secret |-> FALSE, path |-> "output"]>>
    BY <1>5 DEF Commands!Plan, Commands!Plans, Commands!encrypt, Commands!Secret, Commands!Public
  <2>2. Len(Commands!Plan) = 1 /\ DOMAIN Commands!Plan = 1 .. 1
    BY <2>1
  <2>3. /\ Commands!Plan[1].secret = FALSE /\ Commands!Plan[1].path = "output"
    BY <2>1
  <2>4. \A i \in DOMAIN Commands!Plan : i = 1
    BY <2>2
  <2>. QED
    BY <2>2, <2>3, <2>4
<1>. QED
  BY <1>1, <1>2, <1>3, <1>4, <1>5 DEF Commands!Plans

LEMMA CommandInit == Commands!Init => CommandInv
<1> SUFFICES ASSUME Commands!Init PROVE CommandInv
  OBVIOUS
<1>1. command \in DOMAIN Commands!Plans
  BY DEF Commands!Init
<1>2. 1 \in DOMAIN Commands!Plan
  BY <1>1, PlanFacts
<1>3. CommandTypes
  BY <1>1, <1>2 DEF CommandTypes, Commands!Init, Commands!NoFile
<1>4. ASSUME NEW r \in Run, NEW i \in DOMAIN Commands!Plan PROVE ~Opened(r, i)
  BY <1>1, PlanFacts DEF Opened, Written, Commands!Init
<1>. QED
  BY <1>3, <1>4 DEF CommandInv, Kept, Opened, Commands!Init

\* Only one run gets to a guarded artefact.
LEMMA OneGetsPast ==
  ASSUME CommandInv, NEW q \in Run, NEW r \in Run, Guarded(at[q]), Opened(r, at[q]),
         \/ step[q] = "write"
         \/ step[q] = "open" /\ ~Commands!Exists(Commands!Item(q).path)
         \/ step[q] = "open" /\ ~Commands!Item(q).secret
  PROVE  r = q
<1> DEFINE i == at[q]
<1>1. command \in DOMAIN Commands!Plans /\ i \in DOMAIN Commands!Plan
  BY DEF CommandInv, CommandTypes
<1>2. PICK j \in 1 .. i : Commands!Plan[j].secret
  BY DEF Guarded
<1>3. j \in DOMAIN Commands!Plan /\ Guarded(j)
  BY <1>1, <1>2, PlanFacts DEF Guarded
<1>4. Opened(r, j)
  <2>1. at[r] \in {1, 2} /\ i \in {1, 2} /\ Opened(r, i)
    BY DEF CommandInv, CommandTypes
  <2>. QED
    BY <1>2, <2>1 DEF Opened, Written
<1>5. FileOf(j).by = r
  BY <1>3, <1>4 DEF CommandInv, Kept
<1>6. CASE j < i \/ step[q] = "write"
  <2>1. Opened(q, j)
    BY <1>1, <1>2, <1>6, PlanFacts DEF Opened, Written
  <2>. QED
    BY <1>3, <1>5, <2>1 DEF CommandInv, Kept
<1>7. CASE j = i /\ step[q] = "open"
  BY <1>1, <1>2, <1>5, <1>7, RunAssumption DEF Commands!Exists, Commands!Item, FileOf
<1>. QED
  BY <1>1, <1>2, <1>6, <1>7, PlanFacts

\* What a run's step does to its place in the plan and to the file it is at.
Moves(q) ==
  /\ UNCHANGED command
  /\ at' \in [Run -> {1, 2}] /\ \A r \in Run \ {q} : at'[r] = at[r]
  /\ step' \in [Run -> {"compute", "open", "write", "ok", "died", "killed"}]
  /\ \A r \in Run \ {q} : step'[r] = step[r]
  /\ flushed' \in [Run -> BOOLEAN] /\ \A r \in Run \ {q} : flushed'[r] = flushed[r]

\* A step of one run takes nothing from another.
LEMMA OthersKeep ==
  ASSUME CommandInv, NEW q \in Run, Moves(q), NEW r \in Run \ {q},
         NEW i \in DOMAIN Commands!Plan, Guarded(i),
         \/ file' = file
         \/ /\ \E w \in BOOLEAN : file' = Commands!Left(q, w)
            /\ \/ step[q] = "write"
               \/ step[q] = "open" /\ ~Commands!Exists(Commands!Item(q).path)
               \/ step[q] = "open" /\ ~Commands!Item(q).secret
  PROVE  Kept(r, i)'
<1>1. command \in DOMAIN Commands!Plans /\ at[q] \in DOMAIN Commands!Plan
  BY DEF CommandInv, CommandTypes
<1>2. Kept(r, i)
  BY DEF CommandInv
<1>3. Commands!Plan' = Commands!Plan
  BY DEF Moves, Commands!Plan
<1>4. (Opened(r, i))' = Opened(r, i) /\ (Written(r, i))' = Written(r, i) /\ flushed'[r] = flushed[r]
  BY DEF Moves, Opened, Written
<1>5. Opened(r, i) => FileOf(i)' = FileOf(i)
  <2> SUFFICES ASSUME Opened(r, i), file' # file PROVE FileOf(i)' = FileOf(i)
    BY <1>3 DEF FileOf
  <2>1. at[q] # i
    BY OneGetsPast
  <2>2. Commands!Plan[i].path # Commands!Item(q).path
    BY <1>1, <2>1, PlanFacts DEF Commands!Item
  <2>3. Commands!Plan[i].path \in Commands!Path
    BY <1>1, PlanFacts
  <2>. QED
    BY <1>3, <2>2, <2>3 DEF CommandInv, CommandTypes, Commands!Left, FileOf
<1>. QED
  BY <1>2, <1>3, <1>4, <1>5 DEF Kept, Opened

\* A step of run q that touches at most the file it is at, and leaves that one in
\* order, keeps the invariant.
LEMMA StepKeeps ==
  ASSUME CommandInv, NEW q \in Run, Moves(q), flushed'[q] => flushed[q],
         \/ file' = file
         \/ /\ \E w \in BOOLEAN : file' = Commands!Left(q, w)
            /\ \/ step[q] = "write"
               \/ step[q] = "open" /\ ~Commands!Exists(Commands!Item(q).path)
               \/ step[q] = "open" /\ ~Commands!Item(q).secret,
         at'[q] = at[q] \/ at'[q] = at[q] + 1, at'[q] \in DOMAIN Commands!Plan,
         step'[q] = "ok" => at'[q] = Len(Commands!Plan),
         \A i \in DOMAIN Commands!Plan : Guarded(i) /\ i >= at[q] => Kept(q, i)'
  PROVE  CommandInv'
<1>1. command \in DOMAIN Commands!Plans /\ at[q] \in DOMAIN Commands!Plan
  BY DEF CommandInv, CommandTypes
<1>2. Commands!Plan' = Commands!Plan /\ \A i : (Guarded(i))' = Guarded(i)
  BY DEF Moves, Commands!Plan, Guarded
<1>3. Commands!Item(q).path \in Commands!Path
  BY <1>1, PlanFacts DEF Commands!Item
<1>4. CommandTypes'
  <2>1. file' \in [Commands!Path -> [by : Run \cup {Nobody}, whole : BOOLEAN]]
    <3>1. file \in [Commands!Path -> [by : Run \cup {Nobody}, whole : BOOLEAN]]
      BY DEF CommandInv, CommandTypes
    <3>2. ASSUME NEW w \in BOOLEAN, file' = Commands!Left(q, w)
          PROVE  file' \in [Commands!Path -> [by : Run \cup {Nobody}, whole : BOOLEAN]]
      <4>1. file' = [file EXCEPT ![Commands!Item(q).path] = [by |-> q, whole |-> w]]
        BY <3>2 DEF Commands!Left
      <4>2. [by |-> q, whole |-> w] \in [by : Run \cup {Nobody}, whole : BOOLEAN]
        OBVIOUS
      <4>. QED
        BY <3>1, <4>1, <4>2
    <3>. QED
      BY <3>1, <3>2
  <2>2. \A r \in Run : at'[r] \in DOMAIN Commands!Plan
    BY DEF Moves, CommandInv, CommandTypes
  <2>. QED
    BY <1>2, <2>1, <2>2 DEF CommandInv, CommandTypes, Moves
<1>5. \A r \in Run : step'[r] = "ok" => at'[r] = Len(Commands!Plan)
  BY DEF CommandInv, Moves
<1>6. ASSUME NEW i \in DOMAIN Commands!Plan, Guarded(i), i < at[q] PROVE Kept(q, i)'
  <2>1. Kept(q, i) /\ Opened(q, i) /\ Written(q, i)
    BY <1>6 DEF CommandInv, Opened, Written
  <2>2. Commands!Plan[i].path # Commands!Item(q).path /\ Commands!Plan[i].path \in Commands!Path
    BY <1>1, <1>6, PlanFacts DEF Commands!Item
  <2>3. FileOf(i)' = FileOf(i)
    BY <1>2, <2>2 DEF CommandInv, CommandTypes, Commands!Left, FileOf
  <2>. QED
    BY <1>2, <2>1, <2>3 DEF Kept
<1>7. ASSUME NEW r \in Run, NEW i \in DOMAIN Commands!Plan, Guarded(i) PROVE Kept(r, i)'
  <2>1. CASE r # q
    BY <1>7, <2>1, OthersKeep
  <2>2. CASE r = q /\ i < at[q]
    BY <1>6, <1>7, <2>2
  <2>3. CASE r = q /\ i >= at[q]
    BY <1>7, <2>3
  <2>. QED
    BY <1>1, <2>1, <2>2, <2>3, PlanFacts
<1>. QED
  BY <1>2, <1>4, <1>5, <1>7 DEF CommandInv

\* An artefact that is written goes to the next one, or ends the run.
LEMMA ProceedIs ==
  ASSUME CommandInv, NEW q \in Run, step[q] = "write", Commands!Proceed(q)
  PROVE  /\ at' \in [Run -> {1, 2}] /\ \A r \in Run \ {q} : at'[r] = at[r]
         /\ step' \in [Run -> {"compute", "open", "write", "ok", "died", "killed"}]
         /\ \A r \in Run \ {q} : step'[r] = step[r]
         /\ at'[q] \in DOMAIN Commands!Plan
         /\ \/ at'[q] = at[q] + 1 /\ step'[q] = "compute"
            \/ at'[q] = at[q] /\ step'[q] = "ok" /\ at[q] = Len(Commands!Plan)
<1>1. command \in DOMAIN Commands!Plans /\ at[q] \in DOMAIN Commands!Plan
  BY DEF CommandInv, CommandTypes
<1>2. CASE at[q] < Len(Commands!Plan)
  <2>1. at' = [at EXCEPT ![q] = at[q] + 1] /\ step' = [step EXCEPT ![q] = "compute"]
    BY <1>2 DEF Commands!Proceed, Commands!Goto
  <2>2. at[q] + 1 \in DOMAIN Commands!Plan /\ at[q] + 1 \in {1, 2}
    BY <1>1, <1>2, PlanFacts
  <2>. QED
    BY <2>1, <2>2 DEF CommandInv, CommandTypes
<1>3. CASE ~(at[q] < Len(Commands!Plan))
  <2>1. at' = at /\ step' = [step EXCEPT ![q] = "ok"]
    BY <1>3 DEF Commands!Proceed, Commands!Goto
  <2>2. at[q] = Len(Commands!Plan)
    BY <1>1, <1>3, PlanFacts
  <2>. QED
    BY <1>1, <2>1, <2>2 DEF CommandInv, CommandTypes
<1>. QED
  BY <1>2, <1>3

\* The file at hand, once written by its run.
LEMMA WriteKeeps ==
  ASSUME CommandInv, NEW q \in Run, step[q] = "write", Moves(q), flushed'[q] => flushed[q],
         \/ file' = file /\ ~Commands!Item(q).secret /\ ~flushed'[q]
         \/ \E w \in BOOLEAN : /\ file' = Commands!Left(q, w)
                               /\ w \/ (~Commands!Item(q).secret /\ ~flushed'[q]),
         at'[q] \in DOMAIN Commands!Plan,
         \/ at'[q] = at[q] + 1 /\ step'[q] = "compute"
         \/ at'[q] = at[q] /\ step'[q] = "ok" /\ at[q] = Len(Commands!Plan)
  PROVE  CommandInv'
<1>1. command \in DOMAIN Commands!Plans /\ at[q] \in DOMAIN Commands!Plan /\ at[q] \in {1, 2}
  BY DEF CommandInv, CommandTypes
<1>2. Commands!Plan' = Commands!Plan
  BY DEF Moves, Commands!Plan
<1>3. Commands!Item(q) = Commands!Plan[at[q]] /\ Commands!Item(q).path \in Commands!Path
  BY <1>1, PlanFacts DEF Commands!Item
<1>4. ASSUME NEW i \in DOMAIN Commands!Plan, i = at[q], Guarded(i) PROVE Kept(q, i)'
  <2> SUFFICES /\ file'[Commands!Item(q).path].by = q
               /\ file'[Commands!Item(q).path].whole \/ (~Commands!Item(q).secret /\ ~flushed'[q])
    <3>1. /\ FileOf(i)' = file'[Commands!Item(q).path]
          /\ Commands!Plan'[i].secret = Commands!Item(q).secret
      BY <1>2, <1>3, <1>4 DEF FileOf
    <3>. QED
      BY <1>2, <3>1 DEF Kept
  <2>1. CASE file' = file /\ ~Commands!Item(q).secret /\ ~flushed'[q]
    <3>1. Opened(q, i)
      BY <1>4 DEF Opened
    <3>. QED
      BY <1>3, <1>4, <2>1, <3>1 DEF CommandInv, Kept, FileOf
  <2>2. ASSUME NEW w \in BOOLEAN, file' = Commands!Left(q, w),
               w \/ (~Commands!Item(q).secret /\ ~flushed'[q])
        PROVE  /\ file'[Commands!Item(q).path].by = q
               /\ file'[Commands!Item(q).path].whole \/ (~Commands!Item(q).secret /\ ~flushed'[q])
    <3>1. file'[Commands!Item(q).path] = [by |-> q, whole |-> w]
      BY <1>3, <2>2 DEF Commands!Left, CommandInv, CommandTypes
    <3>. QED
      BY <2>2, <3>1
  <2>. QED
    BY <2>1, <2>2
<1>5. ASSUME NEW i \in DOMAIN Commands!Plan, i > at[q] PROVE ~(Opened(q, i))'
  BY <1>1, <1>5, PlanFacts DEF Opened, Written
<1>6. \A i \in DOMAIN Commands!Plan : Guarded(i) /\ i >= at[q] => Kept(q, i)'
  <2> SUFFICES ASSUME NEW i \in DOMAIN Commands!Plan, Guarded(i), i >= at[q] PROVE Kept(q, i)'
    OBVIOUS
  <2>1. CASE i = at[q]
    BY <1>4, <2>1
  <2>2. CASE i > at[q]
    BY <1>5, <2>2 DEF Kept, Opened
  <2>. QED
    BY <1>1, <2>1, <2>2, PlanFacts
<1>7. file' = file \/ \E w \in BOOLEAN : file' = Commands!Left(q, w)
  OBVIOUS
<1>. QED
  BY <1>6, <1>7, StepKeeps

\* A step after which the run is neither writing nor finished leaves nothing new to keep.
LEMMA StopKeeps ==
  ASSUME CommandInv, NEW q \in Run,
         NEW to \in {"open", "died", "killed"}, step' = [step EXCEPT ![q] = to],
         UNCHANGED <<command, at, flushed>>,
         \/ file' = file
         \/ step[q] = "write" /\ \E w \in BOOLEAN : file' = Commands!Left(q, w)
  PROVE  CommandInv'
<1>1. command \in DOMAIN Commands!Plans /\ at[q] \in DOMAIN Commands!Plan
  BY DEF CommandInv, CommandTypes
<1>2. Moves(q)
  BY DEF Moves, CommandInv, CommandTypes
<1>3. step'[q] = to /\ at'[q] = at[q] /\ flushed'[q] = flushed[q]
  BY DEF CommandInv, CommandTypes
<1>4. ASSUME NEW i \in DOMAIN Commands!Plan, i >= at[q] PROVE ~(Opened(q, i))'
  BY <1>1, <1>3, <1>4, PlanFacts DEF Opened, Written
<1>5. \A i \in DOMAIN Commands!Plan : Guarded(i) /\ i >= at[q] => Kept(q, i)'
  BY <1>4 DEF Kept, Opened
<1>. QED
  BY <1>1, <1>2, <1>3, <1>5, StepKeeps

\* A file that a run makes, or truncates, is its own.
LEMMA OpenKeeps ==
  ASSUME CommandInv, NEW q \in Run, step[q] = "open",
         \/ ~Commands!Exists(Commands!Item(q).path)
         \/ ~Commands!Item(q).secret,
         file' = Commands!Left(q, FALSE), step' = [step EXCEPT ![q] = "write"],
         UNCHANGED <<command, at, flushed>>
  PROVE  CommandInv'
<1>1. command \in DOMAIN Commands!Plans /\ at[q] \in DOMAIN Commands!Plan
  BY DEF CommandInv, CommandTypes
<1>2. Moves(q)
  BY DEF Moves, CommandInv, CommandTypes
<1>3. step'[q] = "write" /\ at'[q] = at[q] /\ flushed'[q] = flushed[q]
  BY DEF CommandInv, CommandTypes
<1>4. Commands!Plan' = Commands!Plan
  BY DEF Commands!Plan
<1>5. Commands!Item(q) = Commands!Plan[at[q]] /\ Commands!Item(q).path \in Commands!Path
  BY <1>1, PlanFacts DEF Commands!Item
<1>6. file'[Commands!Item(q).path].by = q
  BY <1>5 DEF Commands!Left, CommandInv, CommandTypes
<1>7. ASSUME NEW i \in DOMAIN Commands!Plan, i >= at[q] PROVE Kept(q, i)'
  <2>1. ~(Written(q, i))'
    BY <1>1, <1>3, <1>7, PlanFacts DEF Written
  <2>2. (Opened(q, i))' => i = at[q]
    BY <1>3, <2>1 DEF Opened
  <2>3. i = at[q] => FileOf(i)'.by = q
    BY <1>4, <1>5, <1>6 DEF FileOf
  <2>. QED
    BY <2>1, <2>2, <2>3 DEF Kept
<1>8. file' = file \/ \E w \in BOOLEAN : file' = Commands!Left(q, w)
  OBVIOUS
<1>. QED
  BY <1>1, <1>2, <1>3, <1>7, <1>8, StepKeeps

LEMMA CommandStep == CommandInv /\ [Commands!Next]_(Commands!vars) => CommandInv'
<1> SUFFICES ASSUME CommandInv, [Commands!Next]_(Commands!vars) PROVE CommandInv'
  OBVIOUS
<1>1. CASE UNCHANGED Commands!vars
  BY <1>1 DEF Commands!vars, CommandInv, CommandTypes, Kept, Opened, Written, Guarded, FileOf,
              Commands!Plan
<1>2. ASSUME NEW q \in Run, Commands!Compute(q) PROVE CommandInv'
  <2>1. PICK to \in {"open", "died"} : step' = [step EXCEPT ![q] = to]
    BY <1>2 DEF Commands!Compute, Commands!Goto
  <2>. QED
    BY <1>2, <2>1, StopKeeps DEF Commands!Compute
<1>3. ASSUME NEW q \in Run, Commands!Killed(q) PROVE CommandInv'
  BY <1>3, StopKeeps DEF Commands!Killed, Commands!Goto
<1>4. ASSUME NEW q \in Run, Commands!OpenSecret(q) PROVE CommandInv'
  <2>1. CASE step' = [step EXCEPT ![q] = "died"] /\ file' = file
    BY <1>4, <2>1, StopKeeps DEF Commands!OpenSecret
  <2>2. CASE /\ ~Commands!Exists(Commands!Item(q).path)
             /\ file' = Commands!Left(q, FALSE) /\ step' = [step EXCEPT ![q] = "write"]
    BY <1>4, <2>2, OpenKeeps DEF Commands!OpenSecret
  <2>. QED
    BY <1>4, <2>1, <2>2 DEF Commands!OpenSecret, Commands!Goto
<1>5. ASSUME NEW q \in Run, Commands!OpenPublic(q) PROVE CommandInv'
  <2>1. CASE step' = [step EXCEPT ![q] = "died"] /\ file' = file
    BY <1>5, <2>1, StopKeeps DEF Commands!OpenPublic
  <2>2. CASE file' = Commands!Left(q, FALSE) /\ step' = [step EXCEPT ![q] = "write"]
    BY <1>5, <2>2, OpenKeeps DEF Commands!OpenPublic
  <2>. QED
    BY <1>5, <2>1, <2>2 DEF Commands!OpenPublic, Commands!Goto
<1>6. ASSUME NEW q \in Run, Commands!WriteFails(q) PROVE CommandInv'
  BY <1>6, StopKeeps DEF Commands!WriteFails, Commands!Goto
<1>7. ASSUME NEW q \in Run, Commands!WriteSecret(q) PROVE CommandInv'
  <2>1. step[q] = "write" /\ flushed' = flushed /\ command' = command
    BY <1>7 DEF Commands!WriteSecret
  <2>2. Commands!Proceed(q) /\ file' = Commands!Left(q, TRUE)
    BY <1>7 DEF Commands!WriteSecret
  <2>3. Moves(q)
    BY <2>1, <2>2, ProceedIs DEF Moves, CommandInv, CommandTypes
  <2>. QED
    BY <2>1, <2>2, <2>3, ProceedIs, WriteKeeps
<1>8. ASSUME NEW q \in Run, Commands!WritePublic(q) PROVE CommandInv'
  <2>1. step[q] = "write" /\ command' = command /\ Commands!Proceed(q) /\ ~Commands!Item(q).secret
    BY <1>8 DEF Commands!WritePublic
  <2>2. \/ flushed' = flushed /\ file' = Commands!Left(q, TRUE)
        \/ /\ flushed' = [flushed EXCEPT ![q] = FALSE]
           /\ file' = file \/ file' = Commands!Left(q, FALSE)
    BY <1>8 DEF Commands!WritePublic
  <2>3. /\ flushed' \in [Run -> BOOLEAN] /\ \A r \in Run \ {q} : flushed'[r] = flushed[r]
        /\ flushed'[q] => flushed[q]
        /\ flushed' = flushed \/ ~flushed'[q]
    BY <2>2 DEF CommandInv, CommandTypes
  <2>4. Moves(q)
    BY <2>1, <2>3, ProceedIs DEF Moves
  <2>5. \/ file' = file /\ ~Commands!Item(q).secret /\ ~flushed'[q]
        \/ \E w \in BOOLEAN : /\ file' = Commands!Left(q, w)
                              /\ w \/ (~Commands!Item(q).secret /\ ~flushed'[q])
    BY <2>1, <2>2 DEF CommandInv, CommandTypes
  <2>. QED
    BY <2>1, <2>3, <2>4, <2>5, ProceedIs, WriteKeeps
<1>. QED
  BY <1>1, <1>2, <1>3, <1>4, <1>5, <1>6, <1>7, <1>8 DEF Commands!Next

\* However many runs of a command share their paths, and wherever they fail or are
\* killed, what a successful run wrote, from its first secret on, stays its own and whole.
THEOREM SuccessKept == Commands!Spec => []SuccessStays
<1>1. CommandInv => SuccessStays
  <2> SUFFICES ASSUME CommandInv, NEW r \in Run, step[r] = "ok", NEW i \in DOMAIN Commands!Plan,
                      Guarded(i)
      PROVE  FileOf(i).by = r /\ (FileOf(i).whole \/ (~Commands!Plan[i].secret /\ ~flushed[r]))
    BY DEF SuccessStays, Commands!SuccessStays, Guarded, FileOf
  <2>1. Written(r, i)
    <3>1. command \in DOMAIN Commands!Plans /\ at[r] = Len(Commands!Plan)
      BY DEF CommandInv, CommandTypes
    <3>. QED
      BY <3>1, PlanFacts DEF Written
  <2>. QED
    BY <2>1 DEF CommandInv, Kept, Opened
<1>. QED
  BY <1>1, CommandInit, CommandStep, PTL DEF Commands!Spec

-----------------------------------------------------------------------------
(* What is used of numbers. *)

\* Quotient and remainder of a number that is written as a sum.
LEMMA DivMod ==
  ASSUME NEW n, NEW q, NEW r, n \in Nat \ {0}, q \in Int, r \in 0 .. n - 1
  PROVE  (q * n + r) \div n = q /\ (q * n + r) % n = r
<1> DEFINE x == q * n + r
<1>1. q * n \in Int /\ x \in Int
  OBVIOUS
<1> DEFINE d == x \div n
           m == x % n
<1>2. d \in Int /\ m \in 0 .. n - 1 /\ x = n * d + m
  BY <1>1
<1>3. (q - d) * n = m - r
  BY <1>1, <1>2
<1>4. q - d = 0
  <2>1. CASE q - d >= 1
    <3>1. (q - d) * n >= n
      BY <1>2, <2>1
    <3>. QED
      BY <1>2, <1>3, <3>1
  <2>2. CASE q - d <= -1
    <3>1. (q - d) * n <= -n
      BY <1>2, <2>2
    <3>. QED
      BY <1>2, <1>3, <3>1
  <2>. QED
    BY <1>2, <2>1, <2>2
<1>5. d = q /\ m = r
  BY <1>2, <1>3, <1>4
<1>. QED
  BY <1>5

\* A number of n values.
Under(n, v) == v \in 0 .. n - 1

\* One of m * n values is a sum in one way.
LEMMA SumUnder ==
  ASSUME NEW m, NEW n, NEW q, NEW r, NEW k, NEW v,
         m \in Nat, n \in Nat, Under(m, q), Under(n, r), k = m * n, v = q * n + r
  PROVE  Under(k, v)
<1>0. q \in 0 .. m - 1 /\ r \in 0 .. n - 1
  BY DEF Under
<1>1. q * n \in Nat /\ m * n \in Nat /\ q + 1 <= m
  BY <1>0
<1>2. (q + 1) * n <= m * n
  <2> DEFINE e == m - (q + 1)
  <2>1. e \in Nat /\ m = e + (q + 1)
    BY <1>0, <1>1
  <2> HIDE DEF e
  <2>2. m * n = e * n + (q + 1) * n /\ e * n \in Nat
    BY <1>0, <2>1
  <2>. QED
    BY <1>0, <2>2
<1>3. (q + 1) * n = q * n + n
  BY <1>0
<1>. QED
  BY <1>0, <1>1, <1>2, <1>3 DEF Under

LEMMA Sum ==
  ASSUME NEW m, NEW n, NEW v, m \in Nat, n \in Nat \ {0}, Under(m * n, v)
  PROVE  /\ Under(m, v \div n) /\ Under(n, v % n)
         /\ v = (v \div n) * n + (v % n)
<1>1. m * n \in Nat /\ v \in Nat /\ v <= m * n - 1
  BY DEF Under
<1>2. v \div n \in Int /\ v % n \in 0 .. n - 1 /\ v = n * (v \div n) + (v % n)
  BY <1>1
<1> DEFINE d == v \div n
           r == v % n
<1>3. d \in Int /\ r \in 0 .. n - 1 /\ v = n * d + r
  BY <1>2
<1> HIDE DEF d, r
<1>4. n * d = d * n /\ d * n \in Int
  BY <1>3
<1>5. d >= 0
  <2>1. CASE d <= -1
    <3>1. n * d <= -n
      BY <1>3, <2>1
    <3>. QED
      BY <1>1, <1>3, <3>1
  <2>. QED
    BY <1>3, <2>1
<1>6. d < m
  <2>1. CASE d >= m
    <3>1. (d - m) * n >= 0
      BY <1>3, <2>1
    <3>2. (d - m) * n = d * n - m * n
      BY <1>3
    <3>. QED
      BY <1>1, <1>3, <1>4, <3>1, <3>2
  <2>. QED
    BY <1>3, <2>1
<1>. QED
  BY <1>3, <1>4, <1>5, <1>6 DEF d, r, Under

\* The places of a number of three or four.
ThreePlaces(n, b1, b2, b3) == (b1 * n + b2) * n + b3
FourPlaces(n, d1, d2, d3, d4) == ((d1 * n + d2) * n + d3) * n + d4

LEMMA OfThree ==
  ASSUME NEW n, NEW b1, NEW b2, NEW b3, n \in Nat \ {0}, Under(n, b1), Under(n, b2), Under(n, b3),
         NEW v, v = ThreePlaces(n, b1, b2, b3)
  PROVE  /\ Under(n * n * n, v)
         /\ v \div (n * n) = b1 /\ (v \div n) % n = b2 /\ v % n = b3
<1> DEFINE x == b1 * n + b2
           y == b2 * n + b3
           nn == n * n
<1>0. n \in Nat /\ b1 \in Nat /\ b2 \in 0 .. n - 1 /\ b3 \in 0 .. n - 1
  BY DEF Under
<1>1. nn \in Nat \ {0} /\ nn \in Nat /\ nn * n = n * n * n
  BY <1>0
<1>2. Under(nn, x) /\ Under(nn, y)
  <2>1. nn = n * n /\ x = b1 * n + b2 /\ y = b2 * n + b3
    OBVIOUS
  <2> HIDE DEF nn, x, y
  <2>. QED
    BY <1>0, <2>1, SumUnder, Zenon
<1>3. x \div n = b1 /\ x % n = b2
  BY <1>0, DivMod
<1>4. v = x * n + b3 /\ v = b1 * nn + y /\ x \in Nat
  BY <1>0 DEF ThreePlaces
<1>8. nn = n * n
  OBVIOUS
<1> HIDE DEF x, y, nn
<1>5. Under(nn * n, v)
  BY <1>0, <1>1, <1>2, <1>4, SumUnder, ZenonT(60)
<1>6. v \div n = x /\ v % n = b3
  BY <1>0, <1>4, DivMod
<1>7. v \div nn = b1
  BY <1>0, <1>1, <1>2, <1>4, DivMod DEF Under
<1>. QED
  BY <1>1, <1>3, <1>5, <1>6, <1>7, <1>8, Zenon

LEMMA OfFour ==
  ASSUME NEW n, NEW d1, NEW d2, NEW d3, NEW d4, n \in Nat \ {0},
         Under(n, d1), Under(n, d2), Under(n, d3), Under(n, d4),
         NEW v, v = FourPlaces(n, d1, d2, d3, d4)
  PROVE  /\ Under(n * n * n * n, v)
         /\ v \div (n * n * n) = d1 /\ (v \div (n * n)) % n = d2 /\ (v \div n) % n = d3 /\ v % n = d4
<1> DEFINE w == ThreePlaces(n, d1, d2, d3)
           x == d1 * n + d2
           y == d3 * n + d4
           z == ThreePlaces(n, d2, d3, d4)
           nn == n * n
           nnn == n * n * n
<1>0. n \in Nat /\ d1 \in Nat /\ d2 \in 0 .. n - 1 /\ d3 \in 0 .. n - 1 /\ d4 \in 0 .. n - 1
  BY DEF Under
<1>1. /\ nn \in Nat \ {0} /\ nn \in Nat
      /\ nnn \in Nat \ {0} /\ nnn \in Nat /\ nnn * n = n * n * n * n
  BY <1>0
<1>2. Under(nnn, w) /\ w % n = d3 /\ Under(nnn, z)
  BY OfThree
<1>3. Under(nn, x) /\ Under(nn, y)
  <2>1. nn = n * n /\ x = d1 * n + d2 /\ y = d3 * n + d4
    OBVIOUS
  <2> HIDE DEF nn, x, y
  <2>. QED
    BY <1>0, <2>1, SumUnder, Zenon
<1>4. x % n = d2 /\ x \in Nat
  BY <1>0, DivMod
<1>5. v = w * n + d4
  BY <1>0 DEF ThreePlaces, FourPlaces
<1>6. v = x * nn + y
  BY <1>0 DEF FourPlaces
<1>7. v = d1 * nnn + z
  BY <1>0 DEF ThreePlaces, FourPlaces
<1>12. nn = n * n /\ nnn = n * n * n
  OBVIOUS
<1> HIDE DEF w, x, y, z, nn, nnn
<1>8. Under(nnn * n, v)
  BY <1>0, <1>1, <1>2, <1>5, SumUnder, ZenonT(60)
<1>9. v \div n = w /\ v % n = d4
  BY <1>0, <1>2, <1>5, DivMod DEF Under
<1>10. v \div nn = x
  BY <1>1, <1>3, <1>4, <1>6, DivMod DEF Under
<1>11. v \div nnn = d1
  BY <1>0, <1>1, <1>2, <1>7, DivMod DEF Under
<1>. QED
  BY <1>1, <1>2, <1>4, <1>8, <1>9, <1>10, <1>11, <1>12, Zenon

LEMMA HasThree ==
  ASSUME NEW n, NEW v, n \in Nat \ {0}, Under(n * n * n, v)
  PROVE  \E b1, b2, b3 : Under(n, b1) /\ Under(n, b2) /\ Under(n, b3) /\ v = ThreePlaces(n, b1, b2, b3)
<1> DEFINE x == v \div n
<1>1. n * n \in Nat /\ n \in Nat
  OBVIOUS
<1>2. Under(n * n, x) /\ Under(n, v % n) /\ v = x * n + (v % n)
  BY <1>1, Sum, Zenon
<1> HIDE DEF x
<1>3. Under(n, x \div n) /\ Under(n, x % n) /\ x = (x \div n) * n + (x % n)
  BY <1>1, <1>2, Sum, Zenon
<1>. QED
  BY <1>2, <1>3, Zenon DEF ThreePlaces

LEMMA HasFour ==
  ASSUME NEW n, NEW v, n \in Nat \ {0}, Under(n * n * n * n, v)
  PROVE  \E d1, d2, d3, d4 : /\ Under(n, d1) /\ Under(n, d2) /\ Under(n, d3) /\ Under(n, d4)
                             /\ v = FourPlaces(n, d1, d2, d3, d4)
<1> DEFINE x == v \div n
<1>1. n * n * n \in Nat
  OBVIOUS
<1>2. Under(n * n * n, x) /\ Under(n, v % n) /\ v = x * n + (v % n)
  BY <1>1, Sum, Zenon
<1> HIDE DEF x
<1>3. PICK d1, d2, d3 : Under(n, d1) /\ Under(n, d2) /\ Under(n, d3) /\ x = ThreePlaces(n, d1, d2, d3)
  BY <1>2, HasThree, Zenon
<1>. QED
  BY <1>2, <1>3, Zenon DEF ThreePlaces, FourPlaces

-----------------------------------------------------------------------------
(* Three bytes and the four digits of the same number. *)

D == Commands!Digits
B == Commands!Bytes

LEMMA Sizes ==
  /\ Radix \in Nat \ {0} /\ D \in Nat \ {0} /\ B \in Nat \ {0}
  /\ Radix * Radix * Radix = D /\ Radix * D = B
  /\ Under(D, 0) /\ Under(B, 0)
<1>1. Radix \in Nat \ {0} /\ Radix > 1
  BY EncodingAssumption DEF Commands!EncodingShape
<1> DEFINE r2 == Radix * Radix
<1>2. r2 \in Nat \ {0}
  BY <1>1
<1> HIDE DEF r2
<1>3. r2 * Radix \in Nat \ {0}
  BY <1>1, <1>2
<1>4. D \in Nat \ {0} /\ D = Radix * Radix * Radix
  BY <1>3 DEF r2, D, Commands!Digits
<1>5. B = Radix * D
  BY DEF D, B, Commands!Bytes
<1> HIDE DEF D, B
<1>6. B \in Nat \ {0}
  BY <1>1, <1>4, <1>5
<1>. QED
  BY <1>1, <1>4, <1>5, <1>6 DEF Under

\* Three bytes have as many values as four digits.
LEMMA SameRange ==
  /\ B * B * B = D * D * D * D
  /\ B * B = (Radix * Radix) * (D * D)
<1> DEFINE r == Radix
<1>1. r \in Nat /\ D \in Nat /\ B \in Nat /\ r * r * r = D /\ r * D = B
  BY Sizes
<1> HIDE DEF r, D, B
<1>2. B * B = (r * r) * (D * D)
  BY <1>1
<1>3. B * B * B = (r * r * r) * (D * D * D)
  BY <1>1
<1>4. (r * r * r) * (D * D * D) = D * D * D * D
  BY <1>1
<1>. QED
  BY <1>2, <1>3, <1>4 DEF r

LEMMA PlacesAre ==
  ASSUME NEW d1, NEW d2, NEW d3, NEW d4
  PROVE  /\ Commands!Merged(d1, d2, d3, d4) = FourPlaces(D, d1, d2, d3, d4)
         /\ Commands!Joined(d1, d2, d3) = ThreePlaces(B, d1, d2, d3)
BY Zenon DEF D, B, Commands!Merged, Commands!Joined, ThreePlaces, FourPlaces

\* The bytes and the digits of a number.
BytesOf(v, b1, b2, b3) ==
  /\ Under(B, b1) /\ Under(B, b2) /\ Under(B, b3)
  /\ v = Commands!Joined(b1, b2, b3) /\ Commands!Triple(v) = <<b1, b2, b3>>
DigitsOf(v, d1, d2, d3, d4) ==
  /\ Under(D, d1) /\ Under(D, d2) /\ Under(D, d3) /\ Under(D, d4)
  /\ v = Commands!Merged(d1, d2, d3, d4) /\ Commands!Quad(v) = <<d1, d2, d3, d4>>

LEMMA AreBytes ==
  ASSUME NEW b1, NEW b2, NEW b3, Under(B, b1), Under(B, b2), Under(B, b3)
  PROVE  /\ BytesOf(Commands!Joined(b1, b2, b3), b1, b2, b3)
         /\ Under(B * B * B, Commands!Joined(b1, b2, b3))
<1> DEFINE v == Commands!Joined(b1, b2, b3)
<1>0. B \in Nat \ {0}
  BY Sizes, Zenon
<1>1. v = ThreePlaces(B, b1, b2, b3)
  BY PlacesAre, Zenon
<1> HIDE DEF v
<1>2. Under(B * B * B, v) /\ v \div (B * B) = b1 /\ (v \div B) % B = b2 /\ v % B = b3
  BY <1>0, <1>1, OfThree
<1>3. Commands!Triple(v) = <<v \div (B * B), (v \div B) % B, v % B>>
  BY Zenon DEF Commands!Triple, B
<1>4. Commands!Triple(v) = <<b1, b2, b3>>
  BY <1>2, <1>3, Zenon
<1>. QED
  BY <1>2, <1>4, Zenon DEF v, BytesOf

LEMMA AreDigits ==
  ASSUME NEW d1, NEW d2, NEW d3, NEW d4, Under(D, d1), Under(D, d2), Under(D, d3), Under(D, d4)
  PROVE  /\ DigitsOf(Commands!Merged(d1, d2, d3, d4), d1, d2, d3, d4)
         /\ Under(D * D * D * D, Commands!Merged(d1, d2, d3, d4))
<1> DEFINE v == Commands!Merged(d1, d2, d3, d4)
<1>0. D \in Nat \ {0}
  BY Sizes, Zenon
<1>1. v = FourPlaces(D, d1, d2, d3, d4)
  BY PlacesAre, Zenon
<1> HIDE DEF v
<1>2. /\ Under(D * D * D * D, v) /\ v \div (D * D * D) = d1 /\ (v \div (D * D)) % D = d2
      /\ (v \div D) % D = d3 /\ v % D = d4
  BY <1>0, <1>1, OfFour
<1>3. Commands!Quad(v) = <<v \div (D * D * D), (v \div (D * D)) % D, (v \div D) % D, v % D>>
  BY Zenon DEF Commands!Quad, D
<1>4. Commands!Quad(v) = <<d1, d2, d3, d4>>
  BY <1>2, <1>3, Zenon
<1>. QED
  BY <1>2, <1>4, Zenon DEF v, DigitsOf

LEMMA HaveDigits ==
  ASSUME NEW b1, NEW b2, NEW b3, Under(B, b1), Under(B, b2), Under(B, b3)
  PROVE  \E d1, d2, d3, d4 : DigitsOf(Commands!Joined(b1, b2, b3), d1, d2, d3, d4)
<1> DEFINE v == Commands!Joined(b1, b2, b3)
<1>0. D \in Nat \ {0}
  BY Sizes, Zenon
<1>1. Under(D * D * D * D, v)
  BY AreBytes, SameRange, Zenon
<1> HIDE DEF v
<1>2. PICK d1, d2, d3, d4 : /\ Under(D, d1) /\ Under(D, d2) /\ Under(D, d3) /\ Under(D, d4)
                            /\ v = FourPlaces(D, d1, d2, d3, d4)
  BY <1>0, <1>1, HasFour
<1>3. v = Commands!Merged(d1, d2, d3, d4)
  BY <1>2, PlacesAre, Zenon
<1>. QED
  BY <1>2, <1>3, AreDigits, Zenon DEF v

LEMMA HaveBytes ==
  ASSUME NEW d1, NEW d2, NEW d3, NEW d4, Under(D, d1), Under(D, d2), Under(D, d3), Under(D, d4)
  PROVE  \E b1, b2, b3 : BytesOf(Commands!Merged(d1, d2, d3, d4), b1, b2, b3)
<1> DEFINE v == Commands!Merged(d1, d2, d3, d4)
<1>0. B \in Nat \ {0}
  BY Sizes, Zenon
<1>1. Under(B * B * B, v)
  BY AreDigits, SameRange, Zenon
<1> HIDE DEF v
<1>2. PICK b1, b2, b3 : /\ Under(B, b1) /\ Under(B, b2) /\ Under(B, b3)
                        /\ v = ThreePlaces(B, b1, b2, b3)
  BY <1>0, <1>1, HasThree
<1>3. v = Commands!Joined(b1, b2, b3)
  BY <1>2, PlacesAre, Zenon
<1>. QED
  BY <1>2, <1>3, AreBytes, Zenon DEF v

\* A product, and one of three factors, in another order.
LEMMA Assoc ==
  ASSUME NEW i, NEW j, NEW k, i \in Nat, j \in Nat, k \in Nat
  PROVE  /\ (i * j) * k = i * (j * k) /\ i * j = j * i
         /\ (i + j) * k = i * k + j * k /\ i * j \in Nat /\ i + j \in Nat
OBVIOUS

\* What is left over of one byte are two digits, of two bytes three; and the parts of a
\* digit that are in one byte and in the next.
LEMMA Parts ==
  /\ Radix * Radix \in Nat \ {0} /\ Radix \in Nat /\ D \in Nat /\ B \in Nat
  /\ D = Radix * (Radix * Radix) /\ D = (Radix * Radix) * Radix
  /\ B = D * Radix /\ B = Radix * D
  /\ B * B = (Radix * Radix) * (D * D)
  /\ B * (Radix * Radix) = D * D /\ (B * B) * Radix = D * D * D /\ (D * D) * (Radix * Radix) = B * B
<1> DEFINE r == Radix
           r2 == r * r
<1>1. r \in Nat \ {0} /\ D \in Nat /\ B \in Nat /\ r * r * r = D /\ r * D = B
  BY Sizes
<1>2. B * B = r2 * (D * D)
  BY SameRange
<1> HIDE DEF r, D, B
<1>3. r2 \in Nat \ {0} /\ D = r * r2 /\ D = r2 * r /\ B = D * r
  BY <1>1
<1> HIDE DEF r2
<1>4. B * r2 = D * (r * r2)
  BY <1>1, <1>3
<1>5. (B * B) * r = (r2 * r) * (D * D)
  BY <1>1, <1>2, <1>3
<1>6. (r2 * r) * (D * D) = D * D * D
  BY <1>1, <1>3
<1>. QED
  BY <1>1, <1>2, <1>3, <1>4, <1>5, <1>6 DEF r, r2

LEMMA OneByte ==
  ASSUME NEW b1, Under(B, b1)
  PROVE  \E d1, d2 : DigitsOf(Commands!Joined(b1, 0, 0), d1, d2, 0, 0)
<1> DEFINE r == Radix
           r2 == r * r
           w == b1 * r2
<1>1. /\ r2 \in Nat \ {0} /\ r2 \in Nat /\ D \in Nat \ {0} /\ D \in Nat /\ B \in Nat /\ b1 \in Nat
      /\ B * r2 = D * D /\ B * B = r2 * (D * D) /\ Under(D, 0)
  BY Parts, Sizes DEF Under
<1> HIDE DEF r2, D, B
<1>2. w \in Nat /\ w = b1 * r2 + 0 /\ Under(r2, 0)
  BY <1>1 DEF Under
<1> HIDE DEF w
<1>3. Under(D * D, w)
  <2>1. B \in Nat /\ r2 \in Nat /\ Under(r2, 0) /\ w = b1 * r2 + 0 /\ D * D = B * r2
    BY <1>1, <1>2, Zenon
  <2>. QED
    BY <2>1, SumUnder, ZenonT(60)
<1> DEFINE d1 == w \div D
           d2 == w % D
<1>4. Under(D, d1) /\ Under(D, d2) /\ w = d1 * D + d2
  BY <1>1, <1>3, Sum
<1> HIDE DEF d1, d2
<1>5. Commands!Joined(b1, 0, 0) = b1 * (B * B)
  <2>1. Commands!Joined(b1, 0, 0) = ThreePlaces(B, b1, 0, 0)
    BY PlacesAre, Zenon
  <2>. QED
    BY <1>1, <2>1 DEF ThreePlaces
<1>6. b1 * (B * B) = w * (D * D)
  BY <1>1 DEF w
<1>7. Commands!Merged(d1, d2, 0, 0) = w * (D * D)
  <2>1. Commands!Merged(d1, d2, 0, 0) = FourPlaces(D, d1, d2, 0, 0)
    BY PlacesAre, Zenon
  <2>2. d1 \in Nat /\ d2 \in Nat
    BY <1>4 DEF Under
  <2>. QED
    BY <1>1, <1>2, <1>4, <2>1, <2>2 DEF FourPlaces
<1>8. Commands!Joined(b1, 0, 0) = Commands!Merged(d1, d2, 0, 0)
  BY <1>5, <1>6, <1>7, Zenon
<1>. QED
  BY <1>1, <1>4, <1>8, AreDigits, Zenon

LEMMA TwoBytes ==
  ASSUME NEW b1, NEW b2, Under(B, b1), Under(B, b2)
  PROVE  \E d1, d2, d3 : DigitsOf(Commands!Joined(b1, b2, 0), d1, d2, d3, 0)
<1> DEFINE r == Radix
           u == b1 * B + b2
           w == u * r
           bb == B * B
           ddd == D * D * D
<1>0. bb = B * B /\ ddd = D * D * D
  OBVIOUS
<1>1. /\ r \in Nat \ {0} /\ r \in Nat /\ D \in Nat \ {0} /\ D \in Nat /\ B \in Nat /\ b1 \in Nat /\ b2 \in Nat
      /\ ddd = bb * r /\ B = r * D /\ Under(D, 0) /\ bb \in Nat
  BY Parts, Sizes DEF Under
<1> HIDE DEF r, D, B, bb, ddd
<1>2. u \in Nat /\ u = b1 * B + b2
  BY <1>1
<1> HIDE DEF u
<1>3. Under(bb, u)
  <2>1. B \in Nat /\ bb = B * B /\ u = b1 * B + b2
    BY <1>0, <1>1, <1>2
  <2>. QED
    BY <2>1, SumUnder, Zenon
<1>4. w \in Nat /\ w = u * r + 0 /\ Under(r, 0)
  BY <1>1, <1>2 DEF Under
<1>5. w = u * r
  OBVIOUS
<1> HIDE DEF w
<1>6. Under(ddd, w)
  <2>1. bb \in Nat /\ r \in Nat /\ ddd = bb * r /\ w = u * r + 0 /\ Under(r, 0)
    BY <1>1, <1>4
  <2>. QED
    BY <1>3, <2>1, SumUnder, Zenon
<1>7. PICK d1, d2, d3 : Under(D, d1) /\ Under(D, d2) /\ Under(D, d3) /\ w = ThreePlaces(D, d1, d2, d3)
  BY <1>0, <1>1, <1>6, HasThree
<1>8. Commands!Joined(b1, b2, 0) = u * B
  <2>1. Commands!Joined(b1, b2, 0) = ThreePlaces(B, b1, b2, 0)
    BY PlacesAre, Zenon
  <2>. QED
    BY <1>1, <1>2, <2>1 DEF ThreePlaces
<1>9. u * B = w * D
  BY <1>1, <1>2, <1>5, Assoc
<1>10. Commands!Merged(d1, d2, d3, 0) = w * D
  <2>1. Commands!Merged(d1, d2, d3, 0) = FourPlaces(D, d1, d2, d3, 0)
    BY PlacesAre, Zenon
  <2>2. FourPlaces(D, d1, d2, d3, 0) = w * D + 0
    BY <1>7, Zenon DEF FourPlaces, ThreePlaces
  <2>3. w * D + 0 = w * D
    BY <1>1, <1>4
  <2>. QED
    BY <2>1, <2>2, <2>3, Zenon
<1>11. Commands!Joined(b1, b2, 0) = Commands!Merged(d1, d2, d3, 0)
  BY <1>8, <1>9, <1>10, Zenon
<1>. QED
  BY <1>1, <1>7, <1>11, AreDigits, Zenon

\* Two digits that are followed by padding have the bits of one byte, and some that get lost.
LEMMA OneBack ==
  ASSUME NEW d1, NEW d2, Under(D, d1), Under(D, d2)
  PROVE  \E b1, b2, b3, e : /\ BytesOf(Commands!Merged(d1, d2, 0, 0), b1, b2, b3)
                            /\ DigitsOf(Commands!Joined(b1, 0, 0), d1, e, 0, 0)
<1> DEFINE r == Radix
           r2 == r * r
           q == d2 \div r2
           f == d2 % r2
           e == q * r2
           c == d1 * r + q
           dd == D * D
           bb == B * B
           v == Commands!Merged(d1, d2, 0, 0)
<1>0. dd = D * D /\ bb = B * B /\ Under(D, 0) /\ Under(B, 0)
  BY Sizes
<1>1. /\ r2 \in Nat \ {0} /\ r2 \in Nat /\ r \in Nat \ {0} /\ r \in Nat /\ D \in Nat \ {0} /\ D \in Nat
      /\ B \in Nat \ {0} /\ B \in Nat
      /\ d1 \in Nat /\ d2 \in Nat /\ D = r * r2 /\ B = D * r /\ bb = r2 * dd
      /\ dd \in Nat \ {0} /\ dd \in Nat /\ bb \in Nat \ {0}
  <2>1. dd \in Nat \ {0} /\ bb \in Nat \ {0}
    BY Parts, Sizes
  <2>. QED
    BY <2>1, Parts, Sizes DEF Under
<1>2. PICK b1, b2, b3 : BytesOf(v, b1, b2, b3)
  BY <1>0, HaveBytes, Zenon
<1>3. v = b1 * bb + (b2 * B + b3) /\ b1 \in Nat /\ b2 \in Nat /\ b3 \in Nat
  <2>1. v = ThreePlaces(B, b1, b2, b3)
    BY <1>2, PlacesAre, Zenon DEF BytesOf
  <2>2. b1 \in Nat /\ b2 \in Nat /\ b3 \in Nat
    BY <1>2 DEF BytesOf, Under
  <2> HIDE DEF v
  <2>. QED
    BY <1>0, <1>1, <2>1, <2>2 DEF ThreePlaces
<1>4. Commands!Joined(c, 0, 0) = c * bb + 0 /\ c * bb \in Nat /\ c \in Nat
  <2>1. Commands!Joined(c, 0, 0) = ThreePlaces(B, c, 0, 0)
    BY PlacesAre, Zenon
  <2>2. q \in Nat
    BY <1>1, Sum
  <2> HIDE DEF q
  <2>3. c \in Nat
    BY <1>1, <2>2
  <2> HIDE DEF c
  <2>. QED
    BY <1>0, <1>1, <2>1, <2>3 DEF ThreePlaces
<1>5. Under(r, q) /\ Under(r2, f) /\ d2 = e + f
  <2>1. Under(r * r2, d2)
    BY <1>1, Zenon
  <2> HIDE DEF r, r2
  <2>. QED
    BY <1>1, <2>1, Sum
<1>6. FourPlaces(D, d1, d2, 0, 0) = (d1 * D + d2) * dd /\ FourPlaces(D, d1, e, 0, 0) = (d1 * D + e) * dd
  <2>1. e \in Nat
    BY <1>1, <1>5 DEF Under
  <2> HIDE DEF e
  <2>. QED
    BY <1>0, <1>1, <2>1 DEF FourPlaces
<1>7. v = (d1 * D + d2) * dd /\ Commands!Merged(d1, e, 0, 0) = (d1 * D + e) * dd
  BY <1>6, PlacesAre, Zenon
<1>8. c = d1 * r + q /\ e = q * r2 + 0 /\ q \in Nat /\ f \in Nat /\ e \in Nat /\ c \in Nat /\ e = q * r2
  BY <1>1, <1>5 DEF Under
<1> HIDE DEF r, r2, q, f, e, c, dd, bb, v, D, B
<1>9. Under(D, e)
  <2>1. r \in Nat /\ r2 \in Nat /\ Under(r, q) /\ Under(r2, 0) /\ D = r * r2 /\ e = q * r2 + 0
    BY <1>1, <1>5, <1>8 DEF Under
  <2>. QED
    BY <2>1, SumUnder, Zenon
<1>10. Under(bb, f * dd)
  <2>1. r2 \in Nat /\ dd \in Nat /\ Under(r2, f) /\ Under(dd, 0) /\ bb = r2 * dd /\ f * dd = f * dd + 0
    BY <1>1, <1>5, <1>8 DEF Under
  <2>. QED
    BY <2>1, SumUnder, Zenon
<1>11. Under(bb, b2 * B + b3)
  <2>1. B \in Nat /\ Under(B, b2) /\ Under(B, b3) /\ bb = B * B
    BY <1>0, <1>1, <1>2, Zenon DEF BytesOf
  <2>. QED
    BY <2>1, SumUnder, Zenon
<1>12. c * bb = (d1 * D + e) * dd
  <2>1. c * r2 = d1 * D + e
    BY <1>1, <1>8
  <2>2. c * bb = (c * r2) * dd
    BY <1>1, <1>8
  <2>. QED
    BY <2>1, <2>2, Zenon
<1>13. v = c * bb + f * dd
  <2>1. (d1 * D + d2) * dd = (d1 * D + e) * dd + f * dd
    BY <1>1, <1>5, <1>8
  <2>. QED
    BY <1>7, <1>12, <2>1, Zenon
<1>14. b1 = c
  <2>1. v \div bb = b1
    BY <1>1, <1>3, <1>11, DivMod DEF Under
  <2>2. v \div bb = c
    BY <1>1, <1>8, <1>10, <1>13, DivMod DEF Under
  <2>. QED
    BY <2>1, <2>2, Zenon
<1>15. Commands!Joined(b1, 0, 0) = Commands!Merged(d1, e, 0, 0)
  <2>1. c * bb + 0 = c * bb
    BY <1>4
  <2>. QED
    BY <1>4, <1>7, <1>12, <1>14, <2>1, Zenon
<1>16. DigitsOf(Commands!Joined(b1, 0, 0), d1, e, 0, 0)
  BY <1>0, <1>9, <1>15, AreDigits, Zenon
<1>. QED
  BY <1>2, <1>16, Zenon DEF v

\* Three digits, of two bytes.
LEMMA TwoBack ==
  ASSUME NEW d1, NEW d2, NEW d3, Under(D, d1), Under(D, d2), Under(D, d3)
  PROVE  \E b1, b2, b3, e : /\ BytesOf(Commands!Merged(d1, d2, d3, 0), b1, b2, b3)
                            /\ DigitsOf(Commands!Joined(b1, b2, 0), d1, d2, e, 0)
<1> DEFINE r == Radix
           r2 == r * r
           q == d3 \div r
           f == d3 % r
           e == q * r
           x == d1 * D + d2
           u == x * r2 + q
           dd == D * D
           bb == B * B
           v == Commands!Merged(d1, d2, d3, 0)
<1>0. dd = D * D /\ bb = B * B /\ Under(D, 0) /\ Under(B, 0) /\ x = d1 * D + d2 /\ u = x * r2 + q
  BY Sizes
<1>1. /\ r2 \in Nat \ {0} /\ r2 \in Nat /\ r \in Nat \ {0} /\ r \in Nat /\ D \in Nat \ {0} /\ D \in Nat
      /\ B \in Nat \ {0} /\ B \in Nat /\ x \in Nat
      /\ d1 \in Nat /\ d2 \in Nat /\ d3 \in Nat /\ D = r2 * r /\ B = r * D /\ bb = dd * r2
      /\ dd \in Nat
  <2>1. dd \in Nat /\ d1 \in Nat /\ d2 \in Nat /\ d3 \in Nat
    BY Parts, Sizes DEF Under
  <2>2. D \in Nat /\ x \in Nat
    BY <2>1, Parts
  <2>. QED
    BY <2>1, <2>2, Parts, Sizes
<1>2. PICK b1, b2, b3 : BytesOf(v, b1, b2, b3)
  BY <1>0, HaveBytes, Zenon
<1>3. Under(r, f) /\ Under(r2, q) /\ d3 = e + f
  <2>1. Under(r2 * r, d3)
    BY <1>1, Zenon
  <2> HIDE DEF r, r2
  <2>. QED
    BY <1>1, <2>1, Sum
<1>4. e = q * r /\ e = q * r + 0 /\ q \in Nat /\ f \in Nat /\ e \in Nat /\ u \in Nat
  <2>1. q \in Nat /\ f \in Nat
    BY <1>1, <1>3 DEF Under
  <2> HIDE DEF q, f, x, r2
  <2>. QED
    BY <1>1, <2>1
<1>5. v = FourPlaces(D, d1, d2, d3, 0) /\ Commands!Merged(d1, d2, e, 0) = FourPlaces(D, d1, d2, e, 0)
  BY PlacesAre, Zenon
<1> HIDE DEF r, r2, q, f, e, u, x, dd, bb, v, D, B
<1>6. v = (x * D + d3) * D /\ Commands!Merged(d1, d2, e, 0) = (x * D + e) * D
  <2>1. \A k \in Nat : FourPlaces(D, d1, d2, k, 0) = (x * D + k) * D + 0
    BY <1>0, Zenon DEF FourPlaces
  <2>2. \A k \in Nat : (x * D + k) * D + 0 = (x * D + k) * D
    BY <1>1
  <2>. QED
    BY <1>1, <1>4, <1>5, <2>1, <2>2, Zenon
<1>7. Under(D, e)
  <2>1. r \in Nat /\ r2 \in Nat /\ Under(r2, q) /\ Under(r, 0) /\ D = r2 * r /\ e = q * r + 0
    BY <1>1, <1>3, <1>4 DEF Under
  <2>. QED
    BY <2>1, SumUnder, Zenon
<1>8. Under(B, f * D)
  <2>1. r \in Nat /\ D \in Nat /\ Under(r, f) /\ Under(D, 0) /\ B = r * D /\ f * D = f * D + 0
    BY <1>0, <1>1, <1>3, <1>4 DEF Under
  <2>. QED
    BY <2>1, SumUnder, ZenonT(60)
<1>9. u * B = (x * D + e) * D
  <2>1. u * r = x * D + e
    BY <1>0, <1>1, <1>4
  <2>2. u * B = (u * r) * D
    BY <1>1, <1>4
  <2>. QED
    BY <2>1, <2>2, Zenon
<1>10. v = u * B + f * D
  <2>1. (x * D + d3) * D = (x * D + e) * D + f * D
    BY <1>1, <1>3, <1>4
  <2>. QED
    BY <1>6, <1>9, <2>1, Zenon
<1>11. v = (b1 * B + b2) * B + b3 /\ Under(B, b1) /\ Under(B, b2) /\ Under(B, b3)
  <2>0. Commands!Joined(b1, b2, b3) = ThreePlaces(B, b1, b2, b3)
    BY PlacesAre, Zenon
  <2>1. Commands!Joined(b1, b2, b3) = (b1 * B + b2) * B + b3
    BY <2>0, Zenon DEF ThreePlaces
  <2>. QED
    BY <1>2, <2>1, Zenon DEF BytesOf
<1>12. b1 * B + b2 = u
  <2> DEFINE y == b1 * B + b2
  <2>1. y \in Nat /\ v = y * B + b3
    BY <1>1, <1>11 DEF Under
  <2> HIDE DEF y
  <2>2. v \div B = y
    BY <1>1, <1>11, <2>1, DivMod DEF Under
  <2>3. v \div B = u
    BY <1>1, <1>4, <1>8, <1>10, DivMod DEF Under
  <2>. QED
    BY <2>2, <2>3, Zenon DEF y
<1>13. Commands!Joined(b1, b2, 0) = u * B
  <2>0. Commands!Joined(b1, b2, 0) = ThreePlaces(B, b1, b2, 0)
    BY PlacesAre, Zenon
  <2>1. Commands!Joined(b1, b2, 0) = (b1 * B + b2) * B + 0
    BY <2>0, Zenon DEF ThreePlaces
  <2>2. u * B + 0 = u * B
    BY <1>1, <1>4
  <2>. QED
    BY <1>12, <2>1, <2>2, Zenon
<1>14. Commands!Joined(b1, b2, 0) = Commands!Merged(d1, d2, e, 0)
  BY <1>6, <1>9, <1>13, Zenon
<1>15. DigitsOf(Commands!Joined(b1, b2, 0), d1, d2, e, 0)
  BY <1>0, <1>7, <1>14, AreDigits, Zenon
<1>. QED
  BY <1>2, <1>15, Zenon DEF v

-----------------------------------------------------------------------------
(* What is written: groups of three bytes as quads of four symbols. *)

Pad == Commands!Pad

\* Items of a list behind the first i.
Four(e, i, d1, d2, d3, d4) == e[i + 1] = d1 /\ e[i + 2] = d2 /\ e[i + 3] = d3 /\ e[i + 4] = d4
Three(data, i, b1, b2, b3) == data[i + 1] = b1 /\ data[i + 2] = b2 /\ data[i + 3] = b3

LEMMA PadIs == Pad = D /\ Pad \in Nat /\ Pad % D = 0 /\ ~Under(D, Pad)
<1>1. D \in Nat \ {0}
  BY Sizes
<1>2. Pad = D
  BY DEF Pad, D, Commands!Pad
<1> HIDE DEF Pad, D
<1>. QED
  BY <1>1, <1>2 DEF Under

LEMMA DigitIs ==
  ASSUME NEW d, Under(D, d)
  PROVE  d \in Nat /\ d % D = d /\ d # Pad
<1>1. D \in Nat \ {0}
  BY Sizes
<1> HIDE DEF D, Pad
<1>2. d \in 0 .. D - 1 /\ Pad = D
  BY PadIs DEF Under
<1>3. d = 0 * D + d
  BY <1>1, <1>2
<1>4. d % D = d
  BY <1>1, <1>2, <1>3, DivMod
<1>. QED
  BY <1>1, <1>2, <1>4

\* The bytes of a quad, without padding or with it.
LEMMA QuadOfFour ==
  ASSUME NEW c, NEW d1, NEW d2, NEW d3, NEW d4, NEW b1, NEW b2, NEW b3,
         Under(D, d1), Under(D, d2), Under(D, d3), Under(D, d4), Four(c, 0, d1, d2, d3, d4),
         BytesOf(Commands!Merged(d1, d2, d3, d4), b1, b2, b3)
  PROVE  LET bytes == Commands!QuadBytes(c)
         IN  bytes \in Seq(Nat) /\ Len(bytes) = 3 /\ bytes[1] = b1 /\ bytes[2] = b2 /\ bytes[3] = b3
<1>1. c[1] = d1 /\ c[2] = d2 /\ c[3] = d3 /\ c[4] = d4
  BY DEF Four
<1>2. d1 % D = d1 /\ d2 % D = d2 /\ d3 % D = d3 /\ d4 % D = d4 /\ d3 # Pad /\ d4 # Pad
  BY DigitIs, Zenon
<1>3. Commands!Triple(Commands!Merged(c[1] % D, c[2] % D, c[3] % D, c[4] % D)) = <<b1, b2, b3>>
  BY <1>1, <1>2, Zenon DEF BytesOf
<1> DEFINE t == Commands!Triple(Commands!Merged(c[1] % D, c[2] % D, c[3] % D, c[4] % D))
<1>4. Commands!QuadBytes(c) = <<t[1]>> \o (IF c[3] = Pad THEN <<>> ELSE <<t[2]>>)
                                       \o (IF c[4] = Pad THEN <<>> ELSE <<t[3]>>)
  BY Zenon DEF Commands!QuadBytes, D, Pad
<1> HIDE DEF t
<1>5. t = <<b1, b2, b3>>
  BY <1>3 DEF t
<1>6. t[1] = b1 /\ t[2] = b2 /\ t[3] = b3
  BY <1>5
<1>7. Commands!QuadBytes(c) = <<b1>> \o <<b2>> \o <<b3>>
  BY <1>1, <1>2, <1>4, <1>6, Zenon
<1>8. b1 \in Nat /\ b2 \in Nat /\ b3 \in Nat
  BY DEF BytesOf, Under
<1> DEFINE s == <<b1>> \o <<b2>> \o <<b3>>
<1>9. s \in Seq(Nat) /\ Len(s) = 3 /\ s[1] = b1 /\ s[2] = b2 /\ s[3] = b3
  BY <1>8
<1>. QED
  BY <1>7, <1>9, Zenon

LEMMA QuadOfThree ==
  ASSUME NEW c, NEW d1, NEW d2, NEW d3, NEW b1, NEW b2, NEW b3,
         Under(D, d1), Under(D, d2), Under(D, d3), Four(c, 0, d1, d2, d3, Pad),
         BytesOf(Commands!Merged(d1, d2, d3, 0), b1, b2, b3)
  PROVE  LET bytes == Commands!QuadBytes(c)
         IN  bytes \in Seq(Nat) /\ Len(bytes) = 2 /\ bytes[1] = b1 /\ bytes[2] = b2
<1>1. c[1] = d1 /\ c[2] = d2 /\ c[3] = d3 /\ c[4] = Pad
  BY DEF Four
<1>2. d1 % D = d1 /\ d2 % D = d2 /\ d3 % D = d3 /\ Pad % D = 0 /\ d3 # Pad
  BY DigitIs, PadIs, Zenon
<1>3. Commands!Triple(Commands!Merged(c[1] % D, c[2] % D, c[3] % D, c[4] % D)) = <<b1, b2, b3>>
  BY <1>1, <1>2, Zenon DEF BytesOf
<1> DEFINE t == Commands!Triple(Commands!Merged(c[1] % D, c[2] % D, c[3] % D, c[4] % D))
<1>4. Commands!QuadBytes(c) = <<t[1]>> \o (IF c[3] = Pad THEN <<>> ELSE <<t[2]>>)
                                       \o (IF c[4] = Pad THEN <<>> ELSE <<t[3]>>)
  BY Zenon DEF Commands!QuadBytes, D, Pad
<1> HIDE DEF t
<1>5. t = <<b1, b2, b3>>
  BY <1>3 DEF t
<1>6. t[1] = b1 /\ t[2] = b2
  BY <1>5
<1>7. Commands!QuadBytes(c) = <<b1>> \o <<b2>> \o <<>>
  BY <1>1, <1>2, <1>4, <1>6, Zenon
<1>8. b1 \in Nat /\ b2 \in Nat
  BY DEF BytesOf, Under
<1> DEFINE s == <<b1>> \o <<b2>> \o <<>>
<1>9. s \in Seq(Nat) /\ Len(s) = 2 /\ s[1] = b1 /\ s[2] = b2
  BY <1>8
<1>. QED
  BY <1>7, <1>9, Zenon

LEMMA QuadOfTwo ==
  ASSUME NEW c, NEW d1, NEW d2, NEW b1, NEW b2, NEW b3,
         Under(D, d1), Under(D, d2), Four(c, 0, d1, d2, Pad, Pad),
         BytesOf(Commands!Merged(d1, d2, 0, 0), b1, b2, b3)
  PROVE  LET bytes == Commands!QuadBytes(c)
         IN  bytes \in Seq(Nat) /\ Len(bytes) = 1 /\ bytes[1] = b1
<1>1. c[1] = d1 /\ c[2] = d2 /\ c[3] = Pad /\ c[4] = Pad
  BY DEF Four
<1>2. d1 % D = d1 /\ d2 % D = d2 /\ Pad % D = 0
  BY DigitIs, PadIs, Zenon
<1>3. Commands!Triple(Commands!Merged(c[1] % D, c[2] % D, c[3] % D, c[4] % D)) = <<b1, b2, b3>>
  BY <1>1, <1>2, Zenon DEF BytesOf
<1> DEFINE t == Commands!Triple(Commands!Merged(c[1] % D, c[2] % D, c[3] % D, c[4] % D))
<1>4. Commands!QuadBytes(c) = <<t[1]>> \o (IF c[3] = Pad THEN <<>> ELSE <<t[2]>>)
                                       \o (IF c[4] = Pad THEN <<>> ELSE <<t[3]>>)
  BY Zenon DEF Commands!QuadBytes, D, Pad
<1> HIDE DEF t
<1>5. t = <<b1, b2, b3>>
  BY <1>3 DEF t
<1>6. t[1] = b1 /\ t[2] = b2
  BY <1>5
<1>7. Commands!QuadBytes(c) = <<b1>> \o <<>> \o <<>>
  BY <1>1, <1>2, <1>4, <1>6, Zenon
<1>8. b1 \in Nat
  BY DEF BytesOf, Under
<1> DEFINE s == <<b1>> \o <<>> \o <<>>
<1>9. s \in Seq(Nat) /\ Len(s) = 1 /\ s[1] = b1
  BY <1>8
<1>. QED
  BY <1>7, <1>9, Zenon

\* The four symbols of a quad.
LEMMA QuadIs ==
  ASSUME NEW S, NEW e, NEW g \in Nat, e \in Seq(S), 4 * g + 4 <= Len(e)
  PROVE  Four(SubSeq(e, 4 * (g + 1) - 3, 4 * (g + 1)), 0,
              e[4 * g + 1], e[4 * g + 2], e[4 * g + 3], e[4 * g + 4])
<1> DEFINE c == SubSeq(e, 4 * (g + 1) - 3, 4 * (g + 1))
<1>1. Len(e) \in Nat
  BY LenProperties
<1>2. c[1] = e[4 * g + 1] /\ c[2] = e[4 * g + 2] /\ c[3] = e[4 * g + 3] /\ c[4] = e[4 * g + 4]
  BY <1>1
<1> HIDE DEF c
<1>3. c[0 + 1] = c[1] /\ c[0 + 2] = c[2] /\ c[0 + 3] = c[3] /\ c[0 + 4] = c[4]
  OBVIOUS
<1>. QED
  BY <1>2, <1>3, Zenon DEF Four, c

\* Four digits; and what a text may end in.
NoPad(e, i) ==
  \E d1, d2, d3, d4 : /\ Under(D, d1) /\ Under(D, d2) /\ Under(D, d3) /\ Under(D, d4)
                      /\ Four(e, i, d1, d2, d3, d4)
OnePad(e, i) ==
  \E d1, d2, d3 : Under(D, d1) /\ Under(D, d2) /\ Under(D, d3) /\ Four(e, i, d1, d2, d3, Pad)
TwoPads(e, i) == \E d1, d2 : Under(D, d1) /\ Under(D, d2) /\ Four(e, i, d1, d2, Pad, Pad)

\* Quads of digits, but for the end.
InShape(e, count) ==
  /\ \A g \in Nat : g + 1 < count => NoPad(e, 4 * g)
  /\ \A g \in Nat : g + 1 = count => NoPad(e, 4 * g) \/ OnePad(e, 4 * g) \/ TwoPads(e, 4 * g)

Quads(e, q) == SubSeq(e, 4 * q - 3, 4 * q)

LEMMA QuadShape ==
  ASSUME NEW S, NEW e, NEW g \in Nat, e \in Seq(S), 4 * g + 4 <= Len(e), NEW last \in BOOLEAN
  PROVE  Commands!ValidQuad(Quads(e, g + 1), last)
           <=> \/ NoPad(e, 4 * g)
               \/ last /\ (OnePad(e, 4 * g) \/ TwoPads(e, 4 * g))
<1> DEFINE c == Quads(e, g + 1)
           s1 == e[4 * g + 1]
           s2 == e[4 * g + 2]
           s3 == e[4 * g + 3]
           s4 == e[4 * g + 4]
           Fits(s) == Under(D, s) \/ s = Pad
<1>1. Four(c, 0, s1, s2, s3, s4)
  BY QuadIs, Zenon DEF Quads
<1> HIDE DEF c
<1>2. c[1] = s1 /\ c[2] = s2 /\ c[3] = s3 /\ c[4] = s4
  BY <1>1 DEF Four
<1>3. \A s : s \in Commands!Digit \cup {Commands!Pad} <=> Fits(s)
  BY Zenon DEF Commands!Digit, D, Pad, Under
<1>4. Commands!ValidQuad(c, last) <=>
        /\ \A i \in 1 .. 4 : Fits(c[i])
        /\ c[1] # Pad /\ c[2] # Pad
        /\ ~(c[3] = Pad /\ c[4] # Pad)
        /\ c[3] = Pad \/ c[4] = Pad => last
  BY <1>3, Zenon DEF Commands!ValidQuad, Pad
<1>5. (\A i \in 1 .. 4 : Fits(c[i])) <=> Fits(c[1]) /\ Fits(c[2]) /\ Fits(c[3]) /\ Fits(c[4])
  <2> HIDE DEF Fits
  <2>. QED
    OBVIOUS
<1>6. Commands!ValidQuad(c, last) <=>
        /\ Fits(s1) /\ Fits(s2) /\ Fits(s3) /\ Fits(s4)
        /\ s1 # Pad /\ s2 # Pad
        /\ ~(s3 = Pad /\ s4 # Pad)
        /\ s3 = Pad \/ s4 = Pad => last
  <2> HIDE DEF Fits, s1, s2, s3, s4
  <2>. QED
    BY <1>2, <1>4, <1>5, Zenon
<1>7. ~Under(D, Pad)
  BY PadIs
<1>8. NoPad(e, 4 * g) <=> Under(D, s1) /\ Under(D, s2) /\ Under(D, s3) /\ Under(D, s4)
  BY Zenon DEF NoPad, Four
<1>9. OnePad(e, 4 * g) <=> Under(D, s1) /\ Under(D, s2) /\ Under(D, s3) /\ s4 = Pad
  BY Zenon DEF OnePad, Four
<1>10. TwoPads(e, 4 * g) <=> Under(D, s1) /\ Under(D, s2) /\ s3 = Pad /\ s4 = Pad
  BY Zenon DEF TwoPads, Four
<1> HIDE DEF s1, s2, s3, s4
<1>. QED
  BY <1>6, <1>7, <1>8, <1>9, <1>10, Zenon DEF c

LEMMA ShapeIs ==
  ASSUME NEW S, NEW e, NEW count \in Nat, e \in Seq(S), Len(e) = 4 * count
  PROVE  (\A q \in 1 .. count : Commands!ValidQuad(Quads(e, q), q = count)) <=> InShape(e, count)
<1> DEFINE Shape(g, last) == NoPad(e, 4 * g) \/ (last /\ (OnePad(e, 4 * g) \/ TwoPads(e, 4 * g)))
<1>1. ASSUME NEW g \in Nat, g + 1 <= count
      PROVE  Commands!ValidQuad(Quads(e, g + 1), g + 1 = count) <=> Shape(g, g + 1 = count)
  <2>1. 4 * g + 4 <= Len(e) /\ (g + 1 = count) \in BOOLEAN
    BY <1>1
  <2>. QED
    BY <2>1, QuadShape, Zenon
<1>2. (\A q \in 1 .. count : Commands!ValidQuad(Quads(e, q), q = count))
        <=> \A g \in Nat : g + 1 <= count => Commands!ValidQuad(Quads(e, g + 1), g + 1 = count)
  <2> DEFINE V(q) == Commands!ValidQuad(Quads(e, q), q = count)
  <2> HIDE DEF V
  <2>1. \A q \in 1 .. count : q - 1 \in Nat /\ (q - 1) + 1 = q /\ (q - 1) + 1 <= count
    OBVIOUS
  <2>2. \A g \in Nat : g + 1 <= count => g + 1 \in 1 .. count
    OBVIOUS
  <2>3. (\A q \in 1 .. count : V(q)) <=> \A g \in Nat : g + 1 <= count => V(g + 1)
    BY <2>1, <2>2, Zenon
  <2>. QED
    BY <2>3, Zenon DEF V
<1>3. (\A g \in Nat : g + 1 <= count => Shape(g, g + 1 = count)) <=> InShape(e, count)
  <2>1. \A g \in Nat : g + 1 <= count <=> g + 1 < count \/ g + 1 = count
    OBVIOUS
  <2>2. \A g \in Nat : ~(g + 1 < count /\ g + 1 = count)
    OBVIOUS
  <2>. QED
    BY <2>1, <2>2, Zenon DEF InShape
<1>. QED
  BY <1>1, <1>2, <1>3, Zenon

\* What is read: three bytes of every quad but the last.
DecodedOf(e) ==
  LET count == Len(e) \div 4
  IN  [i \in 1 .. 3 * (count - 1) |-> Commands!QuadBytes(Quads(e, ((i - 1) \div 3) + 1))[((i - 1) % 3) + 1]]
      \o IF count = 0 THEN <<>> ELSE Commands!QuadBytes(Quads(e, count))

LEMMA DecodeIs ==
  ASSUME NEW text
  PROVE  Commands!base64_decode(text) =
           LET e == Commands!Stripped(text) IN
           IF /\ Len(e) <= MaxEncoded /\ Len(e) % 4 = 0
              /\ \A q \in 1 .. Len(e) \div 4 : Commands!ValidQuad(Quads(e, q), q = Len(e) \div 4)
           THEN Commands!Got(DecodedOf(e)) ELSE Commands!Refused
BY Zenon DEF Commands!base64_decode, DecodedOf, Quads

\* The bytes of a quad that is in shape.
LEMMA QuadOf ==
  ASSUME NEW S, NEW e, NEW g \in Nat, e \in Seq(S), 4 * g + 4 <= Len(e),
         NEW d1, NEW d2, NEW d3, NEW d4, Four(e, 4 * g, d1, d2, d3, d4)
  PROVE  Four(Quads(e, g + 1), 0, d1, d2, d3, d4)
BY QuadIs, Zenon DEF Quads, Four

LEMMA NoPadBytes ==
  ASSUME NEW S, NEW e, NEW g \in Nat, e \in Seq(S), 4 * g + 4 <= Len(e), NoPad(e, 4 * g)
  PROVE  LET z == Commands!QuadBytes(Quads(e, g + 1)) IN z \in Seq(Nat) /\ Len(z) = 3
<1>1. PICK d1, d2, d3, d4 : /\ Under(D, d1) /\ Under(D, d2) /\ Under(D, d3) /\ Under(D, d4)
                            /\ Four(e, 4 * g, d1, d2, d3, d4)
  BY Zenon DEF NoPad
<1>2. PICK b1, b2, b3 : BytesOf(Commands!Merged(d1, d2, d3, d4), b1, b2, b3)
  BY <1>1, HaveBytes, Zenon
<1>3. Four(Quads(e, g + 1), 0, d1, d2, d3, d4)
  BY <1>1, QuadOf, Zenon
<1>. QED
  BY <1>1, <1>2, <1>3, QuadOfFour, ZenonT(60)

LEMMA LastBytes ==
  ASSUME NEW S, NEW e, NEW g \in Nat, e \in Seq(S), 4 * g + 4 <= Len(e),
         NoPad(e, 4 * g) \/ OnePad(e, 4 * g) \/ TwoPads(e, 4 * g)
  PROVE  LET z == Commands!QuadBytes(Quads(e, g + 1)) IN z \in Seq(Nat) /\ Len(z) \in 1 .. 3
<1>0. Under(D, 0) /\ 1 \in 1 .. 3 /\ 2 \in 1 .. 3 /\ 3 \in 1 .. 3
  BY Sizes
<1>1. CASE NoPad(e, 4 * g)
  BY <1>0, <1>1, NoPadBytes, Zenon
<1>2. CASE OnePad(e, 4 * g)
  <2>1. PICK d1, d2, d3 : Under(D, d1) /\ Under(D, d2) /\ Under(D, d3) /\ Four(e, 4 * g, d1, d2, d3, Pad)
    BY <1>2, Zenon DEF OnePad
  <2>2. PICK b1, b2, b3 : BytesOf(Commands!Merged(d1, d2, d3, 0), b1, b2, b3)
    BY <1>0, <2>1, HaveBytes, Zenon
  <2>3. Four(Quads(e, g + 1), 0, d1, d2, d3, Pad)
    BY <2>1, QuadOf, Zenon
  <2>. QED
    BY <1>0, <2>1, <2>2, <2>3, QuadOfThree, Zenon
<1>3. CASE TwoPads(e, 4 * g)
  <2>1. PICK d1, d2 : Under(D, d1) /\ Under(D, d2) /\ Four(e, 4 * g, d1, d2, Pad, Pad)
    BY <1>3, Zenon DEF TwoPads
  <2>2. PICK b1, b2, b3 : BytesOf(Commands!Merged(d1, d2, 0, 0), b1, b2, b3)
    BY <1>0, <2>1, HaveBytes, Zenon
  <2>3. Four(Quads(e, g + 1), 0, d1, d2, Pad, Pad)
    BY <2>1, QuadOf, Zenon
  <2>. QED
    BY <1>0, <2>1, <2>2, <2>3, QuadOfTwo, Zenon
<1>. QED
  BY <1>1, <1>2, <1>3

\* The bytes of every quad are in their places.
LEMMA DecodedIs ==
  ASSUME NEW S, NEW e, NEW h \in Nat, e \in Seq(S), Len(e) = 4 * h + 4, InShape(e, h + 1)
  PROVE  LET out == DecodedOf(e)
             z == Commands!QuadBytes(Quads(e, h + 1))
         IN  /\ out \in Seq(Nat) /\ z \in Seq(Nat) /\ Len(z) \in 1 .. 3 /\ Len(out) = 3 * h + Len(z)
             /\ \A g \in Nat : g < h =>
                  LET c == Commands!QuadBytes(Quads(e, g + 1))
                  IN  Three(out, 3 * g, c[1], c[2], c[3])
             /\ \A k \in 1 .. Len(z) : out[3 * h + k] = z[k]
<1> DEFINE At(g) == Commands!QuadBytes(Quads(e, g + 1))
           body == [i \in 1 .. 3 * h |-> At((i - 1) \div 3)[((i - 1) % 3) + 1]]
           z == Commands!QuadBytes(Quads(e, h + 1))
<1>1. \A g \in Nat : g < h => At(g) \in Seq(Nat) /\ Len(At(g)) = 3
  <2> SUFFICES ASSUME NEW g \in Nat, g < h PROVE At(g) \in Seq(Nat) /\ Len(At(g)) = 3
    OBVIOUS
  <2>1. 4 * g + 4 <= Len(e) /\ g + 1 < h + 1
    OBVIOUS
  <2>2. NoPad(e, 4 * g)
    BY <2>1, Zenon DEF InShape
  <2>. QED
    BY <2>1, <2>2, NoPadBytes, Zenon
<1>2. z \in Seq(Nat) /\ Len(z) \in 1 .. 3
  <2>1. 4 * h + 4 <= Len(e) /\ h + 1 = h + 1
    OBVIOUS
  <2>2. NoPad(e, 4 * h) \/ OnePad(e, 4 * h) \/ TwoPads(e, 4 * h)
    BY <2>1, Zenon DEF InShape
  <2>. QED
    BY <2>1, <2>2, LastBytes, Zenon
<1>3. DecodedOf(e) = body \o z
  <2>1. Len(e) \div 4 = h + 1 /\ (h + 1) - 1 = h /\ h + 1 # 0
    OBVIOUS
  <2>. QED
    BY <2>1, Zenon DEF DecodedOf
<1> HIDE DEF At, z
<1>4. \A i \in 1 .. 3 * h : /\ (i - 1) \div 3 \in Nat /\ (i - 1) \div 3 < h
                            /\ ((i - 1) % 3) + 1 \in 1 .. 3
  <2> SUFFICES ASSUME NEW i \in 1 .. 3 * h
               PROVE  /\ (i - 1) \div 3 \in Nat /\ (i - 1) \div 3 < h
                      /\ ((i - 1) % 3) + 1 \in 1 .. 3
    OBVIOUS
  <2> DEFINE j == i - 1
  <2>1. j \in Nat /\ j < 3 * h
    OBVIOUS
  <2> HIDE DEF j
  <2>2. j \div 3 \in Nat /\ j \div 3 < h /\ (j % 3) + 1 \in 1 .. 3
    BY <2>1
  <2>. QED
    BY <2>2 DEF j
<1>5. \A s : s \in Seq(Nat) /\ Len(s) = 3 => \A k \in 1 .. 3 : s[k] \in Nat
  <2> SUFFICES ASSUME NEW s \in Seq(Nat), Len(s) = 3, NEW k \in 1 .. 3 PROVE s[k] \in Nat
    OBVIOUS
  <2>1. s \in [1 .. 3 -> Nat]
    BY LenProperties
  <2>. QED
    BY <2>1
<1>6. \A i \in 1 .. 3 * h : At((i - 1) \div 3)[((i - 1) % 3) + 1] \in Nat
  BY <1>1, <1>4, <1>5, Zenon
<1>7. body \in Seq(Nat) /\ Len(body) = 3 * h
  <2>1. body \in [1 .. 3 * h -> Nat]
    BY <1>6
  <2> HIDE DEF body
  <2>2. body \in Seq(Nat)
    BY <2>1, SeqDef
  <2>3. DOMAIN body = 1 .. Len(body) /\ Len(body) \in Nat
    BY <2>2, LenProperties
  <2>. QED
    BY <2>1, <2>2, <2>3
<1>8. \A g \in Nat : g < h => Three(body, 3 * g, At(g)[1], At(g)[2], At(g)[3])
  <2>1. ASSUME NEW g \in Nat, g < h, NEW k \in 1 .. 3 PROVE body[3 * g + k] = At(g)[k]
    <3>1. /\ 3 * g + k \in 1 .. 3 * h
          /\ ((3 * g + k) - 1) \div 3 = g /\ (((3 * g + k) - 1) % 3) + 1 = k
      BY <2>1
    <3>2. body[3 * g + k] = At(((3 * g + k) - 1) \div 3)[(((3 * g + k) - 1) % 3) + 1]
      BY <3>1
    <3>. QED
      BY <3>1, <3>2, Zenon
  <2>2. 1 \in 1 .. 3 /\ 2 \in 1 .. 3 /\ 3 \in 1 .. 3
    OBVIOUS
  <2>. QED
    BY <2>1, <2>2, Zenon DEF Three
<1> HIDE DEF body
<1>9. /\ body \o z \in Seq(Nat) /\ Len(body \o z) = 3 * h + Len(z)
      /\ \A i \in 1 .. 3 * h : (body \o z)[i] = body[i]
      /\ \A k \in 1 .. Len(z) : (body \o z)[3 * h + k] = z[k]
  <2>1. /\ body \o z \in Seq(Nat) /\ Len(body \o z) = Len(body) + Len(z)
        /\ \A i \in 1 .. Len(body) + Len(z) : (body \o z)[i] = IF i <= Len(body) THEN body[i] ELSE z[i - Len(body)]
    BY <1>2, <1>7, ConcatProperties
  <2> DEFINE s == body \o z
  <2> HIDE DEF s
  <2>2. ASSUME NEW i \in 1 .. 3 * h PROVE s[i] = body[i]
    BY <1>2, <1>7, <2>1 DEF s
  <2>3. ASSUME NEW k \in 1 .. Len(z) PROVE s[3 * h + k] = z[k]
    <3>1. 3 * h + k \in 1 .. Len(body) + Len(z) /\ ~(3 * h + k <= Len(body)) /\ (3 * h + k) - Len(body) = k
      BY <1>2, <1>7
    <3>. QED
      BY <2>1, <3>1, Zenon DEF s
  <2>. QED
    BY <1>7, <2>1, <2>2, <2>3, Zenon DEF s
<1>10. \A g \in Nat : g < h => Three(body \o z, 3 * g, At(g)[1], At(g)[2], At(g)[3])
  <2> SUFFICES ASSUME NEW g \in Nat, g < h PROVE Three(body \o z, 3 * g, At(g)[1], At(g)[2], At(g)[3])
    OBVIOUS
  <2>1. 3 * g + 1 \in 1 .. 3 * h /\ 3 * g + 2 \in 1 .. 3 * h /\ 3 * g + 3 \in 1 .. 3 * h
    OBVIOUS
  <2>. QED
    BY <1>8, <1>9, <2>1, Zenon DEF Three
<1>. QED
  BY <1>2, <1>3, <1>9, <1>10, Zenon DEF At, z

\* A group of three bytes, the last one filled up with zeros, and what is left of the last.
ByteAt(data, i) == IF i <= Len(data) THEN data[i] ELSE 0
GroupOf(data, g) ==
  Commands!Quad(Commands!Joined(ByteAt(data, 3 * g + 1), ByteAt(data, 3 * g + 2), ByteAt(data, 3 * g + 3)))
TailOf(data) ==
  LET full == Len(data) \div 3 IN
  CASE Len(data) % 3 = 0 -> <<>>
    [] Len(data) % 3 = 1 -> SubSeq(GroupOf(data, full), 1, 2) \o <<Pad, Pad>>
    [] OTHER -> SubSeq(GroupOf(data, full), 1, 3) \o <<Pad>>

LEMMA EncodeIs ==
  ASSUME NEW data
  PROVE  Commands!base64_encode(data) =
           [i \in 1 .. 4 * (Len(data) \div 3) |-> GroupOf(data, (i - 1) \div 4)[((i - 1) % 4) + 1]]
           \o TailOf(data)
BY Zenon DEF Commands!base64_encode, TailOf, GroupOf, ByteAt, Pad

\* The quad of the group behind the first i bytes.
Encodes(data, i, d1, d2, d3, d4) == DigitsOf(Commands!Joined(data[i + 1], data[i + 2], data[i + 3]), d1, d2, d3, d4)

IsBytes(data) == \A i \in 1 .. Len(data) : Under(B, data[i])

LEMMA WholeGroup ==
  ASSUME NEW S, NEW data \in Seq(S), IsBytes(data), NEW g \in Nat, 3 * g + 3 <= Len(data)
  PROVE  \E d1, d2, d3, d4 : Encodes(data, 3 * g, d1, d2, d3, d4) /\ GroupOf(data, g) = <<d1, d2, d3, d4>>
<1>1. Len(data) \in Nat
  BY LenProperties
<1>2. /\ 3 * g + 1 \in 1 .. Len(data) /\ 3 * g + 2 \in 1 .. Len(data) /\ 3 * g + 3 \in 1 .. Len(data)
      /\ 3 * g + 1 <= Len(data) /\ 3 * g + 2 <= Len(data) /\ 3 * g + 3 <= Len(data)
  BY <1>1
<1>3. GroupOf(data, g) = Commands!Quad(Commands!Joined(data[3 * g + 1], data[3 * g + 2], data[3 * g + 3]))
  BY <1>2, Zenon DEF GroupOf, ByteAt
<1>4. Under(B, data[3 * g + 1]) /\ Under(B, data[3 * g + 2]) /\ Under(B, data[3 * g + 3])
  BY <1>2, Zenon DEF IsBytes
<1>5. PICK d1, d2, d3, d4 : Encodes(data, 3 * g, d1, d2, d3, d4)
  BY <1>4, HaveDigits, Zenon DEF Encodes
<1>. QED
  BY <1>3, <1>5, Zenon DEF Encodes, DigitsOf

LEMMA OneLeft ==
  ASSUME NEW S, NEW data \in Seq(S), IsBytes(data), NEW g \in Nat, 3 * g + 1 = Len(data)
  PROVE  \E d1, d2 : /\ DigitsOf(Commands!Joined(data[3 * g + 1], 0, 0), d1, d2, 0, 0)
                     /\ GroupOf(data, g) = <<d1, d2, 0, 0>>
<1>1. 3 * g + 1 \in 1 .. Len(data) /\ 3 * g + 1 <= Len(data) /\ ~(3 * g + 2 <= Len(data)) /\ ~(3 * g + 3 <= Len(data))
  OBVIOUS
<1>2. GroupOf(data, g) = Commands!Quad(Commands!Joined(data[3 * g + 1], 0, 0))
  BY <1>1, Zenon DEF GroupOf, ByteAt
<1>3. Under(B, data[3 * g + 1])
  BY <1>1, Zenon DEF IsBytes
<1>. QED
  BY <1>2, <1>3, OneByte, Zenon DEF DigitsOf

LEMMA TwoLeft ==
  ASSUME NEW S, NEW data \in Seq(S), IsBytes(data), NEW g \in Nat, 3 * g + 2 = Len(data)
  PROVE  \E d1, d2, d3 : /\ DigitsOf(Commands!Joined(data[3 * g + 1], data[3 * g + 2], 0), d1, d2, d3, 0)
                         /\ GroupOf(data, g) = <<d1, d2, d3, 0>>
<1>1. /\ 3 * g + 1 \in 1 .. Len(data) /\ 3 * g + 2 \in 1 .. Len(data)
      /\ 3 * g + 1 <= Len(data) /\ 3 * g + 2 <= Len(data) /\ ~(3 * g + 3 <= Len(data))
  OBVIOUS
<1>2. GroupOf(data, g) = Commands!Quad(Commands!Joined(data[3 * g + 1], data[3 * g + 2], 0))
  BY <1>1, Zenon DEF GroupOf, ByteAt
<1>3. Under(B, data[3 * g + 1]) /\ Under(B, data[3 * g + 2])
  BY <1>1, Zenon DEF IsBytes
<1>. QED
  BY <1>2, <1>3, TwoBytes, Zenon DEF DigitsOf

\* The text ends as the bytes do.
Tailed(data, h, tail) ==
  /\ tail \in Seq(Nat)
  /\ 3 * h = Len(data) => Len(tail) = 0
  /\ 3 * h + 1 = Len(data) =>
       Len(tail) = 4 /\ \E d1, d2 : /\ DigitsOf(Commands!Joined(data[3 * h + 1], 0, 0), d1, d2, 0, 0)
                                    /\ Four(tail, 0, d1, d2, Pad, Pad)
  /\ 3 * h + 2 = Len(data) =>
       Len(tail) = 4 /\ \E d1, d2, d3 : /\ DigitsOf(Commands!Joined(data[3 * h + 1], data[3 * h + 2], 0), d1, d2, d3, 0)
                                        /\ Four(tail, 0, d1, d2, d3, Pad)

LEMMA TailIs ==
  ASSUME NEW S, NEW data \in Seq(S), IsBytes(data), NEW h \in Nat, h = Len(data) \div 3
  PROVE  Tailed(data, h, TailOf(data))
<1>0. Len(data) \in Nat /\ Pad \in Nat
  BY LenProperties, PadIs
<1>1. CASE 3 * h = Len(data)
  <2>1. Len(data) % 3 = 0 /\ 3 * h + 1 # Len(data) /\ 3 * h + 2 # Len(data)
    BY <1>1
  <2>2. TailOf(data) = <<>>
    BY <2>1 DEF TailOf
  <2>3. <<>> \in Seq(Nat) /\ Len(<<>>) = 0
    OBVIOUS
  <2>. QED
    BY <2>1, <2>2, <2>3, Zenon DEF Tailed
<1>2. CASE 3 * h + 1 = Len(data)
  <2>1. Len(data) % 3 = 1 /\ Len(data) % 3 # 0 /\ 3 * h # Len(data) /\ 3 * h + 2 # Len(data)
    BY <1>2
  <2>2. PICK d1, d2 : /\ DigitsOf(Commands!Joined(data[3 * h + 1], 0, 0), d1, d2, 0, 0)
                      /\ GroupOf(data, h) = <<d1, d2, 0, 0>>
    BY <1>2, OneLeft
  <2>3. TailOf(data) = SubSeq(<<d1, d2, 0, 0>>, 1, 2) \o <<Pad, Pad>>
    BY <2>1, <2>2 DEF TailOf
  <2>4. d1 \in Nat /\ d2 \in Nat
    BY <2>2 DEF DigitsOf, Under
  <2> DEFINE t == SubSeq(<<d1, d2, 0, 0>>, 1, 2) \o <<Pad, Pad>>
  <2>5. t \in Seq(Nat) /\ Len(t) = 4 /\ t[0 + 1] = d1 /\ t[0 + 2] = d2 /\ t[0 + 3] = Pad /\ t[0 + 4] = Pad
    BY <1>0, <2>4
  <2>. QED
    BY <1>2, <2>1, <2>2, <2>3, <2>5, Zenon DEF Tailed, Four
<1>3. CASE 3 * h + 2 = Len(data)
  <2>1. Len(data) % 3 = 2 /\ Len(data) % 3 # 1 /\ Len(data) % 3 # 0 /\ 3 * h # Len(data) /\ 3 * h + 1 # Len(data)
    BY <1>3
  <2>2. PICK d1, d2, d3 : /\ DigitsOf(Commands!Joined(data[3 * h + 1], data[3 * h + 2], 0), d1, d2, d3, 0)
                          /\ GroupOf(data, h) = <<d1, d2, d3, 0>>
    BY <1>3, TwoLeft
  <2>3. TailOf(data) = SubSeq(<<d1, d2, d3, 0>>, 1, 3) \o <<Pad>>
    BY <2>1, <2>2 DEF TailOf
  <2>4. d1 \in Nat /\ d2 \in Nat /\ d3 \in Nat
    BY <2>2 DEF DigitsOf, Under
  <2> DEFINE t == SubSeq(<<d1, d2, d3, 0>>, 1, 3) \o <<Pad>>
  <2>5. t \in Seq(Nat) /\ Len(t) = 4 /\ t[0 + 1] = d1 /\ t[0 + 2] = d2 /\ t[0 + 3] = d3 /\ t[0 + 4] = Pad
    BY <1>0, <2>4
  <2>. QED
    BY <1>3, <2>1, <2>2, <2>3, <2>5, Zenon DEF Tailed, Four
<1>4. 3 * h = Len(data) \/ 3 * h + 1 = Len(data) \/ 3 * h + 2 = Len(data)
  BY <1>0
<1>. QED
  BY <1>1, <1>2, <1>3, <1>4

\* The symbols of every group are in their places.
LEMMA EncodedIs ==
  ASSUME NEW S, NEW data \in Seq(S), IsBytes(data), NEW h \in Nat, h = Len(data) \div 3
  PROVE  LET e == Commands!base64_encode(data)
             tail == TailOf(data)
         IN  /\ e \in Seq(Nat) /\ tail \in Seq(Nat) /\ Len(e) = 4 * h + Len(tail)
             /\ \A g \in Nat : g < h =>
                  \E d1, d2, d3, d4 : Encodes(data, 3 * g, d1, d2, d3, d4) /\ Four(e, 4 * g, d1, d2, d3, d4)
             /\ \A d1, d2, d3, d4 : Len(tail) = 4 /\ Four(tail, 0, d1, d2, d3, d4) => Four(e, 4 * h, d1, d2, d3, d4)
<1> DEFINE At(g) == GroupOf(data, g)
           body == [i \in 1 .. 4 * h |-> At((i - 1) \div 4)[((i - 1) % 4) + 1]]
           z == TailOf(data)
<1>0. Len(data) \in Nat
  BY LenProperties
<1>1. \A g \in Nat : g < h =>
        \E d1, d2, d3, d4 : Encodes(data, 3 * g, d1, d2, d3, d4) /\ At(g) = <<d1, d2, d3, d4>>
  <2> SUFFICES ASSUME NEW g \in Nat, g < h
               PROVE  \E d1, d2, d3, d4 : Encodes(data, 3 * g, d1, d2, d3, d4) /\ At(g) = <<d1, d2, d3, d4>>
    OBVIOUS
  <2>1. 3 * g + 3 <= Len(data)
    BY <1>0
  <2>. QED
    BY <2>1, WholeGroup
<1>2. z \in Seq(Nat) /\ Len(z) \in Nat
  <2>1. z \in Seq(Nat)
    BY TailIs, Zenon DEF Tailed
  <2> HIDE DEF z
  <2>. QED
    BY <2>1, LenProperties
<1>3. Commands!base64_encode(data) = body \o z
  BY EncodeIs, Zenon
<1> HIDE DEF At, z
<1>4. \A i \in 1 .. 4 * h : /\ (i - 1) \div 4 \in Nat /\ (i - 1) \div 4 < h
                            /\ ((i - 1) % 4) + 1 \in 1 .. 4
  <2> SUFFICES ASSUME NEW i \in 1 .. 4 * h
               PROVE  /\ (i - 1) \div 4 \in Nat /\ (i - 1) \div 4 < h
                      /\ ((i - 1) % 4) + 1 \in 1 .. 4
    OBVIOUS
  <2> DEFINE j == i - 1
  <2>1. j \in Nat /\ j < 4 * h
    OBVIOUS
  <2> HIDE DEF j
  <2>2. j \div 4 \in Nat /\ j \div 4 < h /\ (j % 4) + 1 \in 1 .. 4
    BY <2>1
  <2>. QED
    BY <2>2 DEF j
<1>5. \A g \in Nat : g < h => \A k \in 1 .. 4 : At(g)[k] \in Nat
  <2> SUFFICES ASSUME NEW g \in Nat, g < h PROVE \A k \in 1 .. 4 : At(g)[k] \in Nat
    OBVIOUS
  <2>1. PICK d1, d2, d3, d4 : Encodes(data, 3 * g, d1, d2, d3, d4) /\ At(g) = <<d1, d2, d3, d4>>
    BY <1>1, Zenon
  <2>2. d1 \in Nat /\ d2 \in Nat /\ d3 \in Nat /\ d4 \in Nat
    BY <2>1 DEF Encodes, DigitsOf, Under
  <2>. QED
    BY <2>1, <2>2
<1>6. \A i \in 1 .. 4 * h : At((i - 1) \div 4)[((i - 1) % 4) + 1] \in Nat
  BY <1>4, <1>5, Zenon
<1>7. body \in Seq(Nat) /\ Len(body) = 4 * h
  <2>1. body \in [1 .. 4 * h -> Nat]
    BY <1>6
  <2> HIDE DEF body
  <2>2. body \in Seq(Nat)
    BY <2>1, SeqDef
  <2>3. DOMAIN body = 1 .. Len(body) /\ Len(body) \in Nat
    BY <2>2, LenProperties
  <2>. QED
    BY <2>1, <2>2, <2>3
<1>8. \A g \in Nat : g < h => Four(body, 4 * g, At(g)[1], At(g)[2], At(g)[3], At(g)[4])
  <2>1. ASSUME NEW g \in Nat, g < h, NEW k \in 1 .. 4 PROVE body[4 * g + k] = At(g)[k]
    <3>1. /\ 4 * g + k \in 1 .. 4 * h
          /\ ((4 * g + k) - 1) \div 4 = g /\ (((4 * g + k) - 1) % 4) + 1 = k
      BY <2>1
    <3>2. body[4 * g + k] = At(((4 * g + k) - 1) \div 4)[(((4 * g + k) - 1) % 4) + 1]
      BY <3>1
    <3>. QED
      BY <3>1, <3>2, Zenon
  <2>2. 1 \in 1 .. 4 /\ 2 \in 1 .. 4 /\ 3 \in 1 .. 4 /\ 4 \in 1 .. 4
    OBVIOUS
  <2>. QED
    BY <2>1, <2>2, Zenon DEF Four
<1> HIDE DEF body
<1>9. /\ body \o z \in Seq(Nat) /\ Len(body \o z) = 4 * h + Len(z)
      /\ \A i \in 1 .. 4 * h : (body \o z)[i] = body[i]
      /\ \A k \in 1 .. Len(z) : (body \o z)[4 * h + k] = z[k]
  <2>1. /\ body \o z \in Seq(Nat) /\ Len(body \o z) = Len(body) + Len(z)
        /\ \A i \in 1 .. Len(body) + Len(z) : (body \o z)[i] = IF i <= Len(body) THEN body[i] ELSE z[i - Len(body)]
    BY <1>2, <1>7, ConcatProperties
  <2> DEFINE s == body \o z
  <2> HIDE DEF s
  <2>2. ASSUME NEW i \in 1 .. 4 * h PROVE s[i] = body[i]
    BY <1>2, <1>7, <2>1 DEF s
  <2>3. ASSUME NEW k \in 1 .. Len(z) PROVE s[4 * h + k] = z[k]
    <3>1. 4 * h + k \in 1 .. Len(body) + Len(z) /\ ~(4 * h + k <= Len(body)) /\ (4 * h + k) - Len(body) = k
      BY <1>2, <1>7
    <3>. QED
      BY <2>1, <3>1, Zenon DEF s
  <2>. QED
    BY <1>7, <2>1, <2>2, <2>3, Zenon DEF s
<1>10. ASSUME NEW g \in Nat, g < h
       PROVE  \E d1, d2, d3, d4 : Encodes(data, 3 * g, d1, d2, d3, d4) /\ Four(body \o z, 4 * g, d1, d2, d3, d4)
  <2>1. /\ 4 * g + 1 \in 1 .. 4 * h /\ 4 * g + 2 \in 1 .. 4 * h /\ 4 * g + 3 \in 1 .. 4 * h
        /\ 4 * g + 4 \in 1 .. 4 * h
    BY <1>10
  <2>2. Four(body \o z, 4 * g, At(g)[1], At(g)[2], At(g)[3], At(g)[4])
    BY <1>8, <1>9, <1>10, <2>1, Zenon DEF Four
  <2>3. PICK d1, d2, d3, d4 : Encodes(data, 3 * g, d1, d2, d3, d4) /\ At(g) = <<d1, d2, d3, d4>>
    BY <1>1, <1>10, Zenon
  <2>4. At(g)[1] = d1 /\ At(g)[2] = d2 /\ At(g)[3] = d3 /\ At(g)[4] = d4
    BY <2>3
  <2>. QED
    BY <2>2, <2>3, <2>4, Zenon
<1>11. ASSUME NEW d1, NEW d2, NEW d3, NEW d4, Len(z) = 4, Four(z, 0, d1, d2, d3, d4)
       PROVE  Four(body \o z, 4 * h, d1, d2, d3, d4)
  <2>1. z[1] = d1 /\ z[2] = d2 /\ z[3] = d3 /\ z[4] = d4
    BY <1>11 DEF Four
  <2>2. 1 \in 1 .. Len(z) /\ 2 \in 1 .. Len(z) /\ 3 \in 1 .. Len(z) /\ 4 \in 1 .. Len(z)
    BY <1>11
  <2>. QED
    BY <1>9, <2>1, <2>2, Zenon DEF Four
<1>. QED
  BY <1>2, <1>3, <1>9, <1>10, <1>11, Zenon DEF z

\* A group reads back from its quad, which has as much padding as the group is short.
LEMMA GroupBack ==
  ASSUME NEW S, NEW data \in Seq(S), IsBytes(data), NEW g \in Nat, 3 * g + 1 <= Len(data)
  PROVE  LET e == Commands!base64_encode(data)
             c == Commands!QuadBytes(Quads(e, g + 1))
         IN  /\ e \in Seq(Nat) /\ 4 * g + 4 <= Len(e)
             /\ \/ /\ 3 * g + 3 <= Len(data) /\ NoPad(e, 4 * g) /\ Len(c) = 3
                   /\ c[1] = data[3 * g + 1] /\ c[2] = data[3 * g + 2] /\ c[3] = data[3 * g + 3]
                \/ /\ 3 * g + 2 = Len(data) /\ OnePad(e, 4 * g) /\ Len(c) = 2
                   /\ c[1] = data[3 * g + 1] /\ c[2] = data[3 * g + 2]
                \/ /\ 3 * g + 1 = Len(data) /\ TwoPads(e, 4 * g) /\ Len(c) = 1
                   /\ c[1] = data[3 * g + 1]
<1> DEFINE e == Commands!base64_encode(data)
           tail == TailOf(data)
           h == Len(data) \div 3
           c == Commands!QuadBytes(Quads(e, g + 1))
<1>0. Len(data) \in Nat /\ h \in Nat
  <2>1. Len(data) \in Nat
    BY LenProperties
  <2>. QED
    BY <2>1
<1>1. /\ e \in Seq(Nat) /\ tail \in Seq(Nat) /\ Len(e) = 4 * h + Len(tail)
      /\ \A i \in Nat : i < h =>
           \E d1, d2, d3, d4 : Encodes(data, 3 * i, d1, d2, d3, d4) /\ Four(e, 4 * i, d1, d2, d3, d4)
      /\ \A d1, d2, d3, d4 : Len(tail) = 4 /\ Four(tail, 0, d1, d2, d3, d4) => Four(e, 4 * h, d1, d2, d3, d4)
  BY <1>0, EncodedIs, Zenon
<1>2. Tailed(data, h, tail)
  BY <1>0, TailIs, Zenon
<1>3. Len(tail) \in Nat /\ Len(e) \in Nat
  BY <1>1, LenProperties, Zenon
<1>4. Under(B, 0)
  BY Sizes
<1>5. CASE 3 * g + 3 <= Len(data)
  <2>1. g < h
    BY <1>0, <1>5
  <2> HIDE DEF e, h, tail
  <2>2. 4 * g + 4 <= Len(e)
    BY <1>0, <1>1, <1>3, <2>1
  <2>3. PICK d1, d2, d3, d4 : Encodes(data, 3 * g, d1, d2, d3, d4) /\ Four(e, 4 * g, d1, d2, d3, d4)
    BY <1>1, <2>1, Zenon
  <2>4. 3 * g + 1 \in 1 .. Len(data) /\ 3 * g + 2 \in 1 .. Len(data) /\ 3 * g + 3 \in 1 .. Len(data)
    BY <1>0, <1>5
  <2>5. Under(B, data[3 * g + 1]) /\ Under(B, data[3 * g + 2]) /\ Under(B, data[3 * g + 3])
    BY <2>4, Zenon DEF IsBytes
  <2> DEFINE v == Commands!Joined(data[3 * g + 1], data[3 * g + 2], data[3 * g + 3])
  <2>6. BytesOf(v, data[3 * g + 1], data[3 * g + 2], data[3 * g + 3])
    BY <2>5, AreBytes, Zenon
  <2>7. /\ Under(D, d1) /\ Under(D, d2) /\ Under(D, d3) /\ Under(D, d4)
        /\ v = Commands!Merged(d1, d2, d3, d4)
    BY <2>3, Zenon DEF Encodes, DigitsOf
  <2> HIDE DEF v
  <2>8. Four(Quads(e, g + 1), 0, d1, d2, d3, d4)
    BY <1>1, <2>2, <2>3, QuadOf, Zenon
  <2>9. BytesOf(Commands!Merged(d1, d2, d3, d4), data[3 * g + 1], data[3 * g + 2], data[3 * g + 3])
    BY <2>6, <2>7, Zenon
  <2>10. Len(c) = 3 /\ c[1] = data[3 * g + 1] /\ c[2] = data[3 * g + 2] /\ c[3] = data[3 * g + 3]
    <3>1. Under(D, d1) /\ Under(D, d2) /\ Under(D, d3) /\ Under(D, d4)
      BY <2>7, Zenon
    <3>. QED
      BY <3>1, <2>8, <2>9, QuadOfFour
  <2>11. NoPad(e, 4 * g)
    BY <2>3, <2>7, Zenon DEF NoPad
  <2>. QED
    BY <1>1, <1>5, <2>2, <2>10, <2>11, Zenon DEF e
<1>6. CASE 3 * g + 2 = Len(data)
  <2>1. g = h
    BY <1>0, <1>6
  <2> HIDE DEF e, h, tail
  <2>3. PICK d1, d2, d3 : /\ DigitsOf(Commands!Joined(data[3 * g + 1], data[3 * g + 2], 0), d1, d2, d3, 0)
                          /\ Len(tail) = 4 /\ Four(tail, 0, d1, d2, d3, Pad)
    BY <1>2, <1>6, <2>1, Zenon DEF Tailed
  <2>2. 4 * g + 4 <= Len(e) /\ Four(e, 4 * g, d1, d2, d3, Pad)
    <3>1. 4 * g + 4 <= Len(e)
      BY <1>0, <1>1, <2>1, <2>3
    <3>2. Four(e, 4 * h, d1, d2, d3, Pad)
      BY <1>1, <2>3, Zenon
    <3>. QED
      BY <2>1, <3>1, <3>2, Zenon
  <2>4. 3 * g + 1 \in 1 .. Len(data) /\ 3 * g + 2 \in 1 .. Len(data)
    BY <1>0, <1>6
  <2>5. Under(B, data[3 * g + 1]) /\ Under(B, data[3 * g + 2])
    BY <2>4, Zenon DEF IsBytes
  <2>6. BytesOf(Commands!Joined(data[3 * g + 1], data[3 * g + 2], 0), data[3 * g + 1], data[3 * g + 2], 0)
    BY <1>4, <2>5, AreBytes, Zenon
  <2>7. /\ Under(D, d1) /\ Under(D, d2) /\ Under(D, d3)
        /\ Commands!Joined(data[3 * g + 1], data[3 * g + 2], 0) = Commands!Merged(d1, d2, d3, 0)
    BY <2>3, Zenon DEF DigitsOf
  <2>8. Four(Quads(e, g + 1), 0, d1, d2, d3, Pad)
    BY <1>1, <2>2, QuadOf, Zenon
  <2>9. BytesOf(Commands!Merged(d1, d2, d3, 0), data[3 * g + 1], data[3 * g + 2], 0)
    BY <2>6, <2>7, Zenon
  <2>10. Len(c) = 2 /\ c[1] = data[3 * g + 1] /\ c[2] = data[3 * g + 2]
    <3>1. Under(D, d1) /\ Under(D, d2) /\ Under(D, d3)
      BY <2>7, Zenon
    <3>. QED
      BY <3>1, <2>8, <2>9, QuadOfThree
  <2>11. OnePad(e, 4 * g)
    BY <2>2, <2>7, Zenon DEF OnePad
  <2>. QED
    BY <1>1, <1>6, <2>2, <2>10, <2>11, Zenon DEF e
<1>7. CASE 3 * g + 1 = Len(data)
  <2>1. g = h
    BY <1>0, <1>7
  <2> HIDE DEF e, h, tail
  <2>3. PICK d1, d2 : /\ DigitsOf(Commands!Joined(data[3 * g + 1], 0, 0), d1, d2, 0, 0)
                      /\ Len(tail) = 4 /\ Four(tail, 0, d1, d2, Pad, Pad)
    BY <1>2, <1>7, <2>1, Zenon DEF Tailed
  <2>2. 4 * g + 4 <= Len(e) /\ Four(e, 4 * g, d1, d2, Pad, Pad)
    <3>1. 4 * g + 4 <= Len(e)
      BY <1>0, <1>1, <2>1, <2>3
    <3>2. Four(e, 4 * h, d1, d2, Pad, Pad)
      BY <1>1, <2>3, Zenon
    <3>. QED
      BY <2>1, <3>1, <3>2, Zenon
  <2>4. 3 * g + 1 \in 1 .. Len(data)
    BY <1>0, <1>7
  <2>5. Under(B, data[3 * g + 1])
    BY <2>4, Zenon DEF IsBytes
  <2>6. BytesOf(Commands!Joined(data[3 * g + 1], 0, 0), data[3 * g + 1], 0, 0)
    BY <1>4, <2>5, AreBytes, Zenon
  <2>7. /\ Under(D, d1) /\ Under(D, d2)
        /\ Commands!Joined(data[3 * g + 1], 0, 0) = Commands!Merged(d1, d2, 0, 0)
    BY <2>3, Zenon DEF DigitsOf
  <2>8. Four(Quads(e, g + 1), 0, d1, d2, Pad, Pad)
    BY <1>1, <2>2, QuadOf, Zenon
  <2>9. BytesOf(Commands!Merged(d1, d2, 0, 0), data[3 * g + 1], 0, 0)
    BY <2>6, <2>7, Zenon
  <2>10. Len(c) = 1 /\ c[1] = data[3 * g + 1]
    BY <2>7, <2>8, <2>9, QuadOfTwo, Zenon
  <2>11. TwoPads(e, 4 * g)
    BY <2>2, <2>7, Zenon DEF TwoPads
  <2>. QED
    BY <1>1, <1>7, <2>2, <2>10, <2>11, Zenon DEF e
<1>8. 3 * g + 3 <= Len(data) \/ 3 * g + 2 = Len(data) \/ 3 * g + 1 = Len(data)
  BY <1>0
<1>. QED
  BY <1>5, <1>6, <1>7, <1>8, Zenon

\* There are as many quads as groups, begun ones included, and only the last has padding.
LEMMA EncodedShape ==
  ASSUME NEW S, NEW data \in Seq(S), IsBytes(data), NEW count \in Nat, count = (Len(data) + 2) \div 3
  PROVE  LET e == Commands!base64_encode(data)
         IN  e \in Seq(Nat) /\ Len(e) = 4 * count /\ InShape(e, count)
<1> DEFINE e == Commands!base64_encode(data)
           tail == TailOf(data)
           h == Len(data) \div 3
<1>0. Len(data) \in Nat /\ h \in Nat
  <2>1. Len(data) \in Nat
    BY LenProperties
  <2>. QED
    BY <2>1
<1>1. e \in Seq(Nat) /\ Len(e) = 4 * h + Len(tail)
  BY <1>0, EncodedIs, Zenon
<1>2. Tailed(data, h, tail)
  BY <1>0, TailIs, Zenon
<1>3. \/ 3 * h = Len(data) /\ count = h /\ Len(tail) = 0
      \/ 3 * h + 1 = Len(data) /\ count = h + 1 /\ Len(tail) = 4
      \/ 3 * h + 2 = Len(data) /\ count = h + 1 /\ Len(tail) = 4
  <2>1. \/ 3 * h = Len(data) /\ count = h
        \/ 3 * h + 1 = Len(data) /\ count = h + 1
        \/ 3 * h + 2 = Len(data) /\ count = h + 1
    BY <1>0
  <2> HIDE DEF tail, h
  <2>. QED
    BY <1>2, <2>1, Zenon DEF Tailed
<1>4. Len(e) = 4 * count
  <2>1. Len(e) = 4 * h + Len(tail)
    BY <1>1, Zenon
  <2> HIDE DEF e, tail, h
  <2>2. CASE count = h /\ Len(tail) = 0
    BY <1>0, <2>1, <2>2
  <2>3. CASE count = h + 1 /\ Len(tail) = 4
    BY <1>0, <2>1, <2>3
  <2>. QED
    BY <1>3, <2>2, <2>3, Zenon
<1>5. ASSUME NEW g \in Nat, g + 1 < count
      PROVE  NoPad(e, 4 * g)
  <2>1. 3 * g + 1 <= Len(data) /\ 3 * g + 2 # Len(data) /\ 3 * g + 1 # Len(data)
    BY <1>0, <1>5
  <2>. QED
    BY <2>1, GroupBack, Zenon
<1>6. ASSUME NEW g \in Nat, g + 1 = count
      PROVE  NoPad(e, 4 * g) \/ OnePad(e, 4 * g) \/ TwoPads(e, 4 * g)
  <2>1. 3 * g + 1 <= Len(data)
    BY <1>0, <1>6
  <2>. QED
    BY <2>1, GroupBack, Zenon
<1>. QED
  BY <1>1, <1>4, <1>5, <1>6, Zenon DEF InShape

LEMMA NothingDecoded ==
  ASSUME NEW S, NEW e \in Seq(S), Len(e) = 0
  PROVE  DecodedOf(e) = <<>>
<1>1. Len(e) \div 4 = 0
  OBVIOUS
<1>2. DecodedOf(e) = [i \in 1 .. 3 * (0 - 1) |-> Commands!QuadBytes(Quads(e, ((i - 1) \div 3) + 1))[((i - 1) % 3) + 1]]
                     \o <<>>
  BY <1>1, Zenon DEF DecodedOf
<1> DEFINE f == [i \in 1 .. 3 * (0 - 1) |-> Commands!QuadBytes(Quads(e, ((i - 1) \div 3) + 1))[((i - 1) % 3) + 1]]
<1>3. f = <<>>
  <2>1. 1 .. 3 * (0 - 1) = {}
    OBVIOUS
  <2>2. f \in [{} -> Nat]
    BY <2>1
  <2>. QED
    BY <2>1, <2>2
<1> HIDE DEF f
<1>4. <<>> \o <<>> = <<>>
  OBVIOUS
<1>. QED
  BY <1>2, <1>3, <1>4, Zenon DEF f

\* Lists with the same items are the same.
LEMMA SameItems ==
  ASSUME NEW S, NEW T, NEW s \in Seq(S), NEW t \in Seq(T), Len(s) = Len(t), \A i \in 1 .. Len(s) : s[i] = t[i]
  PROVE  s = t
<1>1. s \in [1 .. Len(s) -> S] /\ t \in [1 .. Len(t) -> T]
  BY LenProperties
<1>. QED
  BY <1>1

\* What is decoded of the text of some bytes are these bytes.
LEMMA DecodeEncode ==
  ASSUME NEW S, NEW data \in Seq(S), IsBytes(data)
  PROVE  DecodedOf(Commands!base64_encode(data)) = data
<1> DEFINE e == Commands!base64_encode(data)
           n == Len(data)
           count == (n + 2) \div 3
           out == DecodedOf(e)
<1>0. n \in Nat /\ count \in Nat
  <2>1. n \in Nat
    BY LenProperties
  <2>. QED
    BY <2>1
<1>1. e \in Seq(Nat) /\ Len(e) = 4 * count /\ InShape(e, count)
  BY <1>0, EncodedShape, Zenon
<1>2. CASE n = 0
  <2>1. Len(e) = 0
    BY <1>0, <1>1, <1>2
  <2>2. out = <<>>
    BY <1>1, <2>1, NothingDecoded
  <2>3. data = <<>>
    BY <1>2, EmptySeq
  <2>. QED
    BY <2>2, <2>3
<1>3. CASE n > 0
  <2> DEFINE h == count - 1
             z == Commands!QuadBytes(Quads(e, h + 1))
  <2>1. h \in Nat /\ h + 1 = count /\ 3 * h + 1 <= n /\ n <= 3 * h + 3
    BY <1>0, <1>3
  <2> HIDE DEF e, h, n, out
  <2>2. Len(e) = 4 * h + 4 /\ InShape(e, h + 1)
    <3>1. Len(e) = 4 * h + 4
      BY <1>1, <2>1
    <3>. QED
      BY <1>1, <2>1, <3>1, Zenon
  <2>3. /\ out \in Seq(Nat) /\ z \in Seq(Nat) /\ Len(out) = 3 * h + Len(z)
        /\ \A g \in Nat : g < h =>
             LET c == Commands!QuadBytes(Quads(e, g + 1)) IN Three(out, 3 * g, c[1], c[2], c[3])
        /\ \A k \in 1 .. Len(z) : out[3 * h + k] = z[k]
    <3>1. e \in Seq(Nat) /\ h \in Nat
      BY <1>1, <2>1, Zenon
    <3>. QED
      BY <3>1, <2>2, DecodedIs DEF out
  <2>4. /\ Len(z) = 3 \/ Len(z) = 2 \/ Len(z) = 1
        /\ Len(z) = n - 3 * h
        /\ \A k \in 1 .. Len(z) : z[k] = data[3 * h + k]
    <3>0. \/ /\ 3 * h + 3 <= n /\ Len(z) = 3
             /\ z[1] = data[3 * h + 1] /\ z[2] = data[3 * h + 2] /\ z[3] = data[3 * h + 3]
          \/ /\ 3 * h + 2 = n /\ Len(z) = 2
             /\ z[1] = data[3 * h + 1] /\ z[2] = data[3 * h + 2]
          \/ /\ 3 * h + 1 = n /\ Len(z) = 1
             /\ z[1] = data[3 * h + 1]
      BY <2>1, GroupBack, Zenon DEF e, n
    <3> HIDE DEF z
    <3>1. CASE 3 * h + 3 <= n
      <4>1. /\ Len(z) = 3 /\ Len(z) = n - 3 * h
            /\ z[1] = data[3 * h + 1] /\ z[2] = data[3 * h + 2] /\ z[3] = data[3 * h + 3]
        <5>1. ~(3 * h + 2 = n) /\ ~(3 * h + 1 = n) /\ n - 3 * h = 3
          BY <1>0, <2>1, <3>1
        <5>. QED
          BY <3>0, <5>1, Zenon
      <4>2. \A k \in 1 .. 3 : k = 1 \/ k = 2 \/ k = 3
        OBVIOUS
      <4>. QED
        BY <4>1, <4>2, Zenon
    <3>2. CASE 3 * h + 2 = n
      <4>1. /\ Len(z) = 2 /\ Len(z) = n - 3 * h
            /\ z[1] = data[3 * h + 1] /\ z[2] = data[3 * h + 2]
        <5>1. ~(3 * h + 3 <= n) /\ ~(3 * h + 1 = n) /\ n - 3 * h = 2
          BY <1>0, <2>1, <3>2
        <5>. QED
          BY <3>0, <5>1, Zenon
      <4>2. \A k \in 1 .. 2 : k = 1 \/ k = 2
        OBVIOUS
      <4>. QED
        BY <4>1, <4>2, Zenon
    <3>3. CASE 3 * h + 1 = n
      <4>1. Len(z) = 1 /\ Len(z) = n - 3 * h /\ z[1] = data[3 * h + 1]
        <5>1. ~(3 * h + 3 <= n) /\ ~(3 * h + 2 = n) /\ n - 3 * h = 1
          BY <1>0, <2>1, <3>3
        <5>. QED
          BY <3>0, <5>1, Zenon
      <4>2. \A k \in 1 .. 1 : k = 1
        OBVIOUS
      <4>. QED
        BY <4>1, <4>2, Zenon
    <3>. QED
      BY <3>0, <3>1, <3>2, <3>3, Zenon
  <2>5. Len(out) = n
    <3> HIDE DEF z
    <3>. QED
      BY <1>0, <2>1, <2>3, <2>4
  <2>6. ASSUME NEW g \in Nat, g < h, NEW k \in 1 .. 3 PROVE out[3 * g + k] = data[3 * g + k]
    <3> DEFINE c == Commands!QuadBytes(Quads(e, g + 1))
    <3>1. 3 * g + 1 <= n /\ 3 * g + 2 # n /\ 3 * g + 1 # n
      BY <1>0, <2>1, <2>6
    <3>2. c[1] = data[3 * g + 1] /\ c[2] = data[3 * g + 2] /\ c[3] = data[3 * g + 3]
      BY <3>1, GroupBack, Zenon DEF e, n
    <3>3. out[3 * g + 1] = c[1] /\ out[3 * g + 2] = c[2] /\ out[3 * g + 3] = c[3]
      BY <2>3, <2>6, Zenon DEF Three
    <3> HIDE DEF c
    <3>4. k = 1 \/ k = 2 \/ k = 3
      BY <2>6
    <3>. QED
      BY <3>2, <3>3, <3>4, Zenon
  <2>7. ASSUME NEW i \in 1 .. n PROVE out[i] = data[i]
    <3> DEFINE g == (i - 1) \div 3
               k == ((i - 1) % 3) + 1
    <3>1. g \in Nat /\ k \in 1 .. 3 /\ i = 3 * g + k /\ g <= h /\ (g = h => k <= n - 3 * h)
      BY <1>0, <2>1
    <3> HIDE DEF g, k
    <3>2. CASE g < h
      BY <2>6, <3>1, <3>2, Zenon
    <3>3. CASE g = h
      <4>1. k \in 1 .. Len(z)
        <5> HIDE DEF z
        <5>. QED
          BY <2>1, <2>4, <3>1, <3>3
      <4>2. out[3 * h + k] = data[3 * h + k]
        BY <2>3, <2>4, <4>1, Zenon
      <4>. QED
        BY <3>1, <3>3, <4>2, Zenon
    <3>. QED
      BY <2>1, <3>1, <3>2, <3>3
  <2>8. out \in Seq(Nat) /\ Len(out) = Len(data) /\ \A i \in 1 .. Len(out) : out[i] = data[i]
    BY <2>3, <2>5, <2>7, Zenon DEF n
  <2>9. out = data
    BY <2>8, SameItems, Zenon
  <2>. QED
    BY <2>9, Zenon DEF out, e
<1>. QED
  BY <1>0, <1>2, <1>3

\* A set of natural numbers has a least.
LEMMA LeastOf ==
  ASSUME NEW T, T \subseteq Nat, T # {}
  PROVE  \E x \in T : \A y \in T : x <= y
<1> DEFINE R == {ss \in Nat \X Nat : ss[1] < ss[2]}
<1>1. IsWellFoundedOn(R, Nat)
  BY NatLessThanWellFounded DEF OpToRel
<1>2. PICK x \in T : \A y \in T : ~(<<y, x>> \in R)
  <2> HIDE DEF R
  <2>. QED
    BY <1>1, WFMin
<1>3. \A y \in T : y < x => <<y, x>> \in R
  OBVIOUS
<1> HIDE DEF R
<1>4. \A y \in T : ~(y < x)
  BY <1>2, <1>3, Zenon
<1>. QED
  BY <1>2, <1>4

Newline == Commands!Newline

\* The text up to its last symbol that is no space.
LEMMA StrippedIs ==
  ASSUME NEW S, NEW text \in Seq(S)
  PROVE  \E n \in 0 .. Len(text) :
           /\ Commands!Stripped(text) = SubSeq(text, 1, n)
           /\ \A i \in n + 1 .. Len(text) : text[i] = Newline
           /\ n > 0 => text[n] # Newline
<1> DEFINE ends == {n \in 0 .. Len(text) : \A i \in n + 1 .. Len(text) : text[i] = Newline}
           end == CHOOSE n \in ends : \A m \in ends : n <= m
<1>0. Len(text) \in Nat
  BY LenProperties
<1>1. ends \subseteq Nat /\ Len(text) \in ends
  BY <1>0
<1>2. Commands!Stripped(text) = SubSeq(text, 1, end)
  BY Zenon DEF Commands!Stripped, Newline
<1> HIDE DEF ends
<1>3. end \in ends /\ \A m \in ends : end <= m
  <2>1. \E x \in ends : \A y \in ends : x <= y
    BY <1>1, LeastOf, Zenon
  <2>. QED
    BY <2>1, Zenon
<1> HIDE DEF end
<1>4. end \in 0 .. Len(text) /\ \A i \in end + 1 .. Len(text) : text[i] = Newline
  BY <1>3 DEF ends
<1>5. ASSUME end > 0, text[end] = Newline PROVE FALSE
  <2> DEFINE k == end - 1
  <2>1. k \in 0 .. Len(text) /\ k + 1 = end /\ ~(end <= k)
    BY <1>0, <1>4, <1>5
  <2>2. \A i \in k + 1 .. Len(text) : i = end \/ i \in end + 1 .. Len(text)
    BY <1>0, <1>4, <2>1
  <2> HIDE DEF k
  <2>3. \A i \in k + 1 .. Len(text) : text[i] = Newline
    BY <1>4, <1>5, <2>2, Zenon
  <2>4. k \in ends
    BY <2>1, <2>3, Zenon DEF ends
  <2>. QED
    BY <1>3, <2>1, <2>4, Zenon
<1>. QED
  BY <1>2, <1>4, <1>5, Zenon

\* A newline behind a text that ends in none is taken off again.
LEMMA NewlineOff ==
  ASSUME NEW S, NEW e \in Seq(S), Len(e) > 0 => e[Len(e)] # Newline
  PROVE  Commands!Stripped(e \o <<Newline>>) = e
<1> DEFINE T == S \cup {Newline}
           text == e \o <<Newline>>
<1>0. Len(e) \in Nat
  BY LenProperties
<1>1. e \in Seq(T) /\ <<Newline>> \in Seq(T) /\ Len(<<Newline>>) = 1 /\ <<Newline>>[1] = Newline
  BY SeqMonotonic
<1> HIDE DEF T
<1>2. /\ text \in Seq(T) /\ Len(text) = Len(e) + 1
      /\ \A i \in 1 .. Len(e) + 1 : text[i] = IF i <= Len(e) THEN e[i] ELSE <<Newline>>[i - Len(e)]
  BY <1>1, ConcatProperties
<1> HIDE DEF text
<1>3. PICK n \in 0 .. Len(text) :
           /\ Commands!Stripped(text) = SubSeq(text, 1, n)
           /\ \A i \in n + 1 .. Len(text) : text[i] = Newline
           /\ n > 0 => text[n] # Newline
  BY <1>2, StrippedIs
<1>4. \A i \in 1 .. Len(e) : text[i] = e[i]
  BY <1>0, <1>2
<1>5. text[Len(e) + 1] = Newline
  BY <1>0, <1>1, <1>2
<1>6. n = Len(e)
  <2>1. n # Len(e) + 1
    BY <1>0, <1>3, <1>5
  <2>2. CASE n < Len(e)
    <3>1. Len(e) \in n + 1 .. Len(text) /\ Len(e) \in 1 .. Len(e) /\ Len(e) > 0
      BY <1>0, <1>2, <1>3, <2>2
    <3>. QED
      BY <1>3, <1>4, <3>1, Zenon
  <2>. QED
    BY <1>0, <1>2, <1>3, <2>1, <2>2
<1>7. SubSeq(text, 1, n) \in Seq(T) /\ Len(SubSeq(text, 1, n)) = n /\ \A i \in 1 .. n : SubSeq(text, 1, n)[i] = text[i]
  BY <1>0, <1>2, <1>6, SubSeqProperties
<1> DEFINE u == SubSeq(text, 1, n)
<1>8. u \in Seq(T) /\ Len(u) = Len(e) /\ \A i \in 1 .. Len(u) : u[i] = e[i]
  BY <1>4, <1>6, <1>7, Zenon
<1>9. u = e
  BY <1>8, SameItems, Zenon
<1>. QED
  BY <1>3, <1>9, Zenon DEF text

\* What a quad ends in is a digit or padding.
LEMMA NoNewline ==
  ASSUME NEW S, NEW e \in Seq(S), NEW count \in Nat, Len(e) = 4 * count, InShape(e, count)
  PROVE  Len(e) > 0 => e[Len(e)] # Newline
<1> SUFFICES ASSUME Len(e) > 0 PROVE e[Len(e)] # Newline
  OBVIOUS
<1> DEFINE g == count - 1
<1>1. g \in Nat /\ g + 1 = count /\ Len(e) = 4 * g + 4
  OBVIOUS
<1> HIDE DEF g
<1>2. NoPad(e, 4 * g) \/ OnePad(e, 4 * g) \/ TwoPads(e, 4 * g)
  BY <1>1, Zenon DEF InShape
<1>3. Under(D, e[4 * g + 4]) \/ e[4 * g + 4] = Pad
  BY <1>2, Zenon DEF NoPad, OnePad, TwoPads, Four
<1>4. D \in Nat /\ Pad = D /\ Newline = D + 1
  <2>1. Newline = D + 1
    BY Zenon DEF Newline, D, Commands!Newline
  <2>. QED
    BY <2>1, PadIs
<1>5. ~Under(D, Newline) /\ Newline # Pad
  BY <1>4 DEF Under
<1>. QED
  BY <1>1, <1>3, <1>5, Zenon

\* What base64 is decoded to, of the text of some bytes and a newline.
LEMMA TextReads ==
  ASSUME NEW S, NEW data \in Seq(S), IsBytes(data)
  PROVE  LET count == (Len(data) + 2) \div 3
         IN  Commands!base64_decode(Commands!base64_encode(data) \o <<Newline>>)
               = IF 4 * count <= MaxEncoded THEN Commands!Got(data) ELSE Commands!Refused
<1> DEFINE e == Commands!base64_encode(data)
           count == (Len(data) + 2) \div 3
<1>0. Len(data) \in Nat /\ count \in Nat
  <2>1. Len(data) \in Nat
    BY LenProperties
  <2>. QED
    BY <2>1
<1>1. e \in Seq(Nat) /\ Len(e) = 4 * count /\ InShape(e, count)
  BY <1>0, EncodedShape, Zenon
<1>2. DecodedOf(e) = data
  BY DecodeEncode, Zenon
<1> HIDE DEF e, count
<1>3. Commands!Stripped(e \o <<Newline>>) = e
  <2>1. Len(e) > 0 => e[Len(e)] # Newline
    BY <1>0, <1>1, NoNewline
  <2>. QED
    BY <1>1, <2>1, NewlineOff
<1>4. Len(e) % 4 = 0 /\ Len(e) \div 4 = count
  BY <1>0, <1>1
<1>5. \A q \in 1 .. count : Commands!ValidQuad(Quads(e, q), q = count)
  BY <1>0, <1>1, ShapeIs
<1>6. Commands!base64_decode(e \o <<Newline>>) =
        IF 4 * count <= MaxEncoded THEN Commands!Got(data) ELSE Commands!Refused
  <2>1. Commands!base64_decode(e \o <<Newline>>) =
           LET f == Commands!Stripped(e \o <<Newline>>) IN
           IF /\ Len(f) <= MaxEncoded /\ Len(f) % 4 = 0
              /\ \A q \in 1 .. Len(f) \div 4 : Commands!ValidQuad(Quads(f, q), q = Len(f) \div 4)
           THEN Commands!Got(DecodedOf(f)) ELSE Commands!Refused
    BY DecodeIs, Zenon
  <2>. QED
    BY <1>1, <1>2, <1>3, <1>4, <1>5, <2>1, Zenon
<1>. QED
  BY <1>6, Zenon DEF e, count

\* Bytes of a command, in base64 or as they are, are read back, or refused if too many.
LEMMA WrittenIsRead ==
  \A data \in Data, max \in 0 .. (MaxEncoded \div 4) * 3, base64 \in BOOLEAN :
    Commands!read_input_bounded(base64, Commands!write_output(base64, data), max)
      = IF Len(data) <= max THEN Commands!Got(data) ELSE Commands!Refused
<1> SUFFICES ASSUME NEW data \in Data, NEW max \in 0 .. (MaxEncoded \div 4) * 3, NEW base64 \in BOOLEAN
             PROVE  Commands!read_input_bounded(base64, Commands!write_output(base64, data), max)
                      = IF Len(data) <= max THEN Commands!Got(data) ELSE Commands!Refused
  BY Zenon
<1> DEFINE text == Commands!base64_encode(data) \o <<Newline>>
           count == (Len(data) + 2) \div 3
<1>1. data \in Seq(Commands!Byte) /\ MaxEncoded \in Nat
  BY EncodingAssumption DEF Commands!EncodingShape
<1>2. Len(data) \in Nat /\ data \in [1 .. Len(data) -> Commands!Byte]
  BY <1>1, LenProperties
<1>3. IsBytes(data)
  <2>1. Commands!Byte = 0 .. B - 1
    BY Zenon DEF Commands!Byte, B
  <2>. QED
    BY <1>2, <2>1 DEF IsBytes, Under
<1>4. Len(data) <= max => 4 * count <= MaxEncoded
  <2> DEFINE w == MaxEncoded \div 4
  <2>1. w \in Nat /\ 4 * w <= MaxEncoded /\ max \in Nat /\ max <= w * 3
    BY <1>1
  <2> HIDE DEF w
  <2>. QED
    BY <1>1, <1>2, <2>1
<1>5. Commands!base64_decode(text) = IF 4 * count <= MaxEncoded THEN Commands!Got(data) ELSE Commands!Refused
  BY <1>1, <1>3, TextReads, Zenon
<1>6. /\ Commands!Got(data).ok /\ Commands!Got(data).bytes = data /\ ~Commands!Refused.ok
  BY DEF Commands!Got, Commands!Refused
<1>7. CASE base64
  <2>1. Commands!write_output(base64, data) = text
    BY <1>7, Zenon DEF Commands!write_output, Newline
  <2> HIDE DEF text, count
  <2>2. Commands!read_input_bounded(base64, text, max) =
          IF Commands!base64_decode(text).ok /\ Len(Commands!base64_decode(text).bytes) <= max
          THEN Commands!base64_decode(text) ELSE Commands!Refused
    BY <1>7, Zenon DEF Commands!read_input_bounded
  <2>. QED
    BY <1>4, <1>5, <1>6, <2>1, <2>2, Zenon
<1>8. CASE ~base64
  <2>1. Commands!write_output(base64, data) = data
    BY <1>8, Zenon DEF Commands!write_output
  <2>2. Commands!read_input_bounded(base64, data, max) =
          IF Commands!Got(data).ok /\ Len(Commands!Got(data).bytes) <= max
          THEN Commands!Got(data) ELSE Commands!Refused
    BY <1>8, Zenon DEF Commands!read_input_bounded
  <2>. QED
    BY <1>6, <2>1, <2>2, Zenon
<1>. QED
  BY <1>7, <1>8

-----------------------------------------------------------------------------
(* What is read: quads of symbols as groups of bytes, and these as quads again. *)

LEMMA OneNumber ==
  ASSUME NEW v, NEW d1, NEW d2, NEW d3, NEW d4, NEW c1, NEW c2, NEW c3, NEW c4,
         DigitsOf(v, d1, d2, d3, d4), DigitsOf(v, c1, c2, c3, c4)
  PROVE  d1 = c1 /\ d2 = c2 /\ d3 = c3 /\ d4 = c4
<1>1. <<d1, d2, d3, d4>> = <<c1, c2, c3, c4>>
  BY Zenon DEF DigitsOf
<1>. QED
  BY <1>1

\* The digits of a quad have bytes, and these have the digits.
LEMMA DigitsBack ==
  ASSUME NEW d1, NEW d2, NEW d3, NEW d4, Under(D, d1), Under(D, d2), Under(D, d3), Under(D, d4)
  PROVE  \E b1, b2, b3 : /\ BytesOf(Commands!Merged(d1, d2, d3, d4), b1, b2, b3)
                         /\ DigitsOf(Commands!Joined(b1, b2, b3), d1, d2, d3, d4)
<1>1. DigitsOf(Commands!Merged(d1, d2, d3, d4), d1, d2, d3, d4)
  BY AreDigits, Zenon
<1>2. PICK b1, b2, b3 : BytesOf(Commands!Merged(d1, d2, d3, d4), b1, b2, b3)
  BY HaveBytes, Zenon
<1>3. Commands!Merged(d1, d2, d3, d4) = Commands!Joined(b1, b2, b3)
  BY <1>2, Zenon DEF BytesOf
<1>. QED
  BY <1>1, <1>2, <1>3, Zenon

\* A text in the shape of base64 is what the well-formed are.
LEMMA WellFormedIs ==
  ASSUME NEW S, NEW e \in Seq(S), NEW count \in Nat, Len(e) = 4 * count
  PROVE  Commands!WellFormed(e) <=> InShape(e, count)
<1> DEFINE Fits(i) == Under(D, e[i]) \/ (e[i] = Pad /\ i >= Len(e) - 1 /\ e[Len(e)] = Pad)
<1>1. Commands!WellFormed(e) <=> \A i \in 1 .. Len(e) : Fits(i)
  <2>1. DOMAIN e = 1 .. Len(e) /\ Len(e) % 4 = 0
    BY LenProperties
  <2>2. \A s : s \in Commands!Digit <=> Under(D, s)
    BY Zenon DEF Commands!Digit, D, Under
  <2>. QED
    BY <2>1, <2>2, Zenon DEF Commands!WellFormed, Pad
<1>2. ASSUME InShape(e, count), NEW i \in 1 .. Len(e) PROVE Fits(i)
  <2> DEFINE g == (i - 1) \div 4
  <2>1. /\ g \in Nat /\ g + 1 <= count
        /\ i = 4 * g + 1 \/ i = 4 * g + 2 \/ i = 4 * g + 3 \/ i = 4 * g + 4
    OBVIOUS
  <2> HIDE DEF g
  <2>2. CASE g + 1 < count
    <3>1. NoPad(e, 4 * g)
      BY <1>2, <2>1, <2>2, Zenon DEF InShape
    <3>2. Under(D, e[4 * g + 1]) /\ Under(D, e[4 * g + 2]) /\ Under(D, e[4 * g + 3]) /\ Under(D, e[4 * g + 4])
      BY <3>1, Zenon DEF NoPad, Four
    <3>. QED
      BY <2>1, <3>2, Zenon
  <2>3. CASE g + 1 = count
    <3>1. NoPad(e, 4 * g) \/ OnePad(e, 4 * g) \/ TwoPads(e, 4 * g)
      BY <1>2, <2>1, <2>3, Zenon DEF InShape
    <3>2. /\ Under(D, e[4 * g + 1]) /\ Under(D, e[4 * g + 2])
          /\ Under(D, e[4 * g + 3]) \/ (e[4 * g + 3] = Pad /\ e[4 * g + 4] = Pad)
          /\ Under(D, e[4 * g + 4]) \/ e[4 * g + 4] = Pad
      BY <3>1, Zenon DEF NoPad, OnePad, TwoPads, Four
    <3>3. Len(e) = 4 * g + 4 /\ 4 * g + 3 >= Len(e) - 1 /\ 4 * g + 4 >= Len(e) - 1
      BY <2>1, <2>3
    <3>. QED
      BY <2>1, <3>2, <3>3, Zenon
  <2>. QED
    BY <2>1, <2>2, <2>3
<1>3. ASSUME \A i \in 1 .. Len(e) : Fits(i), NEW g \in Nat, g + 1 < count PROVE NoPad(e, 4 * g)
  <2>1. \A k \in 1 .. 4 : 4 * g + k \in 1 .. Len(e) /\ ~(4 * g + k >= Len(e) - 1)
    BY <1>3
  <2>2. \A k \in 1 .. 4 : Under(D, e[4 * g + k])
    BY <1>3, <2>1, Zenon
  <2>3. 1 \in 1 .. 4 /\ 2 \in 1 .. 4 /\ 3 \in 1 .. 4 /\ 4 \in 1 .. 4
    OBVIOUS
  <2>. QED
    BY <2>2, <2>3, Zenon DEF NoPad, Four
<1>4. ASSUME \A i \in 1 .. Len(e) : Fits(i), NEW g \in Nat, g + 1 = count
      PROVE  NoPad(e, 4 * g) \/ OnePad(e, 4 * g) \/ TwoPads(e, 4 * g)
  <2>1. \A k \in 1 .. 4 : 4 * g + k \in 1 .. Len(e)
    BY <1>4
  <2>2. Len(e) = 4 * g + 4 /\ ~(4 * g + 1 >= Len(e) - 1) /\ ~(4 * g + 2 >= Len(e) - 1)
    BY <1>4
  <2>3. 1 \in 1 .. 4 /\ 2 \in 1 .. 4 /\ 3 \in 1 .. 4 /\ 4 \in 1 .. 4
    OBVIOUS
  <2>4. Fits(4 * g + 1) /\ Fits(4 * g + 2) /\ Fits(4 * g + 3) /\ Fits(4 * g + 4)
    BY <1>4, <2>1, <2>3, Zenon
  <2>5. /\ Under(D, e[4 * g + 1]) /\ Under(D, e[4 * g + 2])
        /\ Under(D, e[4 * g + 3]) \/ (e[4 * g + 3] = Pad /\ e[4 * g + 4] = Pad)
        /\ Under(D, e[4 * g + 4]) \/ e[4 * g + 4] = Pad
    BY <2>2, <2>4, Zenon
  <2>. QED
    BY <2>5, Zenon DEF NoPad, OnePad, TwoPads, Four
<1>. QED
  BY <1>1, <1>2, <1>3, <1>4, Zenon DEF InShape

\* A quad as a text has it, and the bytes that were read of it: their digits are the same,
\* but for the last before a padding.
Whole(e, out, g) ==
  /\ 3 * g + 3 <= Len(out)
  /\ \E d1, d2, d3, d4 : Four(e, 4 * g, d1, d2, d3, d4) /\ Encodes(out, 3 * g, d1, d2, d3, d4)
ShortOne(e, out, g) ==
  /\ 3 * g + 2 = Len(out)
  /\ \E d1, d2, d3, f : /\ Under(D, d3) /\ Four(e, 4 * g, d1, d2, d3, Pad)
                        /\ DigitsOf(Commands!Joined(out[3 * g + 1], out[3 * g + 2], 0), d1, d2, f, 0)
ShortTwo(e, out, g) ==
  /\ 3 * g + 1 = Len(out)
  /\ \E d1, d2, f : /\ Under(D, d2) /\ Four(e, 4 * g, d1, d2, Pad, Pad)
                    /\ DigitsOf(Commands!Joined(out[3 * g + 1], 0, 0), d1, f, 0, 0)

\* The bytes of a quad without padding.
LEMMA WholeBytes ==
  ASSUME NEW S, NEW e \in Seq(S), NEW g \in Nat, 4 * g + 4 <= Len(e), NoPad(e, 4 * g)
  PROVE  LET z == Commands!QuadBytes(Quads(e, g + 1))
         IN  /\ Under(B, z[1]) /\ Under(B, z[2]) /\ Under(B, z[3]) /\ Len(z) = 3
             /\ \E d1, d2, d3, d4 : /\ Four(e, 4 * g, d1, d2, d3, d4)
                                    /\ DigitsOf(Commands!Joined(z[1], z[2], z[3]), d1, d2, d3, d4)
<1>1. PICK d1, d2, d3, d4 : /\ Under(D, d1) /\ Under(D, d2) /\ Under(D, d3) /\ Under(D, d4)
                            /\ Four(e, 4 * g, d1, d2, d3, d4)
  BY Zenon DEF NoPad
<1>2. PICK b1, b2, b3 : /\ BytesOf(Commands!Merged(d1, d2, d3, d4), b1, b2, b3)
                        /\ DigitsOf(Commands!Joined(b1, b2, b3), d1, d2, d3, d4)
  BY <1>1, DigitsBack, Zenon
<1>3. Four(Quads(e, g + 1), 0, d1, d2, d3, d4)
  BY <1>1, QuadOf, Zenon
<1> DEFINE z == Commands!QuadBytes(Quads(e, g + 1))
<1>4. Len(z) = 3 /\ z[1] = b1 /\ z[2] = b2 /\ z[3] = b3
  <2>1. Under(D, d1) /\ Under(D, d2) /\ Under(D, d3) /\ Under(D, d4)
    BY <1>1, Zenon
  <2>. QED
    BY <1>2, <1>3, <2>1, QuadOfFour
<1>5. Under(B, b1) /\ Under(B, b2) /\ Under(B, b3)
  BY <1>2, Zenon DEF BytesOf
<1> HIDE DEF z
<1>. QED
  BY <1>1, <1>2, <1>4, <1>5, Zenon DEF z

LEMMA ShortOneBytes ==
  ASSUME NEW S, NEW e \in Seq(S), NEW g \in Nat, 4 * g + 4 <= Len(e), OnePad(e, 4 * g)
  PROVE  LET z == Commands!QuadBytes(Quads(e, g + 1))
         IN  /\ Under(B, z[1]) /\ Under(B, z[2]) /\ Len(z) = 2
             /\ \E d1, d2, d3, f : /\ Under(D, d3) /\ Four(e, 4 * g, d1, d2, d3, Pad)
                                   /\ DigitsOf(Commands!Joined(z[1], z[2], 0), d1, d2, f, 0)
<1>1. PICK d1, d2, d3 : Under(D, d1) /\ Under(D, d2) /\ Under(D, d3) /\ Four(e, 4 * g, d1, d2, d3, Pad)
  BY Zenon DEF OnePad
<1>2. PICK b1, b2, b3, f : /\ BytesOf(Commands!Merged(d1, d2, d3, 0), b1, b2, b3)
                           /\ DigitsOf(Commands!Joined(b1, b2, 0), d1, d2, f, 0)
  BY <1>1, TwoBack, Zenon
<1>3. Four(Quads(e, g + 1), 0, d1, d2, d3, Pad)
  BY <1>1, QuadOf, Zenon
<1> DEFINE z == Commands!QuadBytes(Quads(e, g + 1))
<1>4. Len(z) = 2 /\ z[1] = b1 /\ z[2] = b2
  <2>1. Under(D, d1) /\ Under(D, d2) /\ Under(D, d3)
    BY <1>1, Zenon
  <2>. QED
    BY <1>2, <1>3, <2>1, QuadOfThree
<1>5. Under(B, b1) /\ Under(B, b2)
  BY <1>2, Zenon DEF BytesOf
<1> HIDE DEF z
<1>. QED
  BY <1>1, <1>2, <1>4, <1>5, Zenon DEF z

LEMMA ShortTwoBytes ==
  ASSUME NEW S, NEW e \in Seq(S), NEW g \in Nat, 4 * g + 4 <= Len(e), TwoPads(e, 4 * g)
  PROVE  LET z == Commands!QuadBytes(Quads(e, g + 1))
         IN  /\ Under(B, z[1]) /\ Len(z) = 1
             /\ \E d1, d2, f : /\ Under(D, d2) /\ Four(e, 4 * g, d1, d2, Pad, Pad)
                               /\ DigitsOf(Commands!Joined(z[1], 0, 0), d1, f, 0, 0)
<1>1. PICK d1, d2 : Under(D, d1) /\ Under(D, d2) /\ Four(e, 4 * g, d1, d2, Pad, Pad)
  BY Zenon DEF TwoPads
<1>2. PICK b1, b2, b3, f : /\ BytesOf(Commands!Merged(d1, d2, 0, 0), b1, b2, b3)
                           /\ DigitsOf(Commands!Joined(b1, 0, 0), d1, f, 0, 0)
  BY <1>1, OneBack, Zenon
<1>3. Four(Quads(e, g + 1), 0, d1, d2, Pad, Pad)
  BY <1>1, QuadOf, Zenon
<1> DEFINE z == Commands!QuadBytes(Quads(e, g + 1))
<1>4. Len(z) = 1 /\ z[1] = b1
  BY <1>1, <1>2, <1>3, QuadOfTwo, Zenon
<1>5. Under(B, b1)
  BY <1>2, Zenon DEF BytesOf
<1> HIDE DEF z
<1>. QED
  BY <1>1, <1>2, <1>4, <1>5, Zenon DEF z

\* All that is read of a text in shape.
LEMMA OutIs ==
  ASSUME NEW S, NEW e \in Seq(S), NEW h \in Nat, Len(e) = 4 * h + 4, InShape(e, h + 1)
  PROVE  LET out == DecodedOf(e)
         IN  /\ out \in Seq(Nat) /\ IsBytes(out) /\ Len(out) \in 3 * h + 1 .. 3 * h + 3
             /\ \A g \in Nat : g < h => Whole(e, out, g)
             /\ Whole(e, out, h) \/ ShortOne(e, out, h) \/ ShortTwo(e, out, h)
<1> DEFINE out == DecodedOf(e)
           At(g) == Commands!QuadBytes(Quads(e, g + 1))
           z == At(h)
<1>1. /\ out \in Seq(Nat) /\ z \in Seq(Nat) /\ Len(z) \in 1 .. 3 /\ Len(out) = 3 * h + Len(z)
      /\ \A g \in Nat : g < h => Three(out, 3 * g, At(g)[1], At(g)[2], At(g)[3])
      /\ \A k \in 1 .. Len(z) : out[3 * h + k] = z[k]
  BY DecodedIs
<1> HIDE DEF out
<1> DEFINE m == Len(z)
<1>2. m \in 1 .. 3 /\ Len(out) = 3 * h + m
  BY <1>1, Zenon
<1>3. Len(out) \in 3 * h + 1 .. 3 * h + 3
  <2> HIDE DEF m
  <2>. QED
    BY <1>2
<1>4. ASSUME NEW g \in Nat, g < h
      PROVE  /\ Whole(e, out, g)
             /\ Under(B, out[3 * g + 1]) /\ Under(B, out[3 * g + 2]) /\ Under(B, out[3 * g + 3])
  <2>1. 4 * g + 4 <= Len(e) /\ g + 1 < h + 1 /\ 3 * g + 3 <= Len(out)
    BY <1>3, <1>4
  <2>2. NoPad(e, 4 * g)
    BY <2>1, Zenon DEF InShape
  <2>3. out[3 * g + 1] = At(g)[1] /\ out[3 * g + 2] = At(g)[2] /\ out[3 * g + 3] = At(g)[3]
    BY <1>1, <1>4, Zenon DEF Three
  <2>4. /\ Under(B, At(g)[1]) /\ Under(B, At(g)[2]) /\ Under(B, At(g)[3])
        /\ \E d1, d2, d3, d4 : /\ Four(e, 4 * g, d1, d2, d3, d4)
                               /\ DigitsOf(Commands!Joined(At(g)[1], At(g)[2], At(g)[3]), d1, d2, d3, d4)
    BY <2>1, <2>2, WholeBytes, Zenon
  <2> HIDE DEF At
  <2>. QED
    BY <2>1, <2>3, <2>4, Zenon DEF Whole, Encodes
<1>5. /\ Whole(e, out, h) \/ ShortOne(e, out, h) \/ ShortTwo(e, out, h)
      /\ \A k \in 1 .. Len(z) : Under(B, z[k])
  <2>1. 4 * h + 4 <= Len(e) /\ h + 1 = h + 1
    OBVIOUS
  <2>2. NoPad(e, 4 * h) \/ OnePad(e, 4 * h) \/ TwoPads(e, 4 * h)
    BY <2>1, Zenon DEF InShape
  <2>3. CASE NoPad(e, 4 * h)
    <3>1. /\ Under(B, z[1]) /\ Under(B, z[2]) /\ Under(B, z[3]) /\ Len(z) = 3
          /\ \E d1, d2, d3, d4 : /\ Four(e, 4 * h, d1, d2, d3, d4)
                                 /\ DigitsOf(Commands!Joined(z[1], z[2], z[3]), d1, d2, d3, d4)
      BY <2>1, <2>3, WholeBytes, Zenon
    <3> HIDE DEF z
    <3>2. 1 \in 1 .. 3 /\ 2 \in 1 .. 3 /\ 3 \in 1 .. 3 /\ \A k \in 1 .. 3 : k = 1 \/ k = 2 \/ k = 3
      OBVIOUS
    <3>3. 3 * h + 3 <= Len(out)
      BY <1>1, <3>1
    <3>4. out[3 * h + 1] = z[1] /\ out[3 * h + 2] = z[2] /\ out[3 * h + 3] = z[3]
      BY <1>1, <3>1, <3>2, Zenon
    <3>5. Whole(e, out, h)
      BY <3>1, <3>3, <3>4, Zenon DEF Whole, Encodes
    <3>. QED
      BY <3>1, <3>2, <3>5, Zenon
  <2>4. CASE OnePad(e, 4 * h)
    <3>1. /\ Under(B, z[1]) /\ Under(B, z[2]) /\ Len(z) = 2
          /\ \E d1, d2, d3, f : /\ Under(D, d3) /\ Four(e, 4 * h, d1, d2, d3, Pad)
                                /\ DigitsOf(Commands!Joined(z[1], z[2], 0), d1, d2, f, 0)
      BY <2>1, <2>4, ShortOneBytes, Zenon
    <3> HIDE DEF z
    <3>2. 1 \in 1 .. 2 /\ 2 \in 1 .. 2 /\ \A k \in 1 .. 2 : k = 1 \/ k = 2
      OBVIOUS
    <3>3. 3 * h + 2 = Len(out)
      BY <1>1, <3>1
    <3>4. out[3 * h + 1] = z[1] /\ out[3 * h + 2] = z[2]
      BY <1>1, <3>1, <3>2, Zenon
    <3>5. ShortOne(e, out, h)
      BY <3>1, <3>3, <3>4, Zenon DEF ShortOne
    <3>. QED
      BY <3>1, <3>2, <3>5, Zenon
  <2>5. CASE TwoPads(e, 4 * h)
    <3>1. /\ Under(B, z[1]) /\ Len(z) = 1
          /\ \E d1, d2, f : /\ Under(D, d2) /\ Four(e, 4 * h, d1, d2, Pad, Pad)
                            /\ DigitsOf(Commands!Joined(z[1], 0, 0), d1, f, 0, 0)
      BY <2>1, <2>5, ShortTwoBytes, Zenon
    <3> HIDE DEF z
    <3>2. 1 \in 1 .. 1 /\ \A k \in 1 .. 1 : k = 1
      OBVIOUS
    <3>3. 3 * h + 1 = Len(out)
      BY <1>1, <3>1
    <3>4. out[3 * h + 1] = z[1]
      BY <1>1, <3>1, <3>2, Zenon
    <3>5. ShortTwo(e, out, h)
      BY <3>1, <3>3, <3>4, Zenon DEF ShortTwo
    <3>. QED
      BY <3>1, <3>2, <3>5, Zenon
  <2> HIDE DEF z
  <2>. QED
    BY <2>2, <2>3, <2>4, <2>5, Zenon
<1>6. IsBytes(out)
  <2> SUFFICES ASSUME NEW i \in 1 .. Len(out) PROVE Under(B, out[i])
    BY DEF IsBytes
  <2> DEFINE g == (i - 1) \div 3
             k == ((i - 1) % 3) + 1
  <2> HIDE DEF m
  <2>1. /\ g \in Nat /\ k \in 1 .. 3 /\ i = 3 * g + k /\ g <= h /\ (g = h => k \in 1 .. m)
        /\ k = 1 \/ k = 2 \/ k = 3
    BY <1>2
  <2> HIDE DEF g, k
  <2>2. CASE g < h
    BY <1>4, <2>1, <2>2, Zenon
  <2>3. CASE g = h
    BY <1>1, <1>5, <2>1, <2>3, Zenon DEF m
  <2>. QED
    BY <2>1, <2>2, <2>3
<1> HIDE DEF z
<1>. QED
  BY <1>1, <1>3, <1>4, <1>5, <1>6, Zenon DEF out

\* What is written of it again: the same, but for the last digit before a padding.
LEMMA AgainIs ==
  ASSUME NEW S, NEW e \in Seq(S), NEW h \in Nat, Len(e) = 4 * h + 4, InShape(e, h + 1)
  PROVE  LET a == Commands!base64_encode(DecodedOf(e))
         IN  /\ Len(a) = Len(e)
             /\ \A i \in 1 .. Len(e) :
                  ~Under(D, e[i]) \/ (i < Len(e) /\ Under(D, e[i + 1])) \/ i = Len(e) => a[i] = e[i]
<1> DEFINE out == DecodedOf(e)
           a == Commands!base64_encode(out)
           n == Len(out)
           tail == TailOf(out)
           Stays(i) == ~Under(D, e[i]) \/ (i < Len(e) /\ Under(D, e[i + 1])) \/ i = Len(e)
<1>1. /\ out \in Seq(Nat) /\ IsBytes(out) /\ n \in 3 * h + 1 .. 3 * h + 3
      /\ \A g \in Nat : g < h => Whole(e, out, g)
      /\ Whole(e, out, h) \/ ShortOne(e, out, h) \/ ShortTwo(e, out, h)
  BY OutIs, Zenon
<1>2. n \in 3 * h + 1 .. 3 * h + 3
  BY <1>1, Zenon
<1> HIDE DEF out
<1>3. Len(a) = Len(e)
  <2> DEFINE count == (n + 2) \div 3
  <2>1. count = h + 1 /\ count \in Nat /\ 4 * (h + 1) = 4 * h + 4
    <3> HIDE DEF n
    <3>. QED
      BY <1>2
  <2>2. Len(a) = 4 * count
    <3>1. count = (Len(out) + 2) \div 3
      OBVIOUS
    <3> HIDE DEF count
    <3>. QED
      BY <1>1, <2>1, <3>1, EncodedShape, Zenon
  <2>. QED
    BY <2>1, <2>2, Zenon
<1> DEFINE full == n \div 3
<1>4. full \in Nat /\ (full = h \/ full = h + 1)
  <2> HIDE DEF n
  <2>. QED
    BY <1>2
<1>5. /\ \A g \in Nat : g < full =>
           \E d1, d2, d3, d4 : Encodes(out, 3 * g, d1, d2, d3, d4) /\ Four(a, 4 * g, d1, d2, d3, d4)
      /\ \A d1, d2, d3, d4 : Len(tail) = 4 /\ Four(tail, 0, d1, d2, d3, d4) => Four(a, 4 * full, d1, d2, d3, d4)
      /\ Tailed(out, full, tail)
  <2>1. full = Len(out) \div 3
    OBVIOUS
  <2> HIDE DEF full
  <2>. QED
    BY <1>1, <1>4, <2>1, EncodedIs, TailIs, Zenon
<1> HIDE DEF a, tail, full
<1>6. ASSUME NEW g \in Nat, g <= h, Whole(e, out, g), NEW k \in 1 .. 4 PROVE a[4 * g + k] = e[4 * g + k]
  <2>1. 3 * g + 3 <= n
    BY <1>6, Zenon DEF Whole
  <2>2. g < full
    <3> HIDE DEF n
    <3>. QED
      BY <1>2, <2>1 DEF full
  <2>3. PICK d1, d2, d3, d4 : Four(e, 4 * g, d1, d2, d3, d4) /\ Encodes(out, 3 * g, d1, d2, d3, d4)
    BY <1>6, Zenon DEF Whole
  <2>4. PICK c1, c2, c3, c4 : Encodes(out, 3 * g, c1, c2, c3, c4) /\ Four(a, 4 * g, c1, c2, c3, c4)
    BY <1>5, <2>2, Zenon
  <2>5. d1 = c1 /\ d2 = c2 /\ d3 = c3 /\ d4 = c4
    BY <2>3, <2>4, OneNumber, Zenon DEF Encodes
  <2>6. k = 1 \/ k = 2 \/ k = 3 \/ k = 4
    OBVIOUS
  <2>. QED
    BY <2>3, <2>4, <2>5, <2>6, Zenon DEF Four
<1>7. ASSUME ShortOne(e, out, h), NEW k \in 1 .. 4, Stays(4 * h + k) PROVE a[4 * h + k] = e[4 * h + k]
  <2>1. 3 * h + 2 = n
    BY <1>7, Zenon DEF ShortOne
  <2>2. full = h
    <3> HIDE DEF n
    <3>. QED
      BY <1>2, <2>1 DEF full
  <2>3. PICK d1, d2, d3, f : /\ Under(D, d3) /\ Four(e, 4 * h, d1, d2, d3, Pad)
                             /\ DigitsOf(Commands!Joined(out[3 * h + 1], out[3 * h + 2], 0), d1, d2, f, 0)
    BY <1>7, Zenon DEF ShortOne
  <2>4. PICK c1, c2, c3 : /\ DigitsOf(Commands!Joined(out[3 * h + 1], out[3 * h + 2], 0), c1, c2, c3, 0)
                          /\ Len(tail) = 4 /\ Four(tail, 0, c1, c2, c3, Pad)
    BY <1>5, <2>1, <2>2, Zenon DEF Tailed
  <2>5. Four(a, 4 * h, c1, c2, c3, Pad)
    BY <1>5, <2>2, <2>4, Zenon
  <2>6. d1 = c1 /\ d2 = c2
    BY <2>3, <2>4, OneNumber, Zenon
  <2>7. ~Stays(4 * h + 3)
    <3>1. 4 * h + 3 # Len(e) /\ (4 * h + 3) + 1 = 4 * h + 4
      OBVIOUS
    <3>2. e[4 * h + 3] = d3 /\ e[4 * h + 4] = Pad
      BY <2>3, Zenon DEF Four
    <3>. QED
      BY <2>3, <3>1, <3>2, PadIs, Zenon
  <2>8. k = 1 \/ k = 2 \/ k = 3 \/ k = 4
    OBVIOUS
  <2> HIDE DEF Stays
  <2>. QED
    BY <1>7, <2>3, <2>5, <2>6, <2>7, <2>8, Zenon DEF Four
<1>8. ASSUME ShortTwo(e, out, h), NEW k \in 1 .. 4, Stays(4 * h + k) PROVE a[4 * h + k] = e[4 * h + k]
  <2>1. 3 * h + 1 = n
    BY <1>8, Zenon DEF ShortTwo
  <2>2. full = h
    <3> HIDE DEF n
    <3>. QED
      BY <1>2, <2>1 DEF full
  <2>3. PICK d1, d2, f : /\ Under(D, d2) /\ Four(e, 4 * h, d1, d2, Pad, Pad)
                         /\ DigitsOf(Commands!Joined(out[3 * h + 1], 0, 0), d1, f, 0, 0)
    BY <1>8, Zenon DEF ShortTwo
  <2>4. PICK c1, c2 : /\ DigitsOf(Commands!Joined(out[3 * h + 1], 0, 0), c1, c2, 0, 0)
                      /\ Len(tail) = 4 /\ Four(tail, 0, c1, c2, Pad, Pad)
    BY <1>5, <2>1, <2>2, Zenon DEF Tailed
  <2>5. Four(a, 4 * h, c1, c2, Pad, Pad)
    BY <1>5, <2>2, <2>4, Zenon
  <2>6. d1 = c1
    BY <2>3, <2>4, OneNumber, Zenon
  <2>7. ~Stays(4 * h + 2)
    <3>1. 4 * h + 2 # Len(e) /\ (4 * h + 2) + 1 = 4 * h + 3
      OBVIOUS
    <3>2. e[4 * h + 2] = d2 /\ e[4 * h + 3] = Pad
      BY <2>3, Zenon DEF Four
    <3>. QED
      BY <2>3, <3>1, <3>2, PadIs, Zenon
  <2>8. k = 1 \/ k = 2 \/ k = 3 \/ k = 4
    OBVIOUS
  <2> HIDE DEF Stays
  <2>. QED
    BY <1>8, <2>3, <2>5, <2>6, <2>7, <2>8, Zenon DEF Four
<1>9. ASSUME NEW i \in 1 .. Len(e), Stays(i) PROVE a[i] = e[i]
  <2> DEFINE g == (i - 1) \div 4
             k == ((i - 1) % 4) + 1
  <2>1. g \in Nat /\ k \in 1 .. 4 /\ i = 4 * g + k /\ (g < h \/ g = h) /\ g <= h
    OBVIOUS
  <2> HIDE DEF g, k, Stays
  <2>2. CASE Whole(e, out, g)
    BY <1>6, <2>1, <2>2, Zenon
  <2>3. CASE g = h /\ ShortOne(e, out, h)
    BY <1>7, <1>9, <2>1, <2>3, Zenon
  <2>4. CASE g = h /\ ShortTwo(e, out, h)
    BY <1>8, <1>9, <2>1, <2>4, Zenon
  <2>. QED
    BY <1>1, <2>1, <2>2, <2>3, <2>4, Zenon
<1>. QED
  BY <1>3, <1>9, Zenon DEF a, out

LEMMA Quarter ==
  ASSUME NEW n \in Nat, n % 4 = 0
  PROVE  /\ n \div 4 \in Nat /\ n = 4 * (n \div 4)
         /\ n # 0 => /\ (n \div 4) - 1 \in Nat /\ ((n \div 4) - 1) + 1 \in Nat
                     /\ n = 4 * ((n \div 4) - 1) + 4 /\ n = 4 * (((n \div 4) - 1) + 1)
<1> DEFINE q == n \div 4
<1>1. q \in Nat /\ n = 4 * q
  OBVIOUS
<1> HIDE DEF q
<1>. QED
  BY <1>1 DEF q

\* What base64 is read of a text: whether it is, and what gets lost.
LEMMA ReadIsWritten ==
  \A text \in Text :
    LET input == Commands!Stripped(text)
        result == Commands!base64_decode(text)
        again == Commands!base64_encode(result.bytes)
        digits == {i \in DOMAIN input : input[i] \in Commands!Digit}
    IN  /\ result.ok = (Commands!WellFormed(input) /\ Len(input) <= MaxEncoded)
        /\ result.ok =>
             /\ Len(again) = Len(input)
             /\ \A i \in DOMAIN input :
                  i \notin digits \/ i + 1 \in digits \/ i = Len(input) => again[i] = input[i]
<1> SUFFICES ASSUME NEW text \in Text
             PROVE  LET input == Commands!Stripped(text)
                        result == Commands!base64_decode(text)
                        again == Commands!base64_encode(result.bytes)
                        digits == {i \in DOMAIN input : input[i] \in Commands!Digit}
                    IN  /\ result.ok = (Commands!WellFormed(input) /\ Len(input) <= MaxEncoded)
                        /\ result.ok =>
                             /\ Len(again) = Len(input)
                             /\ \A i \in DOMAIN input :
                                  i \notin digits \/ i + 1 \in digits \/ i = Len(input) => again[i] = input[i]
  BY Zenon
<1> DEFINE e == Commands!Stripped(text)
           result == Commands!base64_decode(text)
           a == Commands!base64_encode(DecodedOf(e))
           S == Commands!Symbol
           digits == {i \in DOMAIN e : e[i] \in Commands!Digit}
<1>1. text \in Seq(S) /\ MaxEncoded \in Nat
  BY EncodingAssumption, Zenon DEF Commands!EncodingShape
<1>2. e \in Seq(S)
  <2> HIDE DEF S
  <2>1. PICK n \in 0 .. Len(text) : e = SubSeq(text, 1, n)
    BY <1>1, StrippedIs
  <2> HIDE DEF e
  <2>. QED
    BY <1>1, <2>1, SubSeqProperties
<1>3. result = IF /\ Len(e) <= MaxEncoded /\ Len(e) % 4 = 0
                  /\ \A q \in 1 .. Len(e) \div 4 : Commands!ValidQuad(Quads(e, q), q = Len(e) \div 4)
               THEN Commands!Got(DecodedOf(e)) ELSE Commands!Refused
  BY DecodeIs, Zenon
<1> HIDE DEF result, S
<1>4. DOMAIN e = 1 .. Len(e) /\ Len(e) \in Nat
  BY <1>2, LenProperties
<1> HIDE DEF e
<1>5. \A i \in 1 .. Len(e) : i \in digits <=> Under(D, e[i])
  BY <1>4, Zenon DEF Commands!Digit, D, Under
<1>6. \A i \in 1 .. Len(e) : i + 1 \in digits <=> i < Len(e) /\ Under(D, e[i + 1])
  <2>1. \A i \in 1 .. Len(e) : i + 1 \in 1 .. Len(e) <=> i < Len(e)
    BY <1>4
  <2>. QED
    BY <1>4, <1>5, <2>1, Zenon
<1>7. Commands!WellFormed(e) => Len(e) % 4 = 0
  BY Zenon DEF Commands!WellFormed
<1>8. /\ Commands!Got(DecodedOf(e)).ok = TRUE /\ Commands!Got(DecodedOf(e)).bytes = DecodedOf(e)
      /\ Commands!Refused.ok = FALSE
  BY DEF Commands!Got, Commands!Refused
<1>9. Len(e) % 4 = 0 =>
        ((\A q \in 1 .. Len(e) \div 4 : Commands!ValidQuad(Quads(e, q), q = Len(e) \div 4)) <=> Commands!WellFormed(e))
  <2> SUFFICES ASSUME Len(e) % 4 = 0
               PROVE  (\A q \in 1 .. Len(e) \div 4 : Commands!ValidQuad(Quads(e, q), q = Len(e) \div 4))
                        <=> Commands!WellFormed(e)
    OBVIOUS
  <2> DEFINE count == Len(e) \div 4
  <2>1. count \in Nat /\ Len(e) = 4 * count
    BY <1>4, Quarter, Zenon
  <2> HIDE DEF count
  <2>2. (\A q \in 1 .. count : Commands!ValidQuad(Quads(e, q), q = count)) <=> InShape(e, count)
    BY <1>2, <2>1, ShapeIs, Zenon
  <2>3. Commands!WellFormed(e) <=> InShape(e, count)
    BY <1>2, <2>1, WellFormedIs, Zenon
  <2>. QED
    BY <2>2, <2>3, Zenon DEF count
<1>10. /\ Commands!WellFormed(e) /\ Len(e) <= MaxEncoded => result = Commands!Got(DecodedOf(e))
       /\ ~(Commands!WellFormed(e) /\ Len(e) <= MaxEncoded) => result = Commands!Refused
  BY <1>3, <1>7, <1>9, Zenon
<1>11. result.ok = (Commands!WellFormed(e) /\ Len(e) <= MaxEncoded)
  <2>1. (Len(e) <= MaxEncoded) \in BOOLEAN /\ Commands!WellFormed(e) \in BOOLEAN
    BY DEF Commands!WellFormed
  <2>. QED
    BY <1>8, <1>10, <2>1
<1>12. ASSUME Commands!WellFormed(e), Len(e) <= MaxEncoded
       PROVE  /\ Len(a) = Len(e)
              /\ \A i \in DOMAIN e : i \notin digits \/ i + 1 \in digits \/ i = Len(e) => a[i] = e[i]
  <2>1. CASE Len(e) = 0
    <3>1. DecodedOf(e) = <<>>
      BY <1>2, <2>1, NothingDecoded
    <3>2. <<>> \in Seq(Nat) /\ IsBytes(<<>>) /\ Len(<<>>) = 0 /\ (0 + 2) \div 3 = 0 /\ 4 * 0 = 0
      BY DEF IsBytes
    <3>3. Len(Commands!base64_encode(<<>>)) = 4 * 0
      BY <3>2, EncodedShape
    <3>4. DOMAIN e = {}
      BY <1>4, <2>1
    <3>. QED
      BY <2>1, <3>1, <3>2, <3>3, <3>4
  <2>2. CASE Len(e) # 0
    <3> DEFINE h == (Len(e) \div 4) - 1
    <3>1. h \in Nat /\ h + 1 \in Nat /\ Len(e) = 4 * h + 4 /\ Len(e) = 4 * (h + 1)
      BY <1>4, <1>7, <1>12, <2>2, Quarter, Zenon
    <3> HIDE DEF h
    <3>2. InShape(e, h + 1)
      BY <1>2, <1>12, <3>1, WellFormedIs, Zenon
    <3>3. /\ Len(a) = Len(e)
          /\ \A i \in 1 .. Len(e) :
               ~Under(D, e[i]) \/ (i < Len(e) /\ Under(D, e[i + 1])) \/ i = Len(e) => a[i] = e[i]
      BY <1>2, <3>1, <3>2, AgainIs, Zenon
    <3> HIDE DEF a, digits
    <3>. QED
      BY <1>4, <1>5, <1>6, <3>3, Zenon
  <2>. QED
    BY <2>1, <2>2
<1> HIDE DEF a, digits
<1>. QED
  <2>1. result.ok => Commands!base64_encode(result.bytes) = a
    BY <1>8, <1>10, <1>11, Zenon DEF a
  <2>. QED
    BY <1>11, <1>12, <2>1, Zenon DEF e, result, digits

\* Whatever a command prints or writes another reads back, unless it is longer than the
\* limit, and of other texts the well-formed are taken, for the bytes they have room for:
\* with every radix, all byte strings and texts, however long.
THEOREM WrittenReadsBack == Commands!ReadsBack /\ (Commands!Spec => []ReadsBack)
<1>1. Commands!ReadsBack
  BY WrittenIsRead, ReadIsWritten, Zenon DEF Commands!ReadsBack
<1>2. ReadsBack
  BY <1>1, Zenon DEF ReadsBack
<1>. QED
  BY <1>1, <1>2, PTL
=============================================================================
