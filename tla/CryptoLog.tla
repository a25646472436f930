------------------------------ MODULE CryptoLog ------------------------------
(***************************************************************************)
(* The logging hook of the library.  One thread, Owner, registers sinks,   *)
(* one after the other; the library's threads log.  The sink is read and   *)
(* written under the mutex, and called with it held; the threshold is an   *)
(* atomic read before the mutex is taken and written after it was given    *)
(* back.  Loads and stores of the threshold are taken to be sequentially   *)
(* consistent.  A sink is assumed not to log itself.                       *)
(***************************************************************************)
EXTENDS Integers, Sequences

CONSTANTS
  Owner,          \* the thread that registers sinks
  Logger,         \* the threads that log
  Sink,           \* sinks
  NoSink,         \* the null sink
  Registrations,  \* what Owner registers: a sequence of [fn, threshold]
  Level,          \* the levels of messages
  Off             \* the threshold above every level

ASSUME LogAssumption ==
  /\ Owner \notin Logger
  /\ NoSink \notin Sink \cup Logger
  /\ Level \subseteq Int /\ Off \in Int
  /\ \A l \in Level : l < Off
  /\ Registrations \in Seq([fn : Sink \cup {NoSink}, threshold : Level \cup {Off}])

VARIABLES
  locked,     \* the thread that holds the mutex, or NoSink
  fn,         \* the registered sink
  threshold,  \* the least level that is logged
  made,       \* how many registrations Owner has begun
  pc,         \* per thread: the next statement
  level,      \* per logger: the level of its message
  outcome,    \* per logger: who got its last message, NoSink for nobody
  begun       \* history, per logger: the registration in force when its call
              \* began, -1 when one was under way

vars == <<locked, fn, threshold, made, pc, level, outcome, begun>>

\* What crypto_set_log_sink stores for a registration: no sink, no logging.
ThresholdOf(r) == IF r.fn = NoSink THEN Off ELSE r.threshold

Init ==
  /\ locked = NoSink
  /\ fn = NoSink
  /\ threshold = Off
  /\ made = 0
  /\ pc = [t \in Logger \cup {Owner} |-> "idle"]
  /\ level = [t \in Logger |-> Off]
  /\ outcome = [t \in Logger |-> NoSink]
  /\ begun = [t \in Logger |-> 0]

Goto(t, from, to) == pc[t] = from /\ pc' = [pc EXCEPT ![t] = to]

-----------------------------------------------------------------------------
(* crypto_set_log_sink *)

SetBegin ==
  /\ made < Len(Registrations)
  /\ made' = made + 1
  /\ Goto(Owner, "idle", "set_fn")
  /\ UNCHANGED <<locked, fn, threshold, level, outcome, begun>>

\* Replaces the sink and destroys the old one, with the mutex held.
SetFn ==
  /\ Goto(Owner, "set_fn", "set_threshold")
  /\ locked = NoSink
  /\ fn' = Registrations[made].fn
  /\ UNCHANGED <<locked, threshold, made, level, outcome, begun>>

\* Deviation: the threshold of an earlier registration stays.
SetThresholdOnce ==
  /\ Goto(Owner, "set_threshold", "idle")
  /\ threshold' = IF threshold = Off THEN ThresholdOf(Registrations[made]) ELSE threshold
  /\ UNCHANGED <<locked, fn, made, level, outcome, begun>>

SetThreshold ==
  /\ Goto(Owner, "set_threshold", "idle")
  /\ threshold' = ThresholdOf(Registrations[made])
  /\ UNCHANGED <<locked, fn, made, level, outcome, begun>>

-----------------------------------------------------------------------------
(* crypto_log, and crypto_log_enabled before it where the message is built. *)

LogBegin(t) ==
  /\ \E l \in Level : level' = [level EXCEPT ![t] = l]
  /\ Goto(t, "idle", "enabled") \/ Goto(t, "idle", "check")
  /\ outcome' = [outcome EXCEPT ![t] = NoSink]
  /\ begun' = [begun EXCEPT ![t] = IF pc[Owner] = "idle" THEN made ELSE -1]
  /\ UNCHANGED <<locked, fn, threshold, made>>

Enabled(t) ==
  /\ threshold <= level[t]
  /\ Goto(t, "enabled", "check")
  /\ UNCHANGED <<locked, fn, threshold, made, level, outcome, begun>>

Below(t) ==
  /\ threshold > level[t]
  /\ Goto(t, "enabled", "idle") \/ Goto(t, "check", "idle")
  /\ UNCHANGED <<locked, fn, threshold, made, level, outcome, begun>>

Check(t) ==
  /\ threshold <= level[t]
  /\ Goto(t, "check", "lock")
  /\ UNCHANGED <<locked, fn, threshold, made, level, outcome, begun>>

Lock(t) ==
  /\ locked = NoSink
  /\ Goto(t, "lock", "locked")
  /\ locked' = t
  /\ UNCHANGED <<fn, threshold, made, level, outcome, begun>>

NoFn(t) ==
  /\ fn = NoSink
  /\ Goto(t, "locked", "idle")
  /\ locked' = NoSink
  /\ UNCHANGED <<fn, threshold, made, level, outcome, begun>>

\* Deviation: the sink is copied and called without the mutex.
CallSinkUnlocked(t) ==
  /\ fn # NoSink
  /\ Goto(t, "locked", "in_sink")
  /\ locked' = NoSink
  /\ outcome' = [outcome EXCEPT ![t] = fn]
  /\ UNCHANGED <<fn, threshold, made, level, begun>>

CallSink(t) ==
  /\ fn # NoSink
  /\ Goto(t, "locked", "in_sink")
  /\ outcome' = [outcome EXCEPT ![t] = fn]
  /\ UNCHANGED <<locked, fn, threshold, made, level, begun>>

\* The sink returns or throws.
SinkReturns(t) ==
  /\ Goto(t, "in_sink", "idle")
  /\ locked' = NoSink
  /\ UNCHANGED <<fn, threshold, made, level, outcome, begun>>

-----------------------------------------------------------------------------

Set == SetBegin \/ SetFn \/ SetThreshold

\* What a logger does once it is inside a call.
Log(t) ==
  Enabled(t) \/ Below(t) \/ Check(t) \/ Lock(t) \/ NoFn(t) \/ CallSink(t) \/ SinkReturns(t)

Next == Set \/ \E t \in Logger : LogBegin(t) \/ Log(t)

Spec == Init /\ [][Next]_vars

-----------------------------------------------------------------------------
(* Properties *)

\* Every variable has its type.
TypeOK ==
  /\ locked \in Logger \cup {NoSink}
  /\ fn \in Sink \cup {NoSink}
  /\ threshold \in Level \cup {Off}
  /\ made \in 0 .. Len(Registrations)
  /\ pc[Owner] \in {"idle", "set_fn", "set_threshold"}
  /\ \A t \in Logger : pc[t] \in {"idle", "enabled", "check", "lock", "locked", "in_sink"}
  /\ level \in [Logger -> Level \cup {Off}]
  /\ outcome \in [Logger -> Sink \cup {NoSink}]
  /\ begun \in [Logger -> -1 .. Len(Registrations)]

\* A sink is not replaced, and so not destroyed, while a thread is inside it, and
\* never entered again after it was replaced.
SinkAlive == \A t \in Logger : pc[t] = "in_sink" => outcome[t] = fn

\* Who must get a message of level l while the n-th registration is in force.
Audience(n, l) ==
  IF n > 0 /\ l >= ThresholdOf(Registrations[n]) THEN Registrations[n].fn ELSE NoSink

\* A message whose call no registration overlaps reaches the registered sink if,
\* and only if, its level is at or above that registration's threshold.
Heard ==
  [][\A t \in Logger :
       pc[t] # "idle" /\ pc'[t] = "idle" /\ begun[t] = made
         => outcome[t] = Audience(made, level[t])]_vars
=============================================================================
