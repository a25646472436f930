CONSTANTS
  Owner = Owner
  Logger = {t1, t2}
  journal = journal
  console = console
  Sink = {journal, console}
  NoSink = NoSink
  Registrations <- FourRegistrations
  Level = {0, 2, 3}
  Off = 4
  \* No level is named: the fallback is at "warn" then.
  LevelName = {}
  MaxSinks = 2
  Run = {p1, p2, p3}
  Nobody = Nobody
  MaxEncoded = 8
  Radix = 2
  Data <- SomeData
  Text <- SomeText
SPECIFICATION MCSpec
CHECK_DEADLOCK FALSE
INVARIANTS MalformedFallsBack
