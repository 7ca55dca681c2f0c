\* One fan-out batch on one backend, with a stderr that stops taking writes.
SPECIFICATION Spec
CONSTANTS
  Enabled = {"clickhouse"}
  Total = 2
  BatchSize = 1
  Concurrency = 1
  U64Max = 6
  Anchor = 1
  MaxClock = 0
  StderrBreaks = TRUE
INVARIANTS
  FailedCountsFailures
