\* All three backends, row by row refusals, event times that saturate.
SPECIFICATION Spec
CONSTANTS
  Enabled = {"o2_parquet", "o2_vortex", "clickhouse"}
  Total = 3
  BatchSize = 2
  Concurrency = 1
  U64Max = 6
  Anchor = 5
  MaxClock = 1
  StderrBreaks = FALSE
INVARIANTS
  CreatedAtIsEarliest
  SentIsStored
  CleanExitIsComplete
  PrimedFirst
  FailedCountsFailures
  EventRangeIsStored
