\* Three batches that land and finish in any order on two backends, one permit.
SPECIFICATION FairSpec
CONSTANTS
  Enabled = {"o2_parquet", "clickhouse"}
  Total = 3
  BatchSize = 1
  Concurrency = 1
  U64Max = 6
  Anchor = 1
  MaxClock = 0
  StderrBreaks = FALSE
PROPERTIES
  ImplementsContract
  Terminates
