\* Five records in three batches, the last one short, for two backends through two
\* permits; reporting a failure may panic.
SPECIFICATION Spec
CONSTANTS
  Enabled = {"o2_parquet", "clickhouse"}
  Total = 5
  BatchSize = 2
  Concurrency = 2
  U64Max = 9
  Anchor = 1
  MaxClock = 0
  StderrBreaks = TRUE
INVARIANTS
  TypeOK
  FanOutBounded
  BatchesPartition
  RecordsAccountedFor
  ProgressHonest
  TargetFailuresAgree
PROPERTIES
  ProgressNeverGoesBack
