\* Passes in any order and number; a data directory here is the backend's own.
SPECIFICATION Spec
CONSTANTS
  ClickHouse = clickhouse
  O2 = {o2_parquet, o2_vortex}
  RowCounts = {1, 2}
  MaxMedian = 2
  Null = Null
  NoStorage = NoStorage
  NoRows = NoRows
  Error = Error
  clickhouse = clickhouse
  o2_parquet = o2_parquet
  o2_vortex = o2_vortex
INVARIANTS
  MatchedRowsAreHeld
  MismatchHasACause
  FastestIsFastest
