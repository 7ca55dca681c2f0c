\* A backend beside the driver and a remote one, measured one at a time.
SPECIFICATION Spec
CONSTANTS
  Backends = {clickhouse, o2_parquet}
  Local = {clickhouse}
  NumVariants = 2
  Runs = 2
  Attestable = {o2_parquet}
  Overlap = FALSE
  MaxPasses = 3
  clickhouse = clickhouse
  o2_parquet = o2_parquet
INVARIANTS
  HotIsHot
  SummaryCurrent
  DroppedIsCold
  SummaryColdClaim
  PageColdClaim
PROPERTIES
  ResultsAccumulate
