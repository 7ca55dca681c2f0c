\* A remote backend whose page cache the operator dropped before the pass.
SPECIFICATION Spec
CONSTANTS
  Backends = {o2_parquet}
  Local = {}
  NumVariants = 2
  Runs = 2
  Attestable = {o2_parquet}
  Overlap = FALSE
  MaxPasses = 1
  o2_parquet = o2_parquet
INVARIANT
  ColdIsCold
