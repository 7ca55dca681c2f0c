\* Two link dimensions and a flag, two metrics, two queries of which one fails on
\* OpenObserve, three history entries.
SPECIFICATION Spec
CONSTANTS
  LinkDims = {system, type}
  FlagDims = {hardware}
  Option = {clickhouse, o2, columnar, rust, cpu}
  System = system
  Data = {e1, e2, e3}
  Metric = {"hot", "size"}
  Query = {q0, q1}
  MaxHistory = 3
  Null = Null
  NoHash = NoHash
  DimOf <- MCDimOf
  Traits <- MCTraits
  LeftOut <- MCLeftOut
  Relative = {"hot"}
  Timed <- MCTimed
  Default <- MCDefault
  Shared <- MCShared
  system = system
  type = type
  hardware = hardware
  clickhouse = clickhouse
  o2 = o2
  columnar = columnar
  rust = rust
  cpu = cpu
  e1 = e1
  e2 = e2
  e3 = e3
  q0 = q0
  q1 = q1
INVARIANTS
  ControlsShowSelectors
  PassiveMeansNoRow
  TablesShowSelectors
  EntryHoldsSelection
  SharedLinkShowsTheSame
