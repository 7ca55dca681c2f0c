\* Two files of at most two entries over one scan and one aggregation query.
SPECIFICATION Spec
CONSTANTS
  System <- MCSystem
  Base = {scan, histogram}
  Aggregation = {histogram}
  MaxQueries = 2
  scan = scan
  histogram = histogram
INVARIANTS
  NoQueryIsLost
  SamplesStayWithTheirQuery
CHECK_DEADLOCK FALSE
