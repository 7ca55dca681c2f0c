\* Two wanted versions, one whose text contains the other's, and three troubles.
SPECIFICATION FairSpec
CONSTANTS
  Versions = {"26.7.3.19", "0.92.2", "0.92.20"}
  Extends <- MCExtends
  Pin = "26.7.3.19"
  Wanted = {"0.92.2", "0.92.20"}
  MaxTrouble = 3
INVARIANT SuccessMeansWanted
PROPERTIES OnlyVerifiedClickHouse Repaired
