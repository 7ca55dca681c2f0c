\* Six records in batches of one, two and four, generated again and again, on three threads.
SPECIFICATION Spec
CONSTANTS
  Seeds = {5, 202}
  Total = 6
  BatchSizes = {1, 2, 4}
  Concurrency = 3
  MaxInvocations = 3
  Word = 256
  MinLine = 1100
  Xor <- MCXor
  Mix <- MCMix
  Stream <- MCStream
  Lines <- MCLines
  LineWeights <- MCLineWeights
  Exception <- MCException
INVARIANTS
  Reproducible
  StreamsAreDistinct
  EveryRecordIsMade
  MessagesFit
