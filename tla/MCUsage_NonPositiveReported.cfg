CONSTANTS
  Names <- MCNames
  Hashes <- MCHashes
  Tracked <- MCTracked
  RawNames <- MCRawNames
  RawCounts <- MCRawCounts
  Norm <- MCNorm
  IntOf <- MCIntOf
  MaxUsage = 2
  None = None
  NoReport = NoReport
  Untagged = Untagged
  NotObject = NotObject
  CountStr2 = CountStr2
  CountStrX = CountStrX
  CountNull = CountNull
  CountMissing = CountMissing
SPECIFICATION Spec
INVARIANT NonPositiveReported
