SPECIFICATION Spec
CONSTANTS
  GzipFiles <- AnyGzip
  Members <- AnyMember
  SnapshotMayChange = TRUE
  MaxArchiveChunks = 3
  MaxDecompressed = 6
  MaxMemberCount = 3
  MaxSingleFile = 2
  MaxTotalExtracted = 4
  MaxPathLength = 3
INVARIANTS
  GzipIsJudged
  AcceptedIffAcceptable
  ViewIsTheArchive
  WorkIsBounded
  CoverageIsTheArchives
CHECK_DEADLOCK FALSE
