SPECIFICATION ExporterFairSpec
CONSTANTS
  Scrapers = {s1, s2, s3}
  None = None
CHECK_DEADLOCK FALSE
INVARIANTS
  NoClientLost
  PanicNeedsRace
  RemovalCleans
PROPERTIES
  RemovalEnds
