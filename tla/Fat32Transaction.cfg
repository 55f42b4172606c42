SPECIFICATION Spec
CONSTANTS
  a = a
  b = b
  tmp = tmp
  NoFile = NoFile
  Broken = Broken
  Names <- MCNames
  Temporary = tmp
  NumClusters = 6
  ShortNames <- MCShortNames
  NumPlaces = 9
  SectorPlaces = 3
  Gaps <- MCGaps
  Beyond = 1
  Sizes <- MCSizes
  MetadataInterval = 2
  MaxOperations = 3
  MaxErrors = 1
  MaxCrashes = 1
INVARIANTS AtomicNames RenameKeepsTheFile DamageIsConfined NothingLeaks
CHECK_DEADLOCK FALSE
