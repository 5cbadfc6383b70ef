SPECIFICATION Spec
CONSTANTS
  Readers = {"w1", "w2"}
  Web = {"w1", "w2"}
  MaxRows = 2
  MaxId = 4
  Kinds = {"pool", "hops", "checks"}
  Items = {1, 2}
  MaxScans = 2
  Names = {"a", "b"}
  Bodies = {1, 2}
  FileOrder <- MCFileOrder
  NameFile <- MCNameFile
  StartFiles <- MCStartFiles
  Bundles <- MCBundles
  MaxQueue = 2
  MaxRequests = 3
  Configs <- MCConfigs
  Profiled <- MCProfiled
  Keys = {"k", "l"}
  MaxInterval = 2
  IpInterval = 1
  WeekLength = 4
  DayLength = 2
INVARIANT NewIsUnread
INVARIANT ResultsBelong
INVARIANT OnlyStopsCut
PROPERTY ScanEnds
INVARIANT QuietMeansLoaded
PROPERTY OthersUntouched
INVARIANT OneFilePerName
PROPERTY ForcedServed
PROPERTY KeepsUp
