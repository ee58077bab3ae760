SPECIFICATION MCSpec
CONSTANTS
  MaxRevision = 3
  MaxJobs = 4
  MaxForeign = 1
  PoolSize = 2
  MaxAttempts = 2
  Scopes <- MCScopes
  SampleFrames <- MCSampleFrames
  Identifiers <- MCIdentifiers
  Melodies <- MCMelodies
  Scalars <- MCScalars
  ReadSizes = {1, 3}
  SampleRates = {8000, 11025, 44000}
  BlockFrames = 2
  BlockBytes = 4
  Levels <- MCLevels
  ForeignSizes = {10, 12, 36, 46, 48, 55, 56, 58, 62}
  ForeignChunks = {0, 1, 2, 4, 16}
  ForeignFormats <- MCFormats
  ForeignSamples <- MCSamples
  InspectLimits <- MCLimits
  SourceSizes <- MCSourceSizes
  PngSizes = {4, 40, 60}
  PngLengths = {0, 13, 100}
  Orientations = {0, 1, 6, 9}
  Crops <- MCCrops
  Terminals = {t1, t2}
  MaxCommands = 4
  MaxMishaps = 1
  Configurations <- MCConfigurations
  Identities = {"usb", "hdmi", ""}
  Versions = {"2.0", "1.4"}
  DeviceLists <- MCDeviceLists
INVARIANTS
  PreviewIsCurrent
  FilesAreWhole
  EncodingIsComplete
  HeadersReadBack
  ColoursAreLegal
  RendersInTime
  AcceptedFilesAreSound
  PreparedFrameFits
  EvidenceIsEarned
  PairAgrees
PROPERTIES
  OnlyConfirmedOverwrites
  BusyEnds
CHECK_DEADLOCK FALSE
