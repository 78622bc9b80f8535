SPECIFICATION MapsSpec
CONSTANTS
  PageSize = 2
  AddrTop = 8
  MaxEntries = 4
  KeepFirstPage = FALSE
  NPages = 12
  Low = 11
  ImagePages = {2}
  StackPages = {3, 4, 5}
  BufferPage = 1
  Reserve = 1
  MaxChunk = 4
  MinChunk = 3
  FallbackChunk = 2
  Slack = 1
  MaxRetries = 3
  Stubborn = {8}
  FirmwareMaps <- UefiMaps
  Cuts = {7}
  FirmwareMoves = 1
  Loans = 1
  Page = 2
  FourGiB = 8
INVARIANTS
  SanitisedMap
  UsesOnlyGrants
  ReleaseKeepsImage
  PublishedMapsExact
  NearestMode
  SplitsAreSound
  DirectMapExact
  ExecutableMapped
PROPERTIES
  Settles
  ExitEnds
