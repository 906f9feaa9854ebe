CONSTANTS
  PageWords = 4
  LastPage = 51
  MaxOwnedPages = 12
  WindowStart = 12
  UserImageBase = 4
  UserStackBase = 11
  UserStackTop = 12
  MaxSegmentPages = 4
  AhciPages = 2
  MaxSharedMappings = 7
  HeaderWords = 2
  RsdpWords = 2
  Pm1LengthEnd = 3
  XDsdtEnd = 4
  XPm1aEnd = 5
  XPm1bEnd = 6
  MaxPort = 255
  Machines <- AllMachines
  Programs <- SomePrograms
  MaxLive = 3
  MaxFailures = 3
  MapEnd = 9
  FirstPage = 2
  HugePage = 4
  MaxFreeRanges = 3
  MaxDonations = 2
  Requests = {1, 2}
  PageBytes = 2
  StackPages = 2
  TableCapacity = 8
  WindowFirst = 2
  WindowUnit = 4
  ProgramHeaderSize = 1
  Firmwares <- AllFirmwares
SPECIFICATION Spec
INVARIANTS
  ProgramsSeeTheirImage
  KernelSeenEverywhere
  PagesPartitioned
  ShutdownPowersOff
  AllocatorSound
  HandoffSound
PROPERTIES
  PanicOnlyWhenFragmented
  ImplementsPagePool
CHECK_DEADLOCK FALSE
