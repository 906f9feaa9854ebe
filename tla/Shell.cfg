CONSTANTS
  Dirs = {"/system/bin", "/bin"}
  Disks <- SomeDisks
  Statuses = {0, 7}
  MaxWord = 255
  MaxEntries = 2
  MaxSegments = 3
  Commands = {"malformed", "cd", "set", "unset", "env", "exit", "explicit", "where_explicit", "bare", "where"}
  HomeDir = "/bin"
  MaxVars = 2
  MaxKey = 1
  MaxValue = 1
  KeyBytes = {"k", "l", "m", "="}
  ValueBytes = {"a"}
  Sizes = {0, 7}
  MaxDepth = 2
  Word = 2
  AddressLimit = 256
  ImageBase = 32
  StackBase = 96
  StackTop = 128
  MaxArgs = 4
  MaxPayload = 8
  Executables <- SomeExecutables
  ArgumentLists <- SomeArguments
  RawCalls <- SomeCalls
SPECIFICATION Spec
INVARIANTS
  OperatorsHonoured
  FirstOnPathRuns
  WhereTellsWhatRuns
  ArgumentsReachChild
  StartupBlockSound
  BuffersInUserSpace
PROPERTY ImplementsEnvMap
CHECK_DEADLOCK FALSE
