CONSTANTS
  MaxProcesses = 5
  MaxThreads = 5
  UsizeMax = 5
  ExitStatuses = {0, 1, 4}
  Pages = {p1, p2, p3, p4, p5}
  ProgramSizes = {1, 2}
  MaxLostPages = 2
  KernelSpace = KernelSpace
SYMMETRY PageSymmetry
SPECIFICATION Spec
INVARIANTS
  TypeOK
  NeverStuck
  WaitersMatch
  OneUserRuns
  CpuFollowsScheduler
  PagesAccounted
  SilenceInherited
PROPERTIES
  ExitStatusReachesParent
  ImplementsSpawnWait
