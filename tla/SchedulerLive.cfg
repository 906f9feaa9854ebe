CONSTANTS
  MaxProcesses = 3
  MaxThreads = 4
  UsizeMax = 5
  ExitStatuses = {0, 1}
  Pages = {p1, p2, p3, p4}
  ProgramSizes = {1}
  MaxLostPages = 0
  KernelSpace = KernelSpace
SPECIFICATION FairSpec
PROPERTIES
  TerminalServed
  RunnableRuns
  ParentAnswered
