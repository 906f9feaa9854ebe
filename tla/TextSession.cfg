CONSTANTS
  InputCapacity = 3
  OutputCapacity = 2
  LineCapacity = 2
  MaxKeys = 4
  MaxWrites = 2
  MaxWrite = 3
SPECIFICATION FairSpec
INVARIANTS
  LineOnScreen
  AllShownAtShutdown
PROPERTIES
  EnteredLineIsRead
