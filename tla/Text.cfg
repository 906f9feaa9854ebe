CONSTANTS
  EventCapacity = 2
  InputCapacity = 2
  MaxWire = 3
  MaxStrokes = 4
  Columns = 2
  Rows = 3
  Glyphs = {"x", "y"}
  MaxBytes = 10
  MaxSegments = 2
  MaxArgs = 2
  LineCapacity = 3
  Alphabet = {"a", " ", "single", "double", "backslash", "&", ";"}
  MaxLine = 6
  Capacity = 7
  MaxComponents = 2
  Bytes = {"/", ".", "a"}
  MaxPath = 5
SPECIFICATION Spec
INVARIANTS
  InputFaithful
  ScreenShowsDocument
  ParsedAsMeant
  ResolvesAsMeant
  ResolversAgree
CHECK_DEADLOCK FALSE
