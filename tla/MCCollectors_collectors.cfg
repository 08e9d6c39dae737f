SPECIFICATION CollectorsSpec
CONSTANTS
  NotUsed = NotUsed
  Mutator = Mutator
  Collector = Collector
  Owners = {Mutator, Collector}
  Cells = {"x", "y"}
  Oldest = 2
  Promotion = 1
  Gens = {0, 1, 2, 3, 4}
  NPages = 10
  PageWords = 16
  CardWords = 8
  ConsWords = 14
  LargeWords = 16
  Granularity = 16
  SmallLimit = 8
  NumNewAreas = 2
  Scripts <- CopyingScripts
INVARIANTS GraphIsKept YoungIsRemembered BooksAreExact WeakIsBroken
CHECK_DEADLOCK FALSE
