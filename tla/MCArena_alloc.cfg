SPECIFICATION Spec
CONSTANTS
  t1 = t1
  t2 = t2
  NoOne = NoOne
  Threads = {t1, t2}
  Owners = {t1, t2, NoOne}
  NPages = 5
  PageWords = 8
  CardWords = 4
  ConsWords = 6
  LargeWords = 8
  Granularity = 8
  SmallLimit = 4
  NumNewAreas = 8
  Gens = {0, 1, 2}
  MixedSizes = {4}
  ListSizes = {8}
  CodeSizes = {4}
  Trigger = 6
  MaxCollections = 1
  Budgets <- MCBudgets
  BlockWords = 5
  Quantum = 1
  MinKeep = 2
  RefillLimit = 5
  HugeWords = 5
  SizeLimit = 10
INVARIANTS NoOverlap FreshMemoryIsZero AccountingIsExact ArenaObjectsAreScanned
CHECK_DEADLOCK FALSE
