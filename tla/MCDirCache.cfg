SPECIFICATION Spec
CONSTANTS
  h1 = h1
  h2 = h2
  h3 = h3
  Nfsdirs = {h1, h2, h3}
  Dirs = {"d", "e"}
  MAX_DIR_CACHE = 1
  MaxParts = 2
  MaxChanges <- MCMaxChanges
SYMMETRY Symmetry
INVARIANTS CacheSound OwnChangesSeen
CHECK_DEADLOCK FALSE
