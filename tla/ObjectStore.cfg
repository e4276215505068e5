SPECIFICATION Spec
CONSTANTS
  Key = {k1, k2}
  Task = {t1, t2}
  Inode = {1, 2, 3, 4, 5, 6}
  Chunks = 2
  MaxPuts = 3
SYMMETRY TaskSymmetry
INVARIANTS ObjectsAreWhole DownloadsAreWhole PartsAreReclaimed
