\* Two threads, every handler, paths that do and do not exist, a
\* device that fails or is corrupt.
CONSTANTS
  t1 = t1  t2 = t2  n1 = n1  n2 = n2  n3 = n3
  root = root  dir = dir  file = file  link = link
  None = None
  Threads = {t1, t2}
  Nodes = {n1, n2, n3}
  Inos = {root, dir, file, link}
  Root = root
  Kind <- Kinds
  Child <- Tree
  Paths <- Through
  Calls = {"getattr", "opendir", "open", "readlink", "readdir"}
  Files = {1}
  DeviceFails = TRUE
  Corrupt = TRUE
  MaxCount = 3
SPECIFICATION Spec
SYMMETRY Symmetry
INVARIANTS HeldIsCounted OpenPinned RootAssert
PROPERTIES LeaksKnown
