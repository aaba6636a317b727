\* Two threads; one finds the inode the other is still reading.
CONSTANTS
  t1 = t1  t2 = t2  n1 = n1  n2 = n2  n3 = n3
  root = root  dir = dir  file = file  link = link
  None = None
  Threads = {t1, t2}
  Nodes = {n1, n2, n3}
  Inos = {root, dir, file, link}
  Root = root
  Kind <- Kinds
  Child <- Tree
  Paths <- Existing
  Calls = {"opendir", "open"}
  Files = {1}
  DeviceFails = FALSE
  Corrupt = FALSE
  MaxCount = 3
SPECIFICATION Spec
SYMMETRY Symmetry
INVARIANT AnswersTrue
