SPECIFICATION Spec
CONSTANTS
  t1 = t1
  t2 = t2
  p1 = p1
  p2 = p2
  k1 = k1
  k2 = k2
  m1 = m1
  r1 = r1
  Null = Null
  Task = {t1, t2}
  Page = {p1, p2}
  PageOf <- TwoPages
  Item = {k1, k2}
  SliceOf <- TwoKeys
  Kinds = {"save"}
  Overlap = TRUE
  MaxEntries <- OnceEach
INVARIANTS SavedStay
