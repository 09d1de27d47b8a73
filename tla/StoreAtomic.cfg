SPECIFICATION Spec
CONSTANTS
  t1 = t1
  t2 = t2
  p1 = p1
  p2 = p2
  k1 = k1
  k2 = k2
  m1 = m1
  r1 = r1
  Null = Null
  Task = {t1, t2}
  Page = {p1}
  PageOf <- OnePage
  Item = {k1, m1, r1}
  SliceOf <- EachSlice
  Kinds = {"save", "delete", "import", "clear"}
  Overlap = FALSE
  MaxEntries <- TwiceOne
INVARIANTS TypeOK SavedStay
PROPERTIES ReadYourWrites AtomicSpec
