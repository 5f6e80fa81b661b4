SPECIFICATION QueueSpec
CONSTANTS
  t1 = t1
  t2 = t2
  t3 = t3
  f = f
  g = g
  plain = plain
  canonical = canonical
  given = given
  NoPath = NoPath
  Tasks = {t1, t2, t3}
  Files = {f, g}
  Paths = {plain, canonical, given}
  FileOf <- FileOfPath
  Canonical <- CanonicalPath
  MaxEntries = 2
SYMMETRY Symmetry
CHECK_DEADLOCK FALSE
INVARIANTS
  QueueTypeOK
  Serialized
PROPERTIES
  NoOvertaking
