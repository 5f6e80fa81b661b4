SPECIFICATION IssueSpec
CONSTANTS
  p1 = p1
  p2 = p2
  t1 = t1
  t2 = t2
  t3 = t3
  Nobody = Nobody
  Processes = {p1, p2}
  Tasks = {t1, t2, t3}
  ProcessOf <- MCProcessOf
  MaxWrites = 3
SYMMETRY Symmetry
CHECK_DEADLOCK FALSE
INVARIANTS
  NoLostUpdate
  HeldFileStays
PROPERTIES
  ClaimKept
