SPECIFICATION Spec
CONSTANTS
  Session = {s1}
  Thread = {t1, t2}
  Page = {p1, p2}
  Vma = {v1, v2, v3}
  MaxReq = 3
  Lengths <- MCLengths
  StatusSize = 56
  PageSize = 4096
  SizeMax = 65535
  MceEvents = TRUE
  NoPage = NoPage
  NoSession = NoSession
  NoVma = NoVma
  Nobody = Nobody
  Closer = Closer
SYMMETRY Symmetry
INVARIANTS TypeOK CallOK StatiInArray OffsetsDense IdleHoldsNothing SessionAgrees RefCount
