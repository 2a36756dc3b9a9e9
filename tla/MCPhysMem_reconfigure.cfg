SPECIFICATION Spec
CONSTANTS
  Session = {s1}
  Thread = {t1}
  Page = {p1}
  Vma = {v1}
  MaxReq = 1
  Lengths <- MCLengths
  StatusSize = 56
  PageSize = 4096
  SizeMax = 65535
  MceEvents = FALSE
  NoPage = NoPage
  NoSession = NoSession
  NoVma = NoVma
  Nobody = Nobody
  Closer = Closer
PROPERTY ReconfigureOnlyUnmapped
