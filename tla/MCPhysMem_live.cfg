SPECIFICATION FairSpec
CONSTANTS
  Session = {s1}
  Thread = {t1, t2}
  Page = {p1, p2}
  Vma = {v1}
  MaxReq = 2
  Lengths <- MCLengths
  StatusSize = 56
  PageSize = 4096
  SizeMax = 65535
  MceEvents = FALSE
  NoPage = NoPage
  NoSession = NoSession
  NoVma = NoVma
  Nobody = Nobody
  Closer = Closer
PROPERTIES CallsReturnOnceCopied ReleaseTerminates
