CONSTANTS
  s1 = s1
  s2 = s2
  a1 = a1
  a2 = a2
  a3 = a3
  Session <- TwoSessions
  Attachment <- Three
  Stored <- TwoStored
  SessionOf <- Sessions
  Bytes <- Lengths
  c1 = c1
  c2 = c2
  Caller <- TwoCallers
  MaxBytes = 2
  MaxFiles = 2
  SessionBytes = 3
  Removable <- OneRemoved
  Reapable <- OneSession
  Faulty <- OneRemoved
  Needs <- TwoEach
  NoFile = NoFile
SPECIFICATION FairSpec
INVARIANTS RowNamesObject UsedAccounting FilesReclaimable
PROPERTIES EnsureAnswered
