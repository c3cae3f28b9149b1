CONSTANTS
  m1 = m1
  m2 = m2
  m3 = m3
  Stored <- MCStored
  NoItem = NoItem
  NoList = NoList
  LastRow = 2
  MaxRequests = 2
  MaxBlocks = 2
SPECIFICATION Spec
INVARIANTS
  AllMailsIsAllMails
