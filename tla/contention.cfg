CONSTANTS
  b1 = b1
  Body = {b1}
  Findable = {b1}
  Inbound <- MCIndexable
  Category = {"3;"}
  NoCategory = NoCategory
  NoIndex = NoIndex
  IOFaults = FALSE
  OpenFaults = FALSE
  i1 = i1
  i2 = i2
  t1 = t1
  Importers = {i1, i2}
  Taggers = {t1}
  NoProc = NoProc
  MaxMail = 2
SPECIFICATION FairSpec
INVARIANTS
  OneRunAtATime
  VerdictIsCurrent
PROPERTIES
  ImplementsTableFile
  EveryRunEnds
