CONSTANTS
  b1 = b1
  Body = {b1}
  Findable = {b1}
  Inbound <- MCEveryFate
  Category = {"3;"}
  NoCategory = NoCategory
  NoIndex = NoIndex
  IOFaults = TRUE
  OpenFaults = TRUE
  i1 = i1
  Importers = {i1}
  Taggers = {}
  NoProc = NoProc
  MaxMail = 2
SPECIFICATION FairSpec
PROPERTIES
  
  ImplementsAtomicIndex
  EveryRunEnds
