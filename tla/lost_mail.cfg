CONSTANTS
  b1 = b1
  Body = {b1}
  Findable = {b1}
  Inbound <- MCIndexable
  Category = {"3;"}
  NoCategory = NoCategory
  NoIndex = NoIndex
  IOFaults = FALSE
  OpenFaults = FALSE
  i1 = i1
  Importers = {i1}
  Taggers = {}
  NoProc = NoProc
  MaxMail = 1
SPECIFICATION Spec
PROPERTIES
  DuplicateStaysIndexed
