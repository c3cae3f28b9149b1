CONSTANTS
  b1 = b1
  b2 = b2
  Body = {b1, b2}
  Findable = {b1}
  Inbound <- MCIndexable
  c1 = c1
  c2 = c2
  Category = {c1, c2}
  NoCategory = NoCategory
  NoIndex = NoIndex
  IOFaults = TRUE
  OpenFaults = FALSE
  i1 = i1
  t1 = t1
  Importers = {i1}
  Taggers = {t1}
  NoProc = NoProc
  MaxMail = 2
SPECIFICATION Spec
SYMMETRY MCAlike
INVARIANTS
  TypeOK
  ImportIsExact
  TrainedOnWhatIsClassified
  TaggingIsExact
  IdsAreUnique
PROPERTIES
  ImplementsAtomicIndex
