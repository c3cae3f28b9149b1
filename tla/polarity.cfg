CONSTANTS
  good = good
  bad = bad
  dull = dull
  odd = odd
  Word = {good, bad, dull, odd}
  Positivos <- MCPositivos
  Neutros <- MCNeutros
  Negativos <- MCNegativos
  Body <- MCBody
  NoBody = NoBody
  OpenFaults = FALSE
SPECIFICATION Spec
INVARIANTS
  TypeOK
  SavedIsFromTheLists
  RatedByTheFile
PROPERTIES
  ImplementsTableFile
