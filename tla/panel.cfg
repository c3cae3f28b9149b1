CONSTANTS
  MaxShift = 12
  MaxBlocks = 4
SPECIFICATION Spec
INVARIANTS
  TypeOK
  PanelMatchesFlag
PROPERTIES
  DriftIsForGood
