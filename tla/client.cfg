CONSTANTS
  m1 = m1
  m2 = m2
  m3 = m3
  Stored <- MCStored
  NoItem = NoItem
  NoList = NoList
  LastRow = 2
  MaxRequests = 2
  MaxBlocks = 4
SPECIFICATION FairSpec
INVARIANTS
  TypeOK
  RowsFollowEmails
  DetailFollowsEmails
  HUDIsBalanced
  AllMailsIsOneAnswer
  SearchIsAnswered
PROPERTIES
  CrashesComeOfAnswers
  HUDDisappears
  RowsCatchUp
