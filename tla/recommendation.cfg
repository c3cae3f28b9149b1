CONSTANTS
  m1 = m1
  m2 = m2
  NoItem = NoItem
  NoScore = NoScore
  NoList = NoList
  EmptyToken = EmptyToken
  Stored <- MCStored
  Tokens <- MCTokens
  Answers <- MCAnswers
  Copies = 2
  LastRow = 2
  MaxTaps = 1
SPECIFICATION Spec
INVARIANTS
  TypeOK
  ScoreCountsTopics
  RankedByResemblance
  CrashesOnlyOnShortAnswer
PROPERTIES
  TapShowsItsCell
