CONSTANTS
  Page <- MCPage
  Original <- MCOriginal
  Char <- MCChar
  Lower <- MCLower
  Keyword <- MCKeyword
  Quoted <- MCQuoted
  NoKeyword = NoKeyword
  MaxCuts = 2
SPECIFICATION FairSpec
INVARIANTS
  TypeOK
  TextIsKept
  CountIsMarks
  SearchForgetsSearches
PROPERTIES
  RemovalIsComplete
  SearchEnds
