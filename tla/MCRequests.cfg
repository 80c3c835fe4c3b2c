SPECIFICATION Spec
CONSTANTS
  Words <- SomeWords
  Years <- SomeYears
  Meanings <- SomeMeanings
  Styles <- SomeStyles
  Holders <- SomeHolders
  Rewrites <- SomeRewrites
  Root <- Doc
  Tree <- SomeTree
  File <- SomeFile
  Entries <- SomeEntries
  EntriesFrom = 30
  Room = 200
  Origins <- SomeOrigins
  MaxMonths = 2
  MaxVersions = 2
INVARIANTS
  TypeOK
  HeadersReadBack
  AnsweredAsMeant
  HeadersFit
PROPERTIES
  NotModifiedIsTrue
