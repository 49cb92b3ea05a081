SPECIFICATION Spec

CONSTANTS
  a = a
  b = b
  NoApp = NoApp
  Missing = Missing
  Apps <- TwoApps
  ListApps <- OfB
  Kinds <- OnlyImages
  MaxPush = 2
  Chunks = 2
  QueueLen = 2
  Environments <- Shared

INVARIANTS
  TypeOK
  AnsweredOnce

PROPERTIES
  OwedIsAnswered
