SPECIFICATION Spec

CONSTANTS
  a = a
  b = b
  NoApp = NoApp
  Missing = Missing
  Apps <- OneApp
  ListApps = {}
  Kinds <- OnlyImages
  MaxPush = 2
  Chunks = 2
  QueueLen = 3
  Environments <- OnlyAssets

PROPERTIES
  EveryPushIsAnswered
