SPECIFICATION Spec

CONSTANTS
  a = a
  b = b
  NoApp = NoApp
  Missing = Missing
  Apps <- OneApp
  ListApps = {}
  Kinds <- Both
  MaxPush = 3
  Chunks = 2
  QueueLen = 2
  Environments <- OneAtATime

INVARIANTS
  ShownIsWhole
  NothingLeftBehind
  TextHasNoHole
