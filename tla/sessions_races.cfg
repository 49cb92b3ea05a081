SPECIFICATION Spec
CONSTANTS
  a = a
  b = b
  c = c
  NoPeer = NoPeer
  Nothing = Nothing
  Peers <- TwoApps
  MaxSessions = 2
  Declared <- TwoApps
  ImagePeers <- OnlyA
  Races <- UnsharedTable
INVARIANTS
  OneSessionPerPeer
  DrivenScreenStaysAwake
