SPECIFICATION Spec
CONSTANTS
  a = a
  b = b
  c = c
  NoPeer = NoPeer
  Nothing = Nothing
  Peers <- ThreeApps
  MaxSessions = 2
  Declared <- TwoApps
  ImagePeers <- OnlyA
  Races <- NoRaces
INVARIANTS
  TypeOK
  ScreenAnnounced
  NoGhostSession
  PageBelongsToForeground
PROPERTIES
  ConfirmsWhatIsAsked
