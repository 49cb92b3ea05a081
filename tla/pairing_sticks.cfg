SPECIFICATION Spec
CONSTANTS
  Peers = {a, b}
  NoPeer = NoPeer
  MaxPeers = 2
  Faults = {}
CONSTRAINT MCNoConsole
INVARIANT EveryPairingSticks
