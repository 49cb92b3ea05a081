SPECIFICATION Spec
CONSTANTS
  Peers = {a, b, c}
  NoPeer = NoPeer
  MaxPeers = 2
  Faults = {"io", "power"}
SYMMETRY MCSymmetry
CONSTRAINT MCCardWorks
INVARIANT TypeOK NoSilentStranger PairingSticks TokensAreListed
