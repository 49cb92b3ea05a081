---------------------------- MODULE MCPeerIndex ----------------------------
EXTENDS PeerIndex, TLC

(* Every definition treats all peers alike. *)
MCSymmetry == Permutations(Peers)

(* What a failed read, save or remove of the card may cost is excused for  *)
(* good, so there is nothing to look for behind it.                        *)
MCCardWorks == "card" \notin excuse

(* Nobody is forgotten from the serial console. *)
MCNoConsole == job["main"].names = {}
=============================================================================
