--------------------------- MODULE MCSessionLayer ---------------------------
(* Instances of SessionLayer for TLC. *)
EXTENDS SessionLayer

CONSTANTS a, b, c

TwoApps   == {a, b}
ThreeApps == {a, b, c}
OnlyA     == {a}
NoApps    == {}

NoRaces == {}
UnsharedTable == RaceNames \ {"slot"}
=============================================================================
