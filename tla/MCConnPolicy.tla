---------------------------- MODULE MCConnPolicy ----------------------------
(* Instances of ConnPolicy for TLC. *)
EXTENDS ConnPolicy

(* Every central there is with tick() left alone; with tick() interrupted, *)
(* the centrals that change nothing by themselves, for of the others no    *)
(* property speaks then.                                                   *)
MostSettings == {s \in Surroundings : ~(s.preempted /\ s.volunteers)}

(* A central that ignores requests and does nothing by itself. *)
Ignoring == {[obliging |-> FALSE, volunteers |-> FALSE, preempted |-> FALSE]}
=============================================================================
