----------------------------- MODULE CheckList -----------------------------
(***************************************************************************)
(* What a to-do list on the device is to its user, and all that TodoSync   *)
(* may do with it: one document the phone pushed, shown with exactly the   *)
(* check-offs the user made on that document.                              *)
(***************************************************************************)
CONSTANTS Items, Documents   \* a document: [rev : its revision, checked : its items checked]

VARIABLES document, boxes    \* boxes: the items shown checked
vars == <<document, boxes>>

Init == document \in Documents /\ boxes = document.checked

(* The user checks one item off, or on again. *)
Flip(i) == /\ boxes' = (boxes \ {i}) \cup ({i} \ boxes)
           /\ UNCHANGED document

(* A device that removes its check-offs before it has written the new ones  *)
(* can lose them, but only all together.                                   *)
Lose == boxes' = document.checked /\ UNCHANGED document

(* Another document, whole and without the check-offs of the one before.   *)
(* The document with no number is no document: the device removes the old  *)
(* one before the new one has its name.                                    *)
Replace == /\ document' \in Documents /\ document' # document
           /\ boxes' = document'.checked

Next == \/ \E i \in Items : Flip(i)
        \/ Lose
        \/ Replace

Spec == Init /\ [][Next]_vars
=============================================================================
