-------------------------- MODULE MCImageTransfer --------------------------
(* Instances of ImageTransfer for TLC. *)
EXTENDS ImageTransfer

CONSTANTS a, b

OneApp  == {a}
TwoApps == {a, b}
OfB     == {b}

OnlyImages == {"image"}
OnlyTexts  == {"text"}
Both       == {"image", "text"}

(* A bad link and card; assets and hasty apps; a page drawn again; all of  *)
(* a patient app's troubles.                                               *)
OneAtATime == {{"loss", "card", "stall", "refused", "asset", "tags"},
               {"loss", "asset", "refused", "redraw", "pipeline"},
               {"loss", "stall", "refused", "redraw", "asset", "prompt", "tags"},
               {"loss", "card", "stall", "refused", "redraw"}}

(* All of one patient app's troubles; two patient apps that lose the link; *)
(* two that change places; one hasty app with all of its troubles.         *)
Shared == {{"loss", "card", "stall", "refused", "redraw"},
           {"drop"},
           {"handover", "refused"},
           {"pipeline", "asset", "loss", "card", "stall", "redraw", "tags", "prompt"}}

OnlyAssets == {{"asset"}}
OnlyLoss   == {{"loss"}}
=============================================================================
