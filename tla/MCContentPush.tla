--------------------------- MODULE MCContentPush ---------------------------
(* Instances of ContentPush and the properties TLC checks on them.         *)
EXTENDS ContentPush

MCPayloads == 1 .. MaxBatch
MCPushIds == 0 .. MaxBatch

Plan(f, isFlagged, wantsAnswer) ==
  [fields |-> f, flagged |-> isFlagged, asks |-> wantsAnswer]

(* The batches the protocol document recommends: tag state last. *)
DocumentedPlans == {Plan(<<"title", "body">>, TRUE, TRUE),
                    Plan(<<"body", "contentId">>, TRUE, TRUE),
                    Plan(<<"title", "body", "tagState">>, TRUE, TRUE),
                    Plan(<<"tagState">>, TRUE, FALSE)}

Client(pipelined, prompt, preempted, flaps) ==
  [pipelined |-> pipelined, prompt |-> prompt, preempted |-> preempted, flaps |-> flaps]

(* Orderly; slow; interrupted; and one with no discipline at all. *)
MixedClients == {Client(FALSE, TRUE, FALSE, FALSE), Client(FALSE, FALSE, FALSE, FALSE),
                 Client(FALSE, TRUE, TRUE, TRUE), Client(TRUE, FALSE, TRUE, TRUE)}

(* Orderly, but another app may take the screen inside a batch. *)
PreemptedClient == {Client(FALSE, TRUE, TRUE, FALSE)}
=============================================================================
