---------------------------- MODULE ContentPush ----------------------------
(***************************************************************************)
(* A phone pushing atomic title/body/tag batches into CompanionBatchModel  *)
(* while CompanionModeActivity::loop() drains it: the host task's onField  *)
(* calls, the main loop's two steps (notice the link edge, then drain),    *)
(* the clock, link drops and handovers interleave freely.                  *)
(*                                                                         *)
(* Every field of the n-th batch carries n, so that what reaches the       *)
(* screen says which push it came from; a client that wants an answer uses *)
(* n as its push id too.                                                   *)
(***************************************************************************)
EXTENDS Sequences, FiniteSets, BatchModel

CONSTANTS MaxBatch,      \* bound: batches the phone pushes
          Plans,         \* batches a phone may push: [fields, flagged, asks]
          Clients        \* the clients and links considered, see Clientele

(* pipelined: starts a batch before the last one is resolved; prompt: never*)
(* lets Timeout pass inside a batch; preempted: another app may take the   *)
(* screen inside a batch; flaps: the link may change twice between two     *)
(* passes of the loop.                                                     *)
Clientele == [pipelined : BOOLEAN, prompt : BOOLEAN, preempted : BOOLEAN, flaps : BOOLEAN]

ASSUME BatchBound == MaxBatch \in Nat \ {0} /\ Payloads = 1 .. MaxBatch /\ PushIds = 0 .. MaxBatch
ASSUME PlansAssumption ==
  \A p \in Plans : p.fields \in Seq(Fields) \ {<< >>} /\ {p.flagged, p.asks} \subseteq BOOLEAN
ASSUME ClientsAssumption == Clients \subseteq Clientele

VARIABLES now, ticked,       \* millis(), and whether the loop ran in this tick
          loopAt,            \* where loop() is: "link" or "drain"
          linkUp, connected, \* the link, and the activity's copy of it
          client,            \* who pushes, for the whole of a behaviour
          batch, plan, flagged, asks,  \* the phone's push: number, fields to go, ...
          lost,              \* batches a text field of which was dropped
          due, answers,      \* answers owed to a phone still there; answers given
          shown              \* what is on the page: the batch of each part

clientVars == <<client, batch, plan, flagged, asks>>
vars == <<modelVars, now, ticked, loopAt, linkUp, connected, clientVars,
          lost, due, answers, shown>>

Parts == {"title", "body", "tags"}

TypeOK ==
  /\ ModelTypeOK
  /\ now \in 0 .. ClockSpan - 1 /\ ticked \in BOOLEAN
  /\ loopAt \in {"link", "drain"}
  /\ linkUp \in BOOLEAN /\ connected \in BOOLEAN
  /\ client \in Clients /\ batch \in 0 .. MaxBatch
  /\ plan \in Seq(Fields) /\ flagged \in BOOLEAN /\ asks \in BOOLEAN
  /\ lost \subseteq Payloads /\ due \subseteq Payloads
  /\ answers \in [Payloads -> Nat]
  /\ shown \in [Parts -> MaybePayload]

Init ==
  /\ ModelInit
  /\ now = 1 /\ ticked = FALSE /\ loopAt = "link"
  /\ linkUp = TRUE /\ connected = TRUE
  /\ client \in Clients /\ batch = 0 /\ plan = << >> /\ flagged = FALSE /\ asks = FALSE
  /\ lost = {} /\ due = {}
  /\ answers = [p \in Payloads |-> 0]
  /\ shown = [p \in Parts |-> NoPayload]

----------------------------------------------------------------------------
(* The phone, through the BLE host task. *)

BeginBatch(p) ==
  /\ linkUp /\ plan = << >> /\ batch < MaxBatch
  /\ client.pipelined \/ ~commitReady
  /\ batch' = batch + 1
  /\ plan' = p.fields /\ flagged' = p.flagged /\ asks' = p.asks
  /\ UNCHANGED <<modelVars, client, now, ticked, loopAt, linkUp, connected, lost, due, answers, shown>>

(* onContentField(): one END handed to the model.  Only a text field has a *)
(* sequence-numbered CHUNK whose loss drops it.                            *)
PushField(outcome) ==
  LET final == flagged /\ Len(plan) = 1
      pid   == IF asks THEN batch ELSE 0
  IN
  /\ linkUp /\ plan # << >>
  /\ outcome = "Dropped" => Head(plan) \in TextFields
  /\ OnField(Head(plan), batch, final, outcome, pid, now)
  /\ plan' = Tail(plan)
  /\ lost' = IF outcome = "Dropped" THEN lost \cup {batch} ELSE lost
  /\ due' = IF final /\ asks THEN due \cup {batch} ELSE due
  /\ UNCHANGED <<client, batch, flagged, asks, now, ticked, loopAt, linkUp, connected, answers, shown>>

(* setForeground(): another session takes the screen; the rest of the      *)
(* batch is dropped by the session check, the batch model is not told.     *)
Handover ==
  /\ client.preempted /\ linkUp /\ plan # << >>
  /\ plan' = << >>
  /\ UNCHANGED <<modelVars, client, batch, flagged, asks, now, ticked, loopAt, linkUp, connected,
                 lost, due, answers, shown>>

LinkDrop ==
  /\ linkUp
  /\ client.flaps \/ connected
  /\ linkUp' = FALSE /\ plan' = << >> /\ due' = {}
  /\ UNCHANGED <<modelVars, client, batch, flagged, asks, now, ticked, loopAt, connected,
                 lost, answers, shown>>

Reconnect ==
  /\ ~linkUp
  /\ client.flaps \/ ~connected
  /\ linkUp' = TRUE
  /\ UNCHANGED <<modelVars, clientVars, now, ticked, loopAt, connected, lost, due, answers, shown>>

----------------------------------------------------------------------------
(* CompanionModeActivity::loop(). *)

NoticeLink ==
  /\ loopAt = "link"
  /\ loopAt' = "drain"
  /\ connected' = linkUp
  /\ IF connected /\ ~linkUp THEN ResetOnDisconnect ELSE UNCHANGED modelVars
  /\ UNCHANGED <<now, ticked, linkUp, clientVars, lost, due, answers, shown>>

Applied(old, new) == IF new = NoPayload THEN old ELSE new

Answers_CommitOnly(r) == r.pushId # 0 /\ (r.title # NoPayload \/ r.body # NoPayload)

(* A discarded batch is answered at once, a committed one when the page it *)
(* arms has been drawn; a commit that carries no text arms nothing.        *)
Answers(r) ==
  r.pushId # 0 /\ (r.resolution = "Discard" \/ r.title # NoPayload \/ r.body # NoPayload)

Drain ==
  /\ loopAt = "drain"
  /\ loopAt' = "link"
  /\ ticked' = TRUE
  /\ Poll(now)
  /\ shown' = [title |-> Applied(shown.title, result'.title),
               body  |-> Applied(shown.body, result'.body),
               tags  |-> Applied(shown.tags, result'.tagState)]
  /\ answers' = IF Answers(result')
                THEN [answers EXCEPT ![result'.pushId] = @ + 1] ELSE answers
  /\ UNCHANGED <<now, linkUp, connected, clientVars, lost, due>>

(* The loop runs many times a tick, so at least once. *)
Tick ==
  /\ ticked
  /\ client.prompt /\ plan # << >> /\ TextPending => Age((now + 1) % ClockSpan) <= Timeout
  /\ now' = (now + 1) % ClockSpan
  /\ ticked' = FALSE
  /\ UNCHANGED <<modelVars, loopAt, linkUp, connected, clientVars, lost, due, answers, shown>>

Phone == \/ \E p \in Plans : BeginBatch(p)
         \/ \E outcome \in Outcomes : PushField(outcome)
         \/ Handover
         \/ LinkDrop
         \/ Reconnect

Next == Phone \/ NoticeLink \/ Drain \/ Tick

----------------------------------------------------------------------------
(* Properties. *)

(* The client waits for a batch to be resolved before it starts the next,  *)
(* and pushes a batch within the timeout.                                  *)
Punctual == ~client.pipelined /\ client.prompt

(* The client waits, and nothing comes between the fields of a batch.      *)
Uninterrupted == ~client.pipelined /\ ~client.preempted /\ ~client.flaps

(* What one poll commits as a page comes from a single push: never one     *)
(* batch's title over another's body (CompanionBatchModel::poll).  Does    *)
(* not hold of every client: README, section 3.                            *)
CommitIsOneBatch ==
  result.title # NoPayload /\ result.body # NoPayload => result.title = result.body

(* The same for a client that waits and is not interrupted, be it as slow  *)
(* as it likes: the timeout resolves a batch as a whole.                   *)
CommitIsOneOrderlyBatch == Uninterrupted => CommitIsOneBatch

(* A batch that lost a text field never puts its surviving fields on the   *)
(* page (the poison flag of onField/poll), though the link flaps or the    *)
(* screen changes hands in mid-batch.                                      *)
LostBatchNeverShown ==
  [][Punctual => \A f \in TextFields : shown'[f] # shown[f] => shown'[f] \notin lost]_vars

(* Tag state that rode a batch is drawn only together with that batch's    *)
(* content (poll's tag drain).                                             *)
TagsLandWithTheirBatch ==
  [][Uninterrupted /\ shown'.tags # shown.tags /\ result'.tagInBatch
       => shown'.tags \in {shown'.title, shown'.body}]_vars

(* A push is told SEQUENCE_GAP only when one of its own fields was lost:   *)
(* poison never leaks into a later batch.                                  *)
OnlyLossyBatchDiscarded ==
  Uninterrupted /\ result.resolution = "Discard" /\ result.pushId # 0 => result.pushId \in lost

(* No push is answered twice. *)
AnsweredOnce == \A p \in Payloads : answers[p] <= 1

(* A punctual client's answer has been given, or is still latched in the   *)
(* model: it is neither overwritten nor dropped with the batch.            *)
AnswerOwed ==
  Punctual => \A p \in due : answers[p] = 1 \/ (commitReady /\ batchPushId = p)

(* Buffered fields never stay buffered while their clock runs, whatever    *)
(* the phone does (the timeout of poll); lastField = 0 is the sentinel for *)
(* "no clock".  Time stands still for a prompt client in mid-batch.        *)
ClockedBufferDrains ==
  ~client.prompt => (TextPending ~> (~TextPending \/ lastField = 0))

----------------------------------------------------------------------------
(* The main loop always runs and the clock always advances; nothing is     *)
(* assumed of the phone.                                                   *)
Spec == Init /\ [][Next]_vars /\ WF_vars(NoticeLink) /\ WF_vars(Drain) /\ WF_vars(Tick)
=============================================================================
