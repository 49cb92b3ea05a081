----------------------------- MODULE BatchModel -----------------------------
(***************************************************************************)
(* The title/body/tag-state batch machine of src/src/CompanionBatchModel.  *)
(* The BLE host task hands it fields (onField), the main loop drains it    *)
(* (poll) and clears it when it notices a dropped link                     *)
(* (resetOnDisconnect); both callers hold one critical section, so every   *)
(* operation is a single action.                                           *)
(*                                                                         *)
(* A payload is an opaque value.  Time is the main loop's millis() counted *)
(* in coarse ticks modulo ClockSpan, the width of the 32-bit counter; 0 in *)
(* lastField is the code's "no clock running" sentinel.                    *)
(***************************************************************************)
EXTENDS Naturals

CONSTANTS Payloads,     \* what a field may carry
          NoPayload,    \* a field that is not buffered
          PushIds,      \* push ids a client may choose; 0 asks for no answer
          Timeout,      \* kTimeoutMs, in ticks
          ClockSpan     \* ticks after which millis() wraps

ASSUME PayloadsAssumption == NoPayload \notin Payloads
ASSUME PushIdsAssumption  == PushIds \subseteq Nat /\ 0 \in PushIds
ASSUME ClockAssumption    == Timeout \in Nat \ {0} /\ ClockSpan \in Nat /\ Timeout < ClockSpan

VARIABLES title, body,            \* buffered text fields, or NoPayload
          tagState, tagInBatch,   \* buffered tag state, and whether it rides the batch
          poisoned,               \* a text field of this batch was lost
          commitReady,            \* the final-flagged END has arrived
          lastField,              \* time of the batch's latest field, 0 when idle
          batchPushId,            \* push id of the final-flagged END
          result                  \* what the latest poll() reported

modelVars == <<title, body, tagState, tagInBatch, poisoned, commitReady,
               lastField, batchPushId, result>>

TextFields == {"title", "body"}
Fields     == TextFields \cup {"tagState", "contentId"}
Outcomes   == {"Complete", "Dropped"}
MaybePayload == Payloads \cup {NoPayload}

(* Text only with a Commit; a push id only with a final flag, so never from*)
(* the timeout.                                                            *)
PollResults ==
  {r \in [resolution : {"None", "Commit", "Discard"},
          title : MaybePayload, body : MaybePayload, tagState : MaybePayload,
          tagInBatch : BOOLEAN, pushId : PushIds, timedOut : BOOLEAN] :
     /\ r.resolution # "Commit" => r.title = NoPayload /\ r.body = NoPayload
     /\ r.resolution = "None" \/ r.timedOut => r.pushId = 0}

NoResult == [resolution |-> "None", title |-> NoPayload, body |-> NoPayload,
             tagState |-> NoPayload, tagInBatch |-> FALSE, pushId |-> 0,
             timedOut |-> FALSE]

(* Something of a title/body batch is buffered (wasIdle, negated). *)
TextPending == title # NoPayload \/ body # NoPayload \/ poisoned

(* The parts of a batch come and go together: a push id is latched beside  *)
(* the final flag only, the clock runs beside text or poison only, and tag *)
(* state that rides a batch is there.                                      *)
Together ==
  /\ batchPushId # 0 => commitReady
  /\ lastField # 0 => TextPending
  /\ tagInBatch => tagState # NoPayload

ModelTypeOK ==
  /\ title \in MaybePayload
  /\ body \in MaybePayload
  /\ tagState \in MaybePayload
  /\ tagInBatch \in BOOLEAN
  /\ poisoned \in BOOLEAN
  /\ commitReady \in BOOLEAN
  /\ lastField \in 0 .. ClockSpan - 1
  /\ batchPushId \in PushIds
  /\ result \in PollResults
  /\ Together

ModelInit ==
  /\ title = NoPayload /\ body = NoPayload
  /\ tagState = NoPayload /\ tagInBatch = FALSE
  /\ poisoned = FALSE /\ commitReady = FALSE
  /\ lastField = 0 /\ batchPushId = 0
  /\ result = NoResult

(* The 32-bit unsigned subtraction nowMs - lastFieldMs_. *)
Age(now) == (now + ClockSpan - lastField) % ClockSpan

(* Mutant: a tag pushed on its own starts the batch's clock. *)
Counts_AnyTag(field) == field \in TextFields \cup {"tagState"}

(* The fields that keep the batch alive: its own. *)
Counts(field) == field \in TextFields \/ (field = "tagState" /\ TextPending)

OnField(field, payload, final, outcome, pushId, now) ==
  /\ batchPushId' = IF final THEN pushId ELSE batchPushId
  /\ lastField' = IF Counts(field) THEN now ELSE lastField
  /\ commitReady' = (commitReady \/ final)
  /\ IF outcome = "Dropped"
     THEN /\ poisoned' = (poisoned \/ field \in TextFields)
          /\ UNCHANGED <<title, body, tagState, tagInBatch>>
     ELSE /\ title' = IF field = "title" THEN payload ELSE title
          /\ body' = IF field = "body" THEN payload ELSE body
          /\ tagState' = IF field = "tagState" THEN payload ELSE tagState
          /\ tagInBatch' = IF field = "tagState" THEN TextPending ELSE tagInBatch
          /\ UNCHANGED poisoned
  /\ UNCHANGED result

TimesOut_SkipsPoison(now) ==
  ~commitReady /\ (title # NoPayload \/ body # NoPayload) /\ lastField # 0 /\ Age(now) > Timeout

TimesOut(now) ==
  ~commitReady /\ TextPending /\ lastField # 0 /\ Age(now) > Timeout

Resolution_NoPoison(now) ==
  IF ~commitReady /\ ~TimesOut(now) THEN "None" ELSE "Commit"

Resolution(now) ==
  IF ~commitReady /\ ~TimesOut(now) THEN "None"
  ELSE IF poisoned THEN "Discard" ELSE "Commit"

ClearBatch_KeepsTitle ==
  /\ title' = title /\ body' = NoPayload
  /\ poisoned' = FALSE /\ commitReady' = FALSE
  /\ lastField' = 0 /\ batchPushId' = 0

ClearBatch_KeepsPoison ==
  /\ title' = NoPayload /\ body' = NoPayload
  /\ poisoned' = poisoned /\ commitReady' = FALSE
  /\ lastField' = 0 /\ batchPushId' = 0

ClearBatch_KeepsPushId ==
  /\ title' = NoPayload /\ body' = NoPayload
  /\ poisoned' = FALSE /\ commitReady' = FALSE
  /\ lastField' = 0 /\ batchPushId' = batchPushId

(* The batch's own state, back at rest. *)
ClearBatch ==
  /\ title' = NoPayload /\ body' = NoPayload
  /\ poisoned' = FALSE /\ commitReady' = FALSE
  /\ lastField' = 0 /\ batchPushId' = 0

(* Only a batch discarded by this very poll takes its tag state along. *)
TagDies_Never(resolution) == FALSE

TagDies(resolution) == resolution = "Discard" /\ tagInBatch

(* Buffered tag state leaves with every poll, whatever the batch does. *)
Poll(now) ==
  LET res     == Resolution(now)
      commits == res = "Commit"
  IN
  /\ result' = [resolution |-> res,
                title      |-> IF commits THEN title ELSE NoPayload,
                body       |-> IF commits THEN body ELSE NoPayload,
                tagState   |-> IF TagDies(res) THEN NoPayload ELSE tagState,
                tagInBatch |-> tagInBatch,
                pushId     |-> IF res = "None" THEN 0 ELSE batchPushId,
                timedOut   |-> TimesOut(now)]
  /\ IF res = "None"
     THEN UNCHANGED <<title, body, poisoned, commitReady, lastField, batchPushId>>
     ELSE ClearBatch
  /\ tagState' = NoPayload /\ tagInBatch' = FALSE

(* A tag state that did not ride the batch survives the link. *)
ResetOnDisconnect ==
  /\ ClearBatch
  /\ tagState' = IF tagInBatch THEN NoPayload ELSE tagState
  /\ tagInBatch' = FALSE
  /\ UNCHANGED result
=============================================================================
