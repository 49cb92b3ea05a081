------------------------- MODULE ContentPushProofs -------------------------
(***************************************************************************)
(* TLAPS proofs about ContentPush, for every clock width, timeout, number  *)
(* of batches and set of clients: its type invariant; that no push is ever *)
(* answered twice; and what a client that waits, or is punctual, may rely  *)
(* on: one push per page, tags with their batch, nothing shown of a batch  *)
(* that lost a field, an answer that is not forgotten.                     *)
(***************************************************************************)
EXTENDS ContentPush, TLAPS

AllAssumptions == /\ NoPayload \notin Payloads
                  /\ MaxBatch \in Nat \ {0} /\ Payloads = 1 .. MaxBatch
                  /\ PushIds = 0 .. MaxBatch
                  /\ Timeout \in Nat \ {0} /\ ClockSpan \in Nat /\ Timeout < ClockSpan
                  /\ \A p \in Plans : /\ p.fields \in Seq(Fields) \ {<< >>}
                                      /\ {p.flagged, p.asks} \subseteq BOOLEAN

LEMMA Constants == AllAssumptions
BY PayloadsAssumption, ClockAssumption, BatchBound, PlansAssumption DEF AllAssumptions

(* The clock stays inside its width when it wraps. *)
LEMMA ClockStep ==
  ASSUME NEW t \in 0 .. ClockSpan - 1
  PROVE  (t + 1) % ClockSpan \in 0 .. ClockSpan - 1
BY ClockAssumption, SMT

(* OnField keeps the model's types, whatever legal field it is handed. *)
LEMMA OnFieldType ==
  ASSUME ModelTypeOK,
         NEW field \in Fields, NEW payload \in Payloads, NEW final \in BOOLEAN,
         NEW outcome \in Outcomes, NEW pushId \in PushIds,
         NEW t \in 0 .. ClockSpan - 1,
         OnField(field, payload, final, outcome, pushId, t)
  PROVE  ModelTypeOK'
<1>1. /\ title' \in MaybePayload /\ body' \in MaybePayload /\ tagState' \in MaybePayload
      /\ tagInBatch' \in BOOLEAN /\ poisoned' \in BOOLEAN /\ commitReady' \in BOOLEAN
  BY DEF ModelTypeOK, OnField, MaybePayload, TextPending
<1>2. lastField' \in 0 .. ClockSpan - 1 /\ batchPushId' \in PushIds /\ result' \in PollResults
  BY DEF ModelTypeOK, OnField
<1>3. Together'
  <2>1. Together BY DEF ModelTypeOK
  <2>2. payload # NoPayload BY PayloadsAssumption
  <2>3. batchPushId' # 0 => commitReady' BY <2>1 DEF Together, OnField
  <2>4. TextPending => TextPending' BY <2>2, Zenon DEF TextPending, OnField
  <2>5. field \in TextFields => TextPending'
    <3>1. CASE outcome = "Dropped" BY <3>1 DEF TextPending, OnField
    <3>2. CASE outcome # "Dropped" BY <2>2, <3>2 DEF TextPending, OnField, TextFields
    <3> QED BY <3>1, <3>2
  <2>6. lastField' # 0 => TextPending' BY <2>1, <2>4, <2>5 DEF Together, OnField, Counts
  <2>7. tagInBatch' => tagState' # NoPayload BY <2>1, <2>2, Zenon DEF Together, OnField
  <2> QED BY <2>3, <2>6, <2>7, Zenon DEF Together
<1> QED
  BY <1>1, <1>2, <1>3 DEF ModelTypeOK

(* A cleared batch has the types of a batch at rest. *)
LEMMA ClearType ==
  ASSUME ClearBatch
  PROVE  /\ title' \in MaybePayload /\ body' \in MaybePayload
         /\ poisoned' \in BOOLEAN /\ commitReady' \in BOOLEAN
         /\ lastField' \in 0 .. ClockSpan - 1 /\ batchPushId' \in PushIds
<1>1. 0 \in PushIds /\ 0 \in 0 .. ClockSpan - 1
  BY PushIdsAssumption, ClockAssumption
<1> QED
  BY <1>1 DEF ClearBatch, MaybePayload

LEMMA PollType ==
  ASSUME ModelTypeOK, NEW t \in 0 .. ClockSpan - 1, Poll(t)
  PROVE  ModelTypeOK'
<1>1. result' \in PollResults
  <2>1. Resolution(t) \in {"None", "Commit", "Discard"}
    BY DEF Resolution
  <2>2. TimesOut(t) \in BOOLEAN
    BY DEF TimesOut
  <2>3. 0 \in PushIds
    BY PushIdsAssumption
  <2> QED
    <3>1. ~TimesOut(t) \/ batchPushId = 0
      BY DEF TimesOut, ModelTypeOK, Together
    <3> QED
      BY <2>1, <2>2, <2>3, <3>1 DEF Poll, PollResults, ModelTypeOK, MaybePayload
<1>2. /\ title' \in MaybePayload /\ body' \in MaybePayload
      /\ poisoned' \in BOOLEAN /\ commitReady' \in BOOLEAN
      /\ lastField' \in 0 .. ClockSpan - 1 /\ batchPushId' \in PushIds
  <2>1. CASE Resolution(t) = "None"
    BY <2>1 DEF Poll, ModelTypeOK
  <2>2. CASE Resolution(t) # "None"
    BY <2>2, ClearType DEF Poll
  <2> QED
    BY <2>1, <2>2
<1>3. tagState' \in MaybePayload /\ tagInBatch' \in BOOLEAN
  BY DEF Poll, MaybePayload
<1>4. Together'
  <2>1. CASE Resolution(t) = "None"
    BY <2>1 DEF Poll, ModelTypeOK, Together, TextPending
  <2>2. CASE Resolution(t) # "None"
    BY <2>2 DEF Poll, ClearBatch, Together
  <2> QED
    BY <2>1, <2>2
<1> QED
  BY <1>1, <1>2, <1>3, <1>4 DEF ModelTypeOK

LEMMA ResetType ==
  ASSUME ModelTypeOK, ResetOnDisconnect
  PROVE  ModelTypeOK'
<1>1. Together'
  BY DEF ResetOnDisconnect, ClearBatch, Together
<1> QED
  BY <1>1, ClearType DEF ModelTypeOK, ResetOnDisconnect, MaybePayload

LEMMA InitType == Init => TypeOK
<1> SUFFICES ASSUME Init PROVE TypeOK
  OBVIOUS
<1>0. AllAssumptions
  BY Constants
<1>1. ModelTypeOK
  <2>1. 0 \in PushIds /\ 0 \in 0 .. ClockSpan - 1
    BY <1>0 DEF AllAssumptions
  <2>2. result \in PollResults
    BY <2>1 DEF Init, ModelInit, NoResult, PollResults, MaybePayload
  <2> QED
    BY <2>1, <2>2 DEF Init, ModelInit, ModelTypeOK, MaybePayload, Together
<1>2. now \in 0 .. ClockSpan - 1
  BY <1>0 DEF AllAssumptions, Init
<1>3. plan \in Seq(Fields) /\ batch \in 0 .. MaxBatch
  BY <1>0 DEF AllAssumptions, Init
<1> QED
  BY <1>1, <1>2, <1>3 DEF Init, TypeOK, MaybePayload

----------------------------------------------------------------------------
(* A push id can be answered at most once because it is latched only while *)
(* it is still unanswered, every answer unlatches it, and the phone sends  *)
(* it with the last field of its batch only.                               *)
LatchedUnanswered == batchPushId # 0 => batchPushId <= batch /\ answers[batchPushId] = 0
FutureUnanswered  == \A p \in Payloads : p > batch => answers[p] = 0
PendingUnanswered == plan # << >> => /\ batch \in Payloads
                                     /\ answers[batch] = 0
                                     /\ batchPushId # batch

IInv == TypeOK /\ AnsweredOnce /\ LatchedUnanswered /\ FutureUnanswered /\ PendingUnanswered

LEMMA InitIInv == Init => IInv
<1> SUFFICES ASSUME Init PROVE IInv
  OBVIOUS
<1>1. TypeOK
  BY InitType
<1>2. AnsweredOnce /\ FutureUnanswered
  BY DEF Init, AnsweredOnce, FutureUnanswered
<1>3. LatchedUnanswered /\ PendingUnanswered
  BY DEF Init, ModelInit, LatchedUnanswered, PendingUnanswered
<1> QED
  BY <1>1, <1>2, <1>3 DEF IInv

LEMMA BeginBatchStep ==
  ASSUME IInv, NEW p \in Plans, BeginBatch(p)
  PROVE  IInv'
<1>0. AllAssumptions
  BY Constants
<1> USE DEF IInv
<1>1. ModelTypeOK'
  BY DEF BeginBatch, modelVars, TypeOK, ModelTypeOK, Together, TextPending
<1>2. TypeOK'
  BY <1>0, <1>1 DEF AllAssumptions, BeginBatch, TypeOK
<1>3. AnsweredOnce'
  BY DEF BeginBatch, AnsweredOnce
<1>4. batch' = batch + 1 /\ batch \in Nat /\ batch' \in Payloads /\ answers[batch'] = 0
  BY <1>0 DEF AllAssumptions, BeginBatch, TypeOK, FutureUnanswered
<1>5. batchPushId' = batchPushId /\ batchPushId \in Nat /\ answers' = answers
  BY <1>0 DEF AllAssumptions, BeginBatch, modelVars, TypeOK, ModelTypeOK
<1>6. LatchedUnanswered'
  BY <1>4, <1>5 DEF LatchedUnanswered
<1>7. FutureUnanswered'
  BY <1>0, <1>4, <1>5 DEF AllAssumptions, FutureUnanswered
<1>8. PendingUnanswered'
  BY <1>4, <1>5 DEF LatchedUnanswered, PendingUnanswered
<1> QED
  BY <1>2, <1>3, <1>6, <1>7, <1>8

LEMMA PushFieldStep ==
  ASSUME IInv, NEW outcome \in Outcomes, PushField(outcome)
  PROVE  IInv'
<1>0. AllAssumptions
  BY Constants
<1> USE DEF IInv
<1> DEFINE final == flagged /\ Len(plan) = 1
           pid   == IF asks THEN batch ELSE 0
<1>1. batch \in Payloads /\ batch \in Nat /\ batch # 0 /\ pid \in PushIds
  BY <1>0 DEF AllAssumptions, PushField, PendingUnanswered
<1>2. plan # << >> /\ plan \in Seq(Fields) /\ Head(plan) \in Fields /\ Tail(plan) \in Seq(Fields)
  BY DEF PushField, TypeOK
<1>3. /\ OnField(Head(plan), batch, final, outcome, pid, now)
      /\ plan' = Tail(plan) /\ batch' = batch /\ answers' = answers
  BY DEF PushField
<1>4. ModelTypeOK'
  <2>1. final \in BOOLEAN /\ now \in 0 .. ClockSpan - 1 /\ ModelTypeOK
    BY DEF TypeOK
  <2> HIDE DEF final, pid
  <2> QED
    BY <1>1, <1>2, <1>3, <2>1, OnFieldType
<1>5. TypeOK'
  BY <1>0, <1>1, <1>2, <1>4 DEF AllAssumptions, PushField, TypeOK
<1>6. AnsweredOnce' /\ FutureUnanswered'
  BY <1>3 DEF AnsweredOnce, FutureUnanswered
<1>7. batchPushId' = IF final THEN pid ELSE batchPushId
  BY <1>3 DEF OnField
<1>8. LatchedUnanswered'
  BY <1>1, <1>2, <1>3, <1>7 DEF LatchedUnanswered, PendingUnanswered
<1>9. PendingUnanswered'
  <2>1. CASE final
    BY <1>2, <1>3, <2>1 DEF PendingUnanswered
  <2>2. CASE ~final
    BY <1>1, <1>2, <1>3, <1>7, <2>2 DEF PendingUnanswered
  <2> QED
    BY <2>1, <2>2
<1> QED
  BY <1>5, <1>6, <1>8, <1>9

LEMMA DrainStep ==
  ASSUME IInv, Drain
  PROVE  IInv'
<1>0. AllAssumptions
  BY Constants
<1> USE DEF IInv
<1>1. ModelTypeOK'
  BY PollType DEF Drain, TypeOK
<1>2. batch' = batch /\ plan' = plan
  BY DEF Drain, clientVars
<1>a. shown' \in [Parts -> MaybePayload]
  <2>1. /\ result'.title \in MaybePayload /\ result'.body \in MaybePayload
        /\ result'.tagState \in MaybePayload
    BY <1>1 DEF ModelTypeOK, PollResults
  <2>2. /\ shown.title \in MaybePayload /\ shown.body \in MaybePayload
        /\ shown.tags \in MaybePayload
    BY DEF TypeOK, Parts
  <2> QED
    BY <2>1, <2>2 DEF Drain, Parts, Applied
<1>b. ASSUME answers' \in [Payloads -> Nat] PROVE TypeOK'
  BY <1>1, <1>a, <1>b DEF Drain, TypeOK, clientVars
<1>c. batch # 0 \/ plan = << >>
  BY <1>0 DEF AllAssumptions, PendingUnanswered
<1>3. CASE ~Answers(result')
  <2>1. answers' = answers
    BY <1>3 DEF Drain
  <2>2. batchPushId' \in {0, batchPushId}
    BY DEF Drain, Poll, ClearBatch
  <2>3. TypeOK'
    BY <1>b, <2>1 DEF TypeOK
  <2>4. AnsweredOnce' /\ FutureUnanswered'
    BY <1>2, <2>1 DEF AnsweredOnce, FutureUnanswered
  <2>5. LatchedUnanswered' /\ PendingUnanswered'
    BY <1>2, <1>c, <2>1, <2>2 DEF LatchedUnanswered, PendingUnanswered
  <2> QED
    BY <2>3, <2>4, <2>5
<1>4. CASE Answers(result')
  <2>1. /\ result'.pushId = batchPushId /\ batchPushId # 0 /\ batchPushId' = 0
    BY <1>4 DEF Drain, Answers, Poll, ClearBatch, Resolution
  <2>2. batchPushId \in Payloads /\ answers[batchPushId] = 0 /\ batchPushId <= batch
    BY <1>0, <2>1 DEF AllAssumptions, TypeOK, ModelTypeOK, LatchedUnanswered
  <2>3. answers' = [answers EXCEPT ![batchPushId] = 1]
    BY <1>4, <2>1, <2>2 DEF Drain
  <2>4. TypeOK'
    BY <1>b, <2>2, <2>3 DEF TypeOK
  <2>5. AnsweredOnce'
    BY <2>2, <2>3 DEF AnsweredOnce, TypeOK
  <2>6. FutureUnanswered'
    BY <1>0, <1>2, <2>2, <2>3 DEF AllAssumptions, FutureUnanswered, TypeOK
  <2>7. LatchedUnanswered' /\ PendingUnanswered'
    BY <1>0, <1>2, <2>1, <2>2, <2>3 DEF AllAssumptions, LatchedUnanswered, PendingUnanswered, TypeOK
  <2> QED
    BY <2>4, <2>5, <2>6, <2>7
<1> QED
  BY <1>3, <1>4

LEMMA NoticeLinkStep ==
  ASSUME IInv, NoticeLink
  PROVE  IInv'
<1> USE DEF IInv
<1>1. ModelTypeOK'
  <2>1. CASE connected /\ ~linkUp
    BY <2>1, ResetType DEF NoticeLink, TypeOK
  <2>2. CASE ~(connected /\ ~linkUp)
    BY <2>2 DEF NoticeLink, TypeOK, modelVars, ModelTypeOK, Together, TextPending
  <2> QED
    BY <2>1, <2>2
<1>2. TypeOK'
  BY <1>1 DEF NoticeLink, TypeOK, clientVars
<1>3. batchPushId' \in {0, batchPushId}
  BY DEF NoticeLink, ResetOnDisconnect, ClearBatch, modelVars
<1>4. batch' = batch /\ plan' = plan /\ answers' = answers
  BY DEF NoticeLink, clientVars
<1>5. AnsweredOnce' /\ FutureUnanswered'
  BY <1>4 DEF AnsweredOnce, FutureUnanswered
<1>6. batch # 0 \/ plan = << >>
  BY Constants DEF AllAssumptions, PendingUnanswered
<1>7. LatchedUnanswered' /\ PendingUnanswered'
  BY <1>3, <1>4, <1>6 DEF LatchedUnanswered, PendingUnanswered
<1> QED
  BY <1>2, <1>5, <1>7

(* The steps that leave the model, the answers and the batch number alone. *)
LEMMA OtherStep ==
  ASSUME IInv, Handover \/ LinkDrop \/ Reconnect \/ Tick
  PROVE  IInv'
<1> USE DEF IInv
<1>1. UNCHANGED modelVars /\ batch' = batch /\ answers' = answers /\ plan' \in {plan, << >>}
  BY DEF Handover, LinkDrop, Reconnect, Tick, clientVars
<1>2. ModelTypeOK'
  BY <1>1 DEF TypeOK, modelVars, ModelTypeOK, Together, TextPending
<1>3. now' \in 0 .. ClockSpan - 1
  BY ClockStep DEF Handover, LinkDrop, Reconnect, Tick, TypeOK
<1>4. TypeOK'
  <2>1. plan' \in Seq(Fields) /\ batch' \in 0 .. MaxBatch /\ answers' \in [Payloads -> Nat]
    <3>1. << >> \in Seq(Fields)
      OBVIOUS
    <3> QED
      BY <1>1, <3>1 DEF TypeOK
  <2>2. CASE Handover \/ LinkDrop
    BY <1>2, <1>3, <2>1, <2>2 DEF Handover, LinkDrop, TypeOK
  <2>3. CASE Reconnect
    BY <1>2, <1>3, <2>1, <2>3 DEF Reconnect, clientVars, TypeOK
  <2>4. CASE Tick
    BY <1>2, <1>3, <2>1, <2>4 DEF Tick, clientVars, TypeOK
  <2> QED
    BY <2>2, <2>3, <2>4
<1>5. batchPushId' = batchPushId
  BY <1>1 DEF modelVars
<1> QED
  BY <1>1, <1>4, <1>5 DEF AnsweredOnce, LatchedUnanswered, FutureUnanswered, PendingUnanswered

LEMMA StepIInv == IInv /\ [Next]_vars => IInv'
<1> SUFFICES ASSUME IInv, [Next]_vars PROVE IInv'
  OBVIOUS
<1>1. ASSUME NEW p \in Plans, BeginBatch(p) PROVE IInv'
  BY <1>1, BeginBatchStep
<1>2. ASSUME NEW outcome \in Outcomes, PushField(outcome) PROVE IInv'
  BY <1>2, PushFieldStep
<1>3. CASE Drain
  BY <1>3, DrainStep
<1>4. CASE NoticeLink
  BY <1>4, NoticeLinkStep
<1>5. CASE Handover \/ LinkDrop \/ Reconnect \/ Tick
  BY <1>5, OtherStep
<1>6. CASE UNCHANGED vars
  BY <1>6 DEF vars, modelVars, clientVars, IInv, TypeOK, ModelTypeOK, Together, TextPending, AnsweredOnce,
              LatchedUnanswered, FutureUnanswered, PendingUnanswered
<1> QED
  BY <1>1, <1>2, <1>3, <1>4, <1>5, <1>6 DEF Next, Phone

(* Every reachable state of the push pipeline is well typed, whatever the  *)
(* clock width, the timeout and the phone's discipline.                    *)
THEOREM ContentTyping == Spec => []TypeOK
<1>1. IInv => TypeOK
  BY DEF IInv
<1> QED
  BY InitIInv, StepIInv, <1>1, PTL DEF Spec

(* No push is ever answered twice: not by a timeout, not after a discard,  *)
(* not when batches are pipelined, preempted or cut off by the link        *)
(* (batchPushId_ of CompanionBatchModel and its clearing in poll).         *)
THEOREM NeverAnsweredTwice == Spec => []AnsweredOnce
<1>1. IInv => AnsweredOnce
  BY DEF IInv
<1> QED
  BY InitIInv, StepIInv, <1>1, PTL DEF Spec

----------------------------------------------------------------------------
(* The disciplines of the client's batches that the results below need:    *)
(* every batch ends with the final flag, tag state comes last, and a batch *)
(* that asks for an answer carries text.  The documented batches have all  *)
(* three.                                                                  *)
EndsEveryBatch == \A p \in Plans : p.flagged

TagsLast(s)  == \A i \in 1 .. Len(s) - 1 : s[i] # "tagState"
HasText(s)   == \E i \in 1 .. Len(s) : s[i] \in TextFields

TagsComeLast  == \A p \in Plans : TagsLast(p.fields)
AskersHaveText == \A p \in Plans : p.asks => HasText(p.fields)

LEMMA TailTagsLast ==
  ASSUME NEW s \in Seq(Fields), s # << >>, TagsLast(s)
  PROVE  /\ TagsLast(Tail(s))
         /\ Len(s) # 1 => Head(s) # "tagState"
<1>1. Len(s) \in Nat /\ Len(s) >= 1 /\ Len(Tail(s)) = Len(s) - 1
  OBVIOUS
<1>2. \A i \in 1 .. Len(Tail(s)) - 1 : Tail(s)[i] = s[i + 1] /\ i + 1 \in 1 .. Len(s) - 1
  BY <1>1
<1>3. TagsLast(Tail(s))
  BY <1>2 DEF TagsLast
<1>4. Len(s) # 1 => 1 \in 1 .. Len(s) - 1 /\ Head(s) = s[1]
  BY <1>1
<1> QED
  BY <1>3, <1>4 DEF TagsLast

LEMMA TailHasText ==
  ASSUME NEW s \in Seq(Fields), s # << >>, HasText(s)
  PROVE  Head(s) \in TextFields \/ HasText(Tail(s))
<1>1. PICK i \in 1 .. Len(s) : s[i] \in TextFields
  BY DEF HasText
<1>2. CASE i = 1
  BY <1>1, <1>2
<1>3. CASE i # 1
  <2>1. i - 1 \in 1 .. Len(Tail(s)) /\ Tail(s)[i - 1] = s[i]
    BY <1>3
  <2> QED
    BY <1>1, <2>1 DEF HasText
<1> QED
  BY <1>2, <1>3

LEMMA NoTextAtEnd == ~HasText(<< >>) /\ TagsLast(<< >>)
BY DEF HasText, TagsLast

(* The last field of a batch is the flagged one, and ends it. *)
LEMMA LastField ==
  ASSUME NEW s \in Seq(Fields), s # << >>
  PROVE  (Len(s) = 1) <=> (Tail(s) = << >>)
<1>1. Len(s) \in Nat /\ Tail(s) \in Seq(Fields) /\ Len(Tail(s)) = Len(s) - 1
  OBVIOUS
<1>2. Tail(s) = << >> <=> Len(Tail(s)) = 0
  BY <1>1
<1> QED
  BY <1>1, <1>2

----------------------------------------------------------------------------
(* The client is the same for the whole of a behaviour. *)
LEMMA SameClient ==
  ASSUME [Next]_vars
  PROVE  client' = client
BY DEF Next, Phone, BeginBatch, PushField, Handover, LinkDrop, Reconnect, NoticeLink, Drain,
       Tick, clientVars, vars

(* A client that waits, uninterrupted.  What is buffered is the current    *)
(* batch and nothing else; it is gone before the next batch begins, because*)
(* the batch has been committed, discarded or reset by then.               *)
OneOwner ==
  /\ title \in {NoPayload, batch} /\ body \in {NoPayload, batch}
  /\ poisoned => batch \in lost
  /\ batchPushId \in {0, batch}
  /\ batchPushId # 0 => commitReady
GoneBefore ==
  /\ plan # << >> => flagged /\ ~commitReady /\ linkUp
  /\ plan = << >> /\ linkUp /\ ~commitReady => ~TextPending
  /\ ~linkUp /\ ~connected => ~TextPending /\ ~commitReady
Reported == /\ CommitIsOneBatch
            /\ result.resolution = "Discard" /\ result.pushId # 0 => result.pushId \in lost

Orderly == OneOwner /\ GoneBefore /\ Reported
OInv == IInv /\ (Uninterrupted => Orderly)

LEMMA OrderlyInit == Init => OInv
<1> SUFFICES ASSUME Init PROVE OInv
  OBVIOUS
<1>1. IInv
  BY InitIInv
<1>2. OneOwner /\ GoneBefore
  BY DEF Init, ModelInit, OneOwner, GoneBefore, TextPending
<1>3. Reported
  BY DEF Init, ModelInit, NoResult, Reported, CommitIsOneBatch
<1> QED
  BY <1>1, <1>2, <1>3 DEF OInv, Orderly

LEMMA OrderlyBegin ==
  ASSUME EndsEveryBatch, IInv, Orderly, Uninterrupted, NEW p \in Plans, BeginBatch(p)
  PROVE  Orderly'
<1>1. /\ linkUp /\ plan = << >> /\ ~commitReady /\ flagged' /\ UNCHANGED modelVars
      /\ UNCHANGED <<linkUp, connected, lost>>
  BY DEF BeginBatch, Uninterrupted, EndsEveryBatch
<1>2. ~TextPending /\ batchPushId = 0
  BY <1>1 DEF Orderly, GoneBefore, OneOwner
<1>3. OneOwner'
  BY <1>1, <1>2 DEF OneOwner, TextPending, modelVars
<1>4. plan' # << >>
  BY Constants DEF AllAssumptions, BeginBatch
<1>5. GoneBefore'
  BY <1>1, <1>4 DEF Orderly, GoneBefore, modelVars
<1>6. Reported'
  BY <1>1 DEF Orderly, Reported, CommitIsOneBatch, modelVars
<1> QED
  BY <1>3, <1>5, <1>6 DEF Orderly

LEMMA OrderlyPush ==
  ASSUME IInv, Orderly, NEW outcome \in Outcomes, PushField(outcome)
  PROVE  Orderly'
<1> DEFINE final == flagged /\ Len(plan) = 1
           pid   == IF asks THEN batch ELSE 0
<1>1. /\ linkUp /\ plan # << >> /\ flagged /\ ~commitReady /\ plan \in Seq(Fields)
      /\ plan' = Tail(plan) /\ batchPushId = 0
  BY DEF PushField, Orderly, OneOwner, GoneBefore, IInv, TypeOK
<1>2. OnField(Head(plan), batch, final, outcome, pid, now)
  BY DEF PushField
<1>3. /\ UNCHANGED <<batch, linkUp, connected, flagged, result>> /\ lost \subseteq lost'
      /\ outcome = "Dropped" => batch \in lost'
  BY <1>2 DEF PushField, OnField
<1>4. final <=> plan' = << >>
  BY <1>1, LastField
<1> HIDE DEF final
<1>5. OneOwner'
  <2>1. title' \in {NoPayload, batch} /\ body' \in {NoPayload, batch}
    BY <1>2 DEF OnField, Orderly, OneOwner
  <2>2. poisoned' => batch \in lost'
    BY <1>2, <1>3 DEF OnField, Orderly, OneOwner
  <2>3. batchPushId' \in {0, batch} /\ (batchPushId' # 0 => commitReady')
    BY <1>1, <1>2 DEF OnField
  <2> QED
    BY <1>3, <2>1, <2>2, <2>3 DEF OneOwner
<1>6. GoneBefore'
  <2>1. commitReady' <=> final
    BY <1>1, <1>2 DEF OnField
  <2> QED
    BY <1>1, <1>3, <1>4, <2>1 DEF GoneBefore
<1>7. Reported'
  BY <1>3 DEF Orderly, Reported, CommitIsOneBatch
<1> QED
  BY <1>5, <1>6, <1>7 DEF Orderly

LEMMA OrderlyDrain ==
  ASSUME IInv, Orderly, Drain
  PROVE  Orderly'
<1>1. /\ Poll(now) /\ UNCHANGED <<batch, plan, flagged, linkUp, connected, lost>>
  BY DEF Drain, clientVars
<1>2. Reported'
  <2>1. /\ result'.resolution = Resolution(now)
        /\ result'.title \in {title, NoPayload} /\ result'.body \in {body, NoPayload}
        /\ result'.pushId \in {0, batchPushId}
    BY <1>1 DEF Poll
  <2>2. CommitIsOneBatch'
    BY <2>1 DEF CommitIsOneBatch, Orderly, OneOwner
  <2>3. Resolution(now) = "Discard" => poisoned
    BY DEF Resolution
  <2> QED
    BY <1>1, <2>1, <2>2, <2>3 DEF Reported, Orderly, OneOwner
<1>3. CASE Resolution(now) = "None"
  BY <1>1, <1>2, <1>3 DEF Poll, Orderly, OneOwner, GoneBefore, TextPending
<1>4. CASE Resolution(now) # "None"
  <2>1. ClearBatch
    BY <1>1, <1>4 DEF Poll
  <2> QED
    BY <1>1, <1>2, <2>1 DEF ClearBatch, Orderly, OneOwner, GoneBefore, TextPending
<1> QED
  BY <1>3, <1>4

LEMMA OrderlyNotice ==
  ASSUME IInv, Orderly, NoticeLink
  PROVE  Orderly'
<1>1. connected' = linkUp /\ UNCHANGED <<batch, plan, flagged, linkUp, lost, result>>
  BY DEF NoticeLink, clientVars, ResetOnDisconnect, modelVars
<1>2. Reported'
  BY <1>1 DEF Reported, CommitIsOneBatch, Orderly
<1>3. CASE connected /\ ~linkUp
  <2>1. ClearBatch
    BY <1>3 DEF NoticeLink, ResetOnDisconnect
  <2> QED
    BY <1>1, <1>2, <2>1 DEF ClearBatch, Orderly, OneOwner, GoneBefore, TextPending
<1>4. CASE ~(connected /\ ~linkUp)
  BY <1>1, <1>2, <1>4 DEF NoticeLink, modelVars, Orderly, OneOwner, GoneBefore, TextPending
<1> QED
  BY <1>3, <1>4

LEMMA OrderlyOther ==
  ASSUME IInv, Orderly, Uninterrupted, Handover \/ LinkDrop \/ Reconnect \/ Tick
  PROVE  Orderly'
<1>1. UNCHANGED <<batch, flagged, connected, lost>> /\ UNCHANGED modelVars
  BY DEF Handover, LinkDrop, Reconnect, Tick, clientVars
<1>2. OneOwner' /\ Reported'
  BY <1>1 DEF modelVars, Orderly, OneOwner, Reported, CommitIsOneBatch
<1>3. GoneBefore'
  <2>1. CASE LinkDrop
    BY <1>1, <2>1 DEF LinkDrop, Uninterrupted, modelVars, Orderly, GoneBefore, TextPending
  <2>2. CASE Reconnect
    BY <1>1, <2>2 DEF Reconnect, clientVars, Uninterrupted, modelVars, Orderly, GoneBefore,
                      TextPending
  <2>3. CASE Tick
    BY <1>1, <2>3 DEF Tick, clientVars, modelVars, Orderly, GoneBefore, TextPending
  <2> QED
    BY <2>1, <2>2, <2>3 DEF Handover, Uninterrupted
<1> QED
  BY <1>2, <1>3 DEF Orderly

LEMMA OrderlyStep ==
  ASSUME EndsEveryBatch, OInv, [Next]_vars
  PROVE  OInv'
<1>0. IInv /\ IInv'
  BY StepIInv DEF OInv
<1>1. client' = client
  BY SameClient
<1> SUFFICES ASSUME Uninterrupted, Orderly PROVE Orderly'
  BY <1>0, <1>1 DEF OInv, Uninterrupted
<1>2. ASSUME NEW p \in Plans, BeginBatch(p) PROVE Orderly'
  BY <1>0, <1>2, OrderlyBegin
<1>3. ASSUME NEW outcome \in Outcomes, PushField(outcome) PROVE Orderly'
  BY <1>0, <1>3, OrderlyPush
<1>4. CASE Drain
  BY <1>0, <1>4, OrderlyDrain
<1>5. CASE NoticeLink
  BY <1>0, <1>5, OrderlyNotice
<1>6. CASE Handover \/ LinkDrop \/ Reconnect \/ Tick
  BY <1>0, <1>6, OrderlyOther
<1>7. CASE UNCHANGED vars
  BY <1>7 DEF vars, modelVars, clientVars, Orderly, OneOwner, GoneBefore, Reported,
              CommitIsOneBatch, TextPending
<1> QED
  BY <1>2, <1>3, <1>4, <1>5, <1>6, <1>7 DEF Next, Phone

LEMMA OrderlyAlways ==
  ASSUME EndsEveryBatch
  PROVE  Spec => []OInv
<1>1. OInv /\ [Next]_vars => OInv'
  BY OrderlyStep
<1> QED
  BY OrderlyInit, <1>1, PTL DEF Spec

(* What one poll commits as a page comes from a single push, for a client  *)
(* that waits, flags the end of every batch and is not interrupted, be it  *)
(* as slow as it likes (CompanionBatchModel::poll and its timeout).        *)
THEOREM OnePushPerPage ==
  ASSUME EndsEveryBatch
  PROVE  Spec => []CommitIsOneOrderlyBatch
<1>1. OInv => CommitIsOneOrderlyBatch
  BY DEF OInv, Orderly, Reported, CommitIsOneOrderlyBatch
<1> QED
  BY OrderlyAlways, <1>1, PTL

(* Such a client is told SEQUENCE_GAP only of a push that did lose a field *)
(* (the poison flag of onField and its clearing in poll).                  *)
THEOREM PoisonStaysInItsBatch ==
  ASSUME EndsEveryBatch
  PROVE  Spec => []OnlyLossyBatchDiscarded
<1>1. OInv => OnlyLossyBatchDiscarded
  BY DEF OInv, Orderly, Reported, OnlyLossyBatchDiscarded
<1> QED
  BY OrderlyAlways, <1>1, PTL

----------------------------------------------------------------------------
(* Tag state that rides a batch does so with the batch's last field, so    *)
(* the batch is ready by then and leaves with the next poll.               *)
TagsRide == /\ TagsLast(plan)
            /\ tagInBatch => commitReady /\ tagState = batch /\ TextPending

TInv == OInv /\ (Uninterrupted => TagsRide)

LEMMA TagsPush ==
  ASSUME IInv, Orderly, TagsRide, NEW outcome \in Outcomes, PushField(outcome)
  PROVE  TagsRide'
<1> DEFINE final == flagged /\ Len(plan) = 1
           pid   == IF asks THEN batch ELSE 0
<1>1. /\ plan # << >> /\ flagged /\ ~commitReady /\ plan \in Seq(Fields)
      /\ plan' = Tail(plan) /\ batch' = batch
      /\ OnField(Head(plan), batch, final, outcome, pid, now)
  BY DEF PushField, Orderly, GoneBefore, IInv, TypeOK
<1>2. ~tagInBatch
  BY <1>1 DEF TagsRide
<1>3. TagsLast(plan') /\ (Len(plan) # 1 => Head(plan) # "tagState")
  BY <1>1, TailTagsLast DEF TagsRide
<1>4. tagInBatch' => Head(plan) = "tagState" /\ outcome # "Dropped" /\ TextPending
  BY <1>1, <1>2 DEF OnField
<1>5. tagInBatch' => commitReady' /\ tagState' = batch /\ TextPending'
  BY <1>1, <1>3, <1>4 DEF OnField, TextPending
<1> QED
  BY <1>1, <1>3, <1>5 DEF TagsRide

LEMMA TagsStep ==
  ASSUME EndsEveryBatch, TagsComeLast, TInv, [Next]_vars
  PROVE  TInv'
<1>0. OInv /\ OInv'
  BY OrderlyStep DEF TInv
<1>1. client' = client
  BY SameClient
<1> SUFFICES ASSUME Uninterrupted, Orderly, TagsRide PROVE TagsRide'
  BY <1>0, <1>1 DEF TInv, OInv, Uninterrupted
<1>2. ASSUME NEW p \in Plans, BeginBatch(p) PROVE TagsRide'
  BY <1>2 DEF BeginBatch, Uninterrupted, TagsComeLast, TagsRide, modelVars
<1>3. ASSUME NEW outcome \in Outcomes, PushField(outcome) PROVE TagsRide'
  BY <1>0, <1>3, TagsPush DEF OInv
<1>4. CASE Drain
  BY <1>4 DEF Drain, clientVars, Poll, TagsRide
<1>5. CASE NoticeLink
  BY <1>5 DEF NoticeLink, clientVars, modelVars, ResetOnDisconnect, TagsRide, TextPending
<1>6. CASE Handover \/ LinkDrop \/ Reconnect \/ Tick
  BY <1>6, NoTextAtEnd DEF Handover, LinkDrop, Reconnect, Tick, clientVars, modelVars, TagsRide,
                           TextPending
<1>7. CASE UNCHANGED vars
  BY <1>7 DEF vars, modelVars, clientVars, TagsRide, TextPending
<1> QED
  BY <1>2, <1>3, <1>4, <1>5, <1>6, <1>7 DEF Next, Phone

(* Tag state that rode a batch is drawn only together with that batch's    *)
(* content, for a client that waits, is not interrupted, flags the end of  *)
(* every batch and sends tag state last (poll's tag drain).                *)
THEOREM TagsRideTheirBatch ==
  ASSUME EndsEveryBatch, TagsComeLast
  PROVE  Spec => TagsLandWithTheirBatch
<1>1. Init => TInv
  BY OrderlyInit, NoTextAtEnd DEF TInv, TagsRide, Init, ModelInit
<1>2. TInv /\ [Next]_vars => TInv'
  BY TagsStep
<1>3. TInv /\ [Next]_vars =>
        [Uninterrupted /\ shown'.tags # shown.tags /\ result'.tagInBatch
           => shown'.tags \in {shown'.title, shown'.body}]_vars
  <2> SUFFICES ASSUME TInv, Next, Uninterrupted, shown'.tags # shown.tags, result'.tagInBatch
               PROVE  shown'.tags \in {shown'.title, shown'.body}
    OBVIOUS
  <2>1. Drain
    BY DEF Next, Phone, BeginBatch, PushField, Handover, LinkDrop, Reconnect, NoticeLink, Tick
  <2>2. OneOwner /\ TagsRide /\ tagInBatch
    BY <2>1 DEF TInv, OInv, Orderly, Drain, Poll
  <2>3. commitReady /\ tagState = batch /\ TextPending
    BY <2>2 DEF TagsRide
  <2>4. ~poisoned
    <3>1. SUFFICES ASSUME poisoned PROVE FALSE
      OBVIOUS
    <3>2. result'.tagState = NoPayload
      BY <2>1, <2>2, <2>3, <3>1 DEF Drain, Poll, Resolution, TagDies
    <3> QED
      BY <2>1, <3>2 DEF Drain, Applied
  <2>5. Resolution(now) = "Commit"
    BY <2>3, <2>4 DEF Resolution
  <2>6. /\ result'.title = title /\ result'.body = body
        /\ result'.tagState \in {NoPayload, tagState}
    BY <2>1, <2>5 DEF Drain, Poll
  <2>7. shown'.tags = batch
    BY <2>1, <2>3, <2>6 DEF Drain, Applied
  <2>8. (title # NoPayload /\ title = batch) \/ (body # NoPayload /\ body = batch)
    BY <2>2, <2>3, <2>4 DEF OneOwner, TextPending
  <2> QED
    BY <2>1, <2>6, <2>7, <2>8 DEF Drain, Applied
<1> QED
  BY <1>1, <1>2, <1>3, PTL DEF Spec, TagsLandWithTheirBatch

----------------------------------------------------------------------------
(* A punctual client, interrupted as it may be.  Nothing is ready while a  *)
(* batch is being pushed, and the clock of what is buffered has not run    *)
(* out, so neither poison nor text of the batch is gone before its end.    *)
Fresh == Age(now) <= Timeout

Quiet == /\ plan # << >> => ~commitReady /\ linkUp
         /\ ~linkUp => due = {}
NoLossHidden ==
  /\ lost \subseteq 0 .. batch
  /\ plan # << >> /\ batch \in lost => poisoned /\ Fresh
  /\ ~poisoned => title \notin lost /\ body \notin lost

Waits == Quiet /\ NoLossHidden
WInv == IInv /\ (Punctual => Waits)

(* The age of a field that has just arrived. *)
LEMMA JustArrived ==
  ASSUME NEW t \in 0 .. ClockSpan - 1
  PROVE  (t + ClockSpan - t) % ClockSpan <= Timeout
<1>1. ClockSpan \in Nat /\ ClockSpan > 0 /\ Timeout \in Nat /\ t + ClockSpan - t = ClockSpan
  BY ClockAssumption
<1>2. ClockSpan % ClockSpan = 0
  BY <1>1
<1> QED
  BY <1>1, <1>2

(* What the clock does to a batch in progress. *)
LEMMA StaysFresh ==
  ASSUME Punctual, Tick, plan # << >>, TextPending
  PROVE  Fresh'
BY DEF Punctual, Tick, Fresh, Age, modelVars

LEMMA WaitsInit == Init => WInv
<1> SUFFICES ASSUME Init PROVE WInv
  OBVIOUS
<1>1. Waits
  BY Constants DEF AllAssumptions, Init, ModelInit, Waits, Quiet, NoLossHidden
<1> QED
  BY <1>1, InitIInv DEF WInv

LEMMA WaitsPush ==
  ASSUME IInv, Waits, NEW outcome \in Outcomes, PushField(outcome)
  PROVE  Waits'
<1> DEFINE final == flagged /\ Len(plan) = 1
           pid   == IF asks THEN batch ELSE 0
           field == Head(plan)
<1>1. /\ linkUp /\ plan # << >> /\ ~commitReady /\ plan \in Seq(Fields)
      /\ plan' = Tail(plan) /\ batch \in Payloads /\ batch \in Nat
      /\ now \in 0 .. ClockSpan - 1 /\ lost \subseteq Payloads
  BY Constants DEF AllAssumptions, PushField, Waits, Quiet, IInv, TypeOK, PendingUnanswered
<1>2. OnField(field, batch, final, outcome, pid, now)
  BY DEF PushField
<1>3. /\ UNCHANGED <<batch, linkUp, now>>
      /\ lost' = IF outcome = "Dropped" THEN lost \cup {batch} ELSE lost
      /\ outcome = "Dropped" => field \in TextFields
  BY DEF PushField
<1>4. final => plan' = << >>
  BY <1>1, LastField
<1> HIDE DEF final, pid, field
<1>5. Quiet'
  BY <1>1, <1>2, <1>3, <1>4 DEF OnField, Quiet
<1>6. lost' \subseteq 0 .. batch
  BY <1>1, <1>3 DEF Waits, NoLossHidden
<1>7. batch \in lost' => poisoned' /\ Fresh'
  <2>1. poisoned => poisoned'
    BY <1>2 DEF OnField
  <2>2. lastField' \in {lastField, now} /\ (lastField' = lastField => (Fresh <=> Fresh'))
    BY <1>2, <1>3 DEF OnField, Fresh, Age
  <2>3. lastField' = now => Fresh'
    BY <1>1, <1>3, JustArrived DEF Fresh, Age
  <2>4. CASE outcome = "Dropped"
    BY <1>2, <1>3, <2>3, <2>4 DEF OnField, Counts
  <2>5. CASE outcome # "Dropped"
    BY <1>1, <1>3, <2>1, <2>2, <2>3, <2>5 DEF Waits, NoLossHidden
  <2> QED
    BY <2>4, <2>5
<1>8. ~poisoned' => title' \notin lost' /\ body' \notin lost'
  <2> SUFFICES ASSUME ~poisoned' PROVE title' \notin lost' /\ body' \notin lost'
    OBVIOUS
  <2>1. outcome # "Dropped" /\ ~poisoned
    BY <1>2, <1>3 DEF OnField
  <2>2. lost' = lost /\ batch \notin lost
    BY <1>1, <1>3, <2>1 DEF Waits, NoLossHidden
  <2>3. title' \in {title, batch} /\ body' \in {body, batch}
    BY <1>2 DEF OnField
  <2> QED
    BY <2>1, <2>2, <2>3 DEF Waits, NoLossHidden
<1> QED
  BY <1>3, <1>5, <1>6, <1>7, <1>8 DEF Waits, NoLossHidden

(* While a batch is pushed, the poll resolves nothing that is fresh. *)
LEMMA NothingTimesOut ==
  ASSUME ~commitReady, Fresh, IInv
  PROVE  Resolution(now) = "None"
<1>1. Age(now) \in Nat /\ Timeout \in Nat
  BY Constants DEF AllAssumptions, IInv, TypeOK, ModelTypeOK, Age
<1> QED
  BY <1>1 DEF Resolution, TimesOut, Fresh

LEMMA WaitsDrain ==
  ASSUME IInv, Waits, Drain
  PROVE  Waits'
<1>1. Poll(now) /\ UNCHANGED <<now, batch, plan, linkUp, lost, due>>
  BY DEF Drain, clientVars
<1>2. CASE Resolution(now) = "None"
  BY <1>1, <1>2 DEF Poll, Waits, Quiet, NoLossHidden, Fresh, Age
<1>3. CASE Resolution(now) # "None"
  <2>1. ClearBatch
    BY <1>1, <1>3 DEF Poll
  <2>2. plan = << >> \/ batch \notin lost
    BY <1>3, NothingTimesOut DEF Waits, Quiet, NoLossHidden
  <2>3. NoPayload \notin lost
    BY Constants DEF AllAssumptions, IInv, TypeOK
  <2> QED
    BY <1>1, <2>1, <2>2, <2>3 DEF ClearBatch, Waits, Quiet, NoLossHidden
<1> QED
  BY <1>2, <1>3

LEMMA WaitsNotice ==
  ASSUME IInv, Waits, NoticeLink
  PROVE  Waits'
<1>1. UNCHANGED <<now, batch, plan, linkUp, lost, due>>
  BY DEF NoticeLink, clientVars
<1>2. CASE connected /\ ~linkUp
  <2>1. ClearBatch
    BY <1>2 DEF NoticeLink, ResetOnDisconnect
  <2>2. plan = << >>
    BY <1>2 DEF Waits, Quiet
  <2>3. NoPayload \notin lost
    BY Constants DEF AllAssumptions, IInv, TypeOK
  <2> QED
    BY <1>1, <2>1, <2>2, <2>3 DEF ClearBatch, Waits, Quiet, NoLossHidden
<1>3. CASE ~(connected /\ ~linkUp)
  BY <1>1, <1>3 DEF NoticeLink, modelVars, Waits, Quiet, NoLossHidden, Fresh, Age
<1> QED
  BY <1>2, <1>3

LEMMA WaitsOther ==
  ASSUME IInv, Waits, Punctual, Handover \/ LinkDrop \/ Reconnect \/ Tick
  PROVE  Waits'
<1>1. UNCHANGED modelVars /\ UNCHANGED <<batch, lost>>
  BY DEF Handover, LinkDrop, Reconnect, Tick, clientVars
<1>2. CASE Handover \/ LinkDrop
  BY <1>1, <1>2 DEF Handover, LinkDrop, modelVars, Waits, Quiet, NoLossHidden
<1>3. CASE Reconnect
  BY <1>1, <1>3 DEF Reconnect, clientVars, modelVars, Waits, Quiet, NoLossHidden, Fresh, Age
<1>4. CASE Tick
  <2>1. plan # << >> /\ batch \in lost => poisoned' /\ Fresh'
    BY <1>1, <1>4, StaysFresh DEF Waits, NoLossHidden, TextPending, modelVars
  <2>2. UNCHANGED <<plan, linkUp, due>>
    BY <1>4 DEF Tick, clientVars
  <2> QED
    BY <1>1, <2>1, <2>2 DEF modelVars, Waits, Quiet, NoLossHidden
<1> QED
  BY <1>2, <1>3, <1>4

LEMMA WaitsStep ==
  ASSUME WInv, [Next]_vars
  PROVE  WInv'
<1>0. IInv /\ IInv'
  BY StepIInv DEF WInv
<1>1. client' = client
  BY SameClient
<1> SUFFICES ASSUME Punctual, Waits PROVE Waits'
  BY <1>0, <1>1 DEF WInv, Punctual
<1>2. ASSUME NEW p \in Plans, BeginBatch(p) PROVE Waits'
  <2>1. /\ batch' = batch + 1 /\ batch \in Nat /\ ~commitReady /\ linkUp
        /\ UNCHANGED modelVars /\ UNCHANGED <<linkUp, lost, due>>
    BY <1>0, <1>2, Constants DEF AllAssumptions, BeginBatch, Punctual, IInv, TypeOK
  <2>2. batch' \notin lost /\ lost \subseteq 0 .. batch'
    BY <2>1 DEF Waits, NoLossHidden
  <2> QED
    BY <2>1, <2>2 DEF modelVars, Waits, Quiet, NoLossHidden
<1>3. ASSUME NEW outcome \in Outcomes, PushField(outcome) PROVE Waits'
  BY <1>0, <1>3, WaitsPush
<1>4. CASE Drain
  BY <1>0, <1>4, WaitsDrain
<1>5. CASE NoticeLink
  BY <1>0, <1>5, WaitsNotice
<1>6. CASE Handover \/ LinkDrop \/ Reconnect \/ Tick
  BY <1>0, <1>6, WaitsOther
<1>7. CASE UNCHANGED vars
  BY <1>7 DEF vars, modelVars, clientVars, Waits, Quiet, NoLossHidden, Fresh, Age
<1> QED
  BY <1>2, <1>3, <1>4, <1>5, <1>6, <1>7 DEF Next, Phone

(* A batch that lost a text field never puts its surviving fields on the   *)
(* page, for every punctual client, though the link flaps and the screen   *)
(* changes hands in mid-batch (the poison flag of onField and poll).       *)
THEOREM LossNeverShown == Spec => LostBatchNeverShown
<1>1. WInv /\ [Next]_vars =>
        [Punctual => \A f \in TextFields : shown'[f] # shown[f] => shown'[f] \notin lost]_vars
  <2> SUFFICES ASSUME WInv, Next, Punctual, NEW f \in TextFields, shown'[f] # shown[f]
               PROVE  shown'[f] \notin lost
    OBVIOUS
  <2>1. Drain
    BY DEF Next, Phone, BeginBatch, PushField, Handover, LinkDrop, Reconnect, NoticeLink, Tick
  <2>2. shown'[f] = IF result'[f] = NoPayload THEN shown[f] ELSE result'[f]
    BY <2>1 DEF Drain, Applied, TextFields
  <2>3. result'[f] # NoPayload
    BY <2>2
  <2>4. Resolution(now) = "Commit" /\ result'[f] \in {title, body}
    BY <2>1, <2>3 DEF Drain, Poll, TextFields
  <2>5. ~poisoned
    BY <2>4 DEF Resolution
  <2> QED
    BY <2>2, <2>3, <2>4, <2>5 DEF WInv, Waits, NoLossHidden
<1>2. WInv /\ [Next]_vars => WInv'
  BY WaitsStep
<1> QED
  BY WaitsInit, <1>1, <1>2, PTL DEF Spec, LostBatchNeverShown

----------------------------------------------------------------------------
(* An answer is owed as long as the text it answers for is pending: text   *)
(* still to be pushed, then text whose clock has not run out, then text    *)
(* that is ready with its push id latched.                                 *)
Owed(p) == answers[p] = 1 \/ (commitReady /\ batchPushId = p)
Owes == /\ plan # << >> /\ asks => HasText(plan) \/ (TextPending /\ Fresh)
        /\ batchPushId # 0 => commitReady /\ TextPending
        /\ \A p \in due : Owed(p)

EInv == WInv /\ (Punctual => Owes)

LEMMA OwesPush ==
  ASSUME IInv, Waits, Owes, NEW outcome \in Outcomes, PushField(outcome)
  PROVE  Owes'
<1> DEFINE final == flagged /\ Len(plan) = 1
           pid   == IF asks THEN batch ELSE 0
           field == Head(plan)
<1>1. /\ plan # << >> /\ ~commitReady /\ batchPushId = 0 /\ plan \in Seq(Fields)
      /\ plan' = Tail(plan) /\ batch \in Payloads /\ batch # NoPayload
      /\ now \in 0 .. ClockSpan - 1
  BY Constants DEF AllAssumptions, PushField, Waits, Quiet, Owes, IInv, TypeOK, PendingUnanswered
<1>2. OnField(field, batch, final, outcome, pid, now)
  BY DEF PushField
<1>3. /\ UNCHANGED <<now, asks, answers>>
      /\ due' = IF final /\ asks THEN due \cup {batch} ELSE due
  BY DEF PushField
<1>4. final => plan' = << >>
  BY <1>1, LastField
<1>5. field \in TextFields \/ HasText(plan) => field \in TextFields \/ HasText(plan')
  BY <1>1, TailHasText
<1> HIDE DEF final, pid, field
<1>6. TextPending => TextPending' /\ (Fresh => Fresh')
  <2>1. lastField' = now => Fresh'
    BY <1>1, <1>3, JustArrived DEF Fresh, Age
  <2>2. lastField' = lastField => (Fresh => Fresh')
    BY <1>3 DEF Fresh, Age
  <2> QED
    BY <1>1, <1>2, <2>1, <2>2 DEF OnField, TextPending
<1>7. field \in TextFields => TextPending' /\ Fresh'
  <2>1. ASSUME field \in TextFields PROVE lastField' = now /\ TextPending'
    <3>1. CASE outcome = "Dropped"
      BY <1>2, <2>1, <3>1 DEF OnField, Counts, TextPending
    <3>2. CASE outcome # "Dropped"
      BY <1>1, <1>2, <2>1, <3>2 DEF OnField, Counts, TextPending, TextFields
    <3> QED
      BY <3>1, <3>2
  <2>2. lastField' = now => Fresh'
    BY <1>1, <1>3, JustArrived DEF Fresh, Age
  <2> QED
    BY <2>1, <2>2
<1>8. asks => HasText(plan') \/ (TextPending' /\ Fresh')
  BY <1>1, <1>5, <1>6, <1>7 DEF Owes
<1>9. batchPushId' # 0 => commitReady' /\ TextPending'
  <2> SUFFICES ASSUME batchPushId' # 0 PROVE commitReady' /\ TextPending'
    OBVIOUS
  <2>1. final /\ asks
    BY <1>1, <1>2 DEF OnField, pid
  <2> QED
    BY <1>2, <1>4, <1>8, <2>1, NoTextAtEnd DEF OnField
<1>10. ASSUME NEW p \in due' PROVE Owed(p)'
  <2>1. CASE p \in due
    BY <1>1, <1>3, <2>1 DEF Owes, Owed
  <2>2. CASE p \notin due
    BY <1>2, <1>3, <1>10, <2>2 DEF OnField, pid, Owed
  <2> QED
    BY <2>1, <2>2
<1> QED
  BY <1>3, <1>8, <1>9, <1>10 DEF Owes

LEMMA OwesDrain ==
  ASSUME IInv, Waits, Owes, Drain
  PROVE  Owes'
<1>1. Poll(now) /\ UNCHANGED <<now, plan, asks, due>>
  BY DEF Drain, clientVars
<1>2. answers' = IF Answers(result') THEN [answers EXCEPT ![result'.pushId] = @ + 1] ELSE answers
  BY DEF Drain
<1>3. /\ result'.resolution = Resolution(now)
      /\ result'.pushId = IF Resolution(now) = "None" THEN 0 ELSE batchPushId
      /\ result'.title = (IF Resolution(now) = "Commit" THEN title ELSE NoPayload)
      /\ result'.body = (IF Resolution(now) = "Commit" THEN body ELSE NoPayload)
  BY <1>1 DEF Poll
<1>4. CASE Resolution(now) = "None"
  <2>1. answers' = answers
    BY <1>2, <1>3, <1>4 DEF Answers
  <2> QED
    BY <1>1, <1>4, <2>1 DEF Poll, Owes, Owed, TextPending, Fresh, Age
<1>5. CASE Resolution(now) # "None"
  <2>1. ClearBatch
    BY <1>1, <1>5 DEF Poll
  <2>2. plan # << >> /\ asks => HasText(plan)
    BY <1>5, NothingTimesOut DEF Waits, Quiet, Owes
  <2>3. batchPushId # 0 => Answers(result')
    <3>1. SUFFICES ASSUME batchPushId # 0 PROVE Answers(result')
      OBVIOUS
    <3>2. Resolution(now) = "Discard" \/ (Resolution(now) = "Commit" /\ ~poisoned)
      BY <1>5 DEF Resolution
    <3>3. TextPending
      BY <3>1 DEF Owes
    <3> QED
      BY <1>3, <1>5, <3>1, <3>2, <3>3 DEF Answers, TextPending
  <2>4. ASSUME NEW p \in due PROVE answers'[p] = 1
    <3>1. p \in Payloads /\ p # 0 /\ answers \in [Payloads -> Nat]
      BY Constants DEF AllAssumptions, IInv, TypeOK
    <3>2. CASE batchPushId = p
      <4>1. answers[p] = 0 /\ result'.pushId = p
        BY <1>3, <1>5, <3>1, <3>2 DEF IInv, LatchedUnanswered
      <4> QED
        BY <1>2, <2>3, <3>1, <3>2, <4>1
    <3>3. CASE batchPushId # p
      <4>1. answers[p] = 1 /\ result'.pushId # p
        BY <1>3, <3>1, <3>3 DEF Owes, Owed
      <4> QED
        BY <1>2, <3>1, <4>1
    <3> QED
      BY <3>2, <3>3
  <2> QED
    BY <1>1, <2>1, <2>2, <2>4 DEF ClearBatch, Owes, Owed
<1> QED
  BY <1>4, <1>5

LEMMA OwesStep ==
  ASSUME AskersHaveText, EInv, [Next]_vars
  PROVE  EInv'
<1>0. IInv /\ WInv /\ WInv'
  BY WaitsStep DEF EInv, WInv
<1>1. client' = client
  BY SameClient
<1> SUFFICES ASSUME Punctual, Waits, Owes PROVE Owes'
  BY <1>0, <1>1 DEF EInv, WInv, Punctual
<1>2. ASSUME NEW p \in Plans, BeginBatch(p) PROVE Owes'
  BY <1>2 DEF BeginBatch, modelVars, AskersHaveText, Owes, Owed, TextPending
<1>3. ASSUME NEW outcome \in Outcomes, PushField(outcome) PROVE Owes'
  BY <1>0, <1>3, OwesPush
<1>4. CASE Drain
  BY <1>0, <1>4, OwesDrain
<1>5. CASE NoticeLink
  <2>1. UNCHANGED <<now, plan, asks, due, answers>>
    BY <1>5 DEF NoticeLink, clientVars
  <2>2. CASE connected /\ ~linkUp
    BY <1>5, <2>1, <2>2 DEF NoticeLink, ResetOnDisconnect, ClearBatch, Waits, Quiet, Owes, Owed
  <2>3. CASE ~(connected /\ ~linkUp)
    BY <1>5, <2>1, <2>3 DEF NoticeLink, modelVars, Owes, Owed, TextPending, Fresh, Age
  <2> QED
    BY <2>2, <2>3
<1>6. CASE Handover \/ LinkDrop
  BY <1>6 DEF Handover, LinkDrop, modelVars, Owes, Owed, TextPending
<1>7. CASE Reconnect
  BY <1>7 DEF Reconnect, clientVars, modelVars, Owes, Owed, TextPending, Fresh, Age
<1>8. CASE Tick
  <2>1. UNCHANGED modelVars /\ UNCHANGED <<plan, asks, due, answers>>
    BY <1>8 DEF Tick, clientVars
  <2>2. plan # << >> /\ TextPending => Fresh'
    BY <1>8, StaysFresh
  <2> QED
    BY <2>1, <2>2 DEF modelVars, Owes, Owed, TextPending
<1>9. CASE UNCHANGED vars
  BY <1>9 DEF vars, modelVars, clientVars, Owes, Owed, TextPending, Fresh, Age
<1> QED
  BY <1>2, <1>3, <1>4, <1>5, <1>6, <1>7, <1>8, <1>9 DEF Next, Phone

(* A punctual client's answer has been given or is still latched: it is    *)
(* neither overwritten nor dropped with its batch, provided only that a    *)
(* batch which asks for one carries text (batchPushId_ of onField, and the *)
(* commit that arms nothing).                                              *)
THEOREM AnswersAreOwed ==
  ASSUME AskersHaveText
  PROVE  Spec => []AnswerOwed
<1>1. Init => EInv
  BY WaitsInit DEF EInv, Owes, Init, ModelInit
<1>2. EInv /\ [Next]_vars => EInv'
  BY OwesStep
<1>3. EInv => AnswerOwed
  BY DEF EInv, Owes, Owed, AnswerOwed
<1> QED
  BY <1>1, <1>2, <1>3, PTL DEF Spec
=============================================================================
