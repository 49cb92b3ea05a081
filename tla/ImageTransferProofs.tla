------------------------ MODULE ImageTransferProofs ------------------------
(***************************************************************************)
(* TLAPS proofs about ImageTransfer, for every number of pushes, CHUNKs,   *)
(* queue places, set of apps and set of troubles: its type invariant, with *)
(* the bound of the writer's queue; that a text field has no hole; that no *)
(* push is answered twice; and that nothing is left open or half written.  *)
(* ImageWholeProofs has the last one, that a picture is whole.             *)
(***************************************************************************)
EXTENDS ImageTransfer, TLAPS

----------------------------------------------------------------------------
(* Type correctness. *)

Written == Seq(Pushes \X (1 .. Chunks))

AppOK ==
  /\ trouble \in Environments /\ linkUp \in BOOLEAN /\ connected \in BOOLEAN
  /\ foreground \in Apps \cup {NoApp} /\ owner \in [Pushes -> Apps \cup {NoApp}]
  /\ begun \in 0 .. MaxPush
  /\ wire \in [push : 0 .. MaxPush, next : 1 .. End, kind : Kinds \cup {"none"}]
  /\ owed \subseteq Pushes
  /\ wire.push <= begun
  /\ \A p \in 1 .. begun : owner[p] \in Apps

HostOK ==
  /\ active \in 0 .. MaxPush /\ what \in Kinds \cup {"none"} /\ seq \in 0 .. Chunks
  /\ gap \in BOOLEAN /\ failed \in BOOLEAN
  /\ buffer \in Seq(1 .. Chunks) /\ Len(buffer) <= seq
  /\ active <= begun
  /\ active = 0 <=> what = "none"

(* What is queued is of a push already begun, and a chunk has a number.    *)
Proper(q) ==
  \A i \in 1 .. Len(q) : q[i].push <= begun /\ (q[i].type = "chunk" => q[i].chunk # 0)

QueueOK ==
  /\ queue \in Seq(Messages) /\ Len(queue) <= QueueLen
  /\ Proper(queue)

WriterOK ==
  /\ open \in {"no", "staging", "adrift"} /\ staging \in Apps \cup {NoApp}
  /\ incoming \in [Apps -> Files]
  /\ open = "staging" => staging \in Apps /\ incoming[staging] \in Written

LoopOK ==
  /\ staged \in 0 .. MaxPush /\ loopAt \in {"drain", "apply", "move", "arm"}
  /\ taken \in Pages /\ shown \in Pages /\ armed \in 0 .. MaxPush
  /\ drawing \in BOOLEAN /\ panel \in [push : 0 .. MaxPush, base : Files, grey : Files]
  /\ staged <= begun /\ taken.push <= begun /\ shown.push <= begun /\ armed <= begun
  /\ loopAt = "drain" => taken.push = 0
  /\ loopAt \in {"move", "arm"} => taken.push # 0
  /\ drawing => shown.push # 0
  /\ shown.push = 0 => shown = NoPage

ScreenOK ==
  /\ handed \in BOOLEAN /\ holder \in Apps \cup {NoApp} /\ screen \in {"image", "text", "other"}
  /\ due \in BOOLEAN /\ tagsOnly \in BOOLEAN /\ gallery \in [Apps -> Pages]
  /\ \A a \in Apps : gallery[a].push <= begun /\ (gallery[a].push = 0 => gallery[a] = NoPage)

AnswerOK ==
  /\ answers \in [Pushes -> Seq(Apps)]
  /\ \A t \in texts : t \in [push : Pushes, chunks : Seq(1 .. Chunks)]

TInv == AppOK /\ HostOK /\ QueueOK /\ WriterOK /\ LoopOK /\ ScreenOK /\ AnswerOK

LEMMA Bounds == MaxPush \in Nat /\ MaxPush # 0 /\ Chunks \in Nat /\ Chunks # 0
                /\ QueueLen \in Nat /\ QueueLen # 0
BY BoundsAssumption

LEMMA TypesFollow == TInv => TypeOK
BY Bounds DEF TInv, AppOK, HostOK, QueueOK, WriterOK, LoopOK, ScreenOK, AnswerOK, TypeOK

LEMMA TInit == Init => TInv
<1> SUFFICES ASSUME Init PROVE TInv OBVIOUS
<1> USE Bounds, BoundsAssumption DEF Init, Pushes, End, NoWire, NoPage, NoPanel, Files
<1>1. AppOK BY DEF AppOK
<1>2. HostOK
  <2>1. active \in 0 .. MaxPush /\ what \in Kinds \cup {"none"} OBVIOUS
  <2>2. seq \in 0 .. Chunks OBVIOUS
  <2>3. buffer \in Seq(1 .. Chunks) OBVIOUS
  <2>4. Len(buffer) <= seq OBVIOUS
  <2>5. active <= begun OBVIOUS
  <2>6. gap \in BOOLEAN /\ failed \in BOOLEAN BY Zenon
  <2> QED BY <2>1, <2>2, <2>3, <2>4, <2>5, <2>6 DEF HostOK
<1>3. QueueOK BY DEF QueueOK, Proper
<1>4. WriterOK
  <2>1. open \in {"no", "staging", "adrift"} /\ staging \in Apps \cup {NoApp} OBVIOUS
  <2>2. incoming \in [Apps -> Files] OBVIOUS
  <2> QED BY <2>1, <2>2 DEF WriterOK
<1>5. LoopOK
  <2>1. drawing \in BOOLEAN /\ ~drawing BY Zenon
  <2>2. NoPage \in Pages BY DEF Pages
  <2> QED BY <2>1, <2>2 DEF LoopOK
<1>6. AnswerOK BY DEF AnswerOK
<1>7. ScreenOK
  <2>1. NoPage \in Pages BY DEF Pages
  <2>2. ~handed /\ ~due /\ ~tagsOnly
    BY Zenon
  <2>3. handed \in BOOLEAN /\ due \in BOOLEAN /\ tagsOnly \in BOOLEAN BY Zenon
  <2> QED BY <2>1, <2>3 DEF ScreenOK
<1> QED BY <1>1, <1>2, <1>3, <1>4, <1>5, <1>6, <1>7 DEF TInv

LEMMA IsMessage ==
  ASSUME NEW type \in {"open", "chunk", "end", "abort"}, NEW p \in Pushes, NEW k \in 0 .. Chunks
  PROVE  /\ Msg(type, p, k) \in Messages
         /\ Msg(type, p, k).type = type /\ Msg(type, p, k).push = p /\ Msg(type, p, k).chunk = k
BY DEF Msg, Messages

(* A send queues the message, or gives up and queues nothing.              *)
LEMMA SendQueues ==
  ASSUME NEW q \in Seq(Messages), Len(q) <= QueueLen, NEW m \in Messages, NEW s \in Send(q, m)
  PROVE  /\ s.sent \in BOOLEAN /\ s.queue \in Seq(Messages) /\ Len(s.queue) <= QueueLen
         /\ s.sent => s.queue = Append(q, m)
         /\ ~s.sent => s.queue = q /\ "stall" \in trouble
<1>1. CASE Len(q) < QueueLen
  <2>1. s = [queue |-> Append(q, m), sent |-> TRUE] BY <1>1 DEF Send
  <2>2. s.queue = Append(q, m) /\ s.sent = TRUE BY <2>1
  <2>3. s.sent \in BOOLEAN /\ s.sent BY <2>2, Zenon
  <2>4. Append(q, m) \in Seq(Messages) /\ Len(Append(q, m)) <= QueueLen
    BY <1>1, Bounds
  <2> QED BY <2>2, <2>3, <2>4
<1>2. CASE ~(Len(q) < QueueLen)
  <2>1. s = [queue |-> q, sent |-> FALSE] /\ "stall" \in trouble BY <1>2 DEF Send
  <2>2. s.queue = q /\ s.sent = FALSE BY <2>1
  <2>3. s.sent \in BOOLEAN /\ ~s.sent BY <2>2, Zenon
  <2> QED BY <2>1, <2>2, <2>3
<1> QED BY <1>1, <1>2

(* An abort appends at most itself.                                        *)
LEMMA AbortQueues ==
  ASSUME TInv, NEW q \in Seq(Messages), Len(q) <= QueueLen, NEW s \in Abort(q)
  PROVE  /\ s.queue \in Seq(Messages) /\ Len(s.queue) <= QueueLen
         /\ what # "image" => s.queue = q
         /\ what = "image" => \/ s.queue = Append(q, Msg("abort", active, 0))
                              \/ s.queue = q /\ "stall" \in trouble
<1>1. CASE what # "image" BY <1>1 DEF Abort
<1>2. CASE what = "image"
  <2>1. active \in Pushes
    BY <1>2, Bounds DEF TInv, HostOK, Pushes
  <2>2. Msg("abort", active, 0) \in Messages
    BY <2>1, Bounds, IsMessage
  <2> QED BY <1>2, <2>2, SendQueues DEF Abort
<1> QED BY <1>1, <1>2

LEMMA AppendedProper ==
  ASSUME TInv, NEW q \in Seq(Messages), Proper(q),
         NEW m \in Messages, m.push <= begun, m.type = "chunk" => m.chunk # 0
  PROVE  Proper(Append(q, m))
BY DEF Proper

LEMMA AbortProper ==
  ASSUME TInv, NEW q \in Seq(Messages), Len(q) <= QueueLen, Proper(q), NEW s \in Abort(q)
  PROVE  Proper(s.queue)
<1>1. CASE what = "image"
  <2>1. active \in Pushes /\ active <= begun
    BY <1>1, Bounds DEF TInv, HostOK, Pushes
  <2> DEFINE m == Msg("abort", active, 0)
  <2>2. m \in Messages /\ m.push <= begun /\ (m.type = "chunk" => m.chunk # 0)
    BY <2>1, Bounds, IsMessage
  <2>3. Proper(Append(q, m)) BY <2>2, AppendedProper
  <2> QED BY <1>1, <2>3, AbortQueues
<1>2. CASE what # "image" BY <1>2, AbortQueues
<1> QED BY <1>1, <1>2

LEMMA AnsweredType ==
  ASSUME TInv, NEW p \in 0 .. MaxPush
  PROVE  Answered(answers, p) \in [Pushes -> Seq(Apps)]
BY Bounds DEF TInv, AppOK, AnswerOK, Answered, Pushes

LEMMA ResetHostOK == ASSUME TInv, ResetHost, begun' = begun PROVE HostOK'
<1>1. gap' \in BOOLEAN /\ failed' \in BOOLEAN BY Zenon DEF ResetHost
<1>2. begun' \in 0 .. MaxPush BY DEF TInv, AppOK
<1> QED BY <1>1, <1>2, Bounds, KindAssumption DEF HostOK, ResetHost

LEMMA GalleryKept ==
  ASSUME TInv, begun' \in {begun, begun + 1}, UNCHANGED gallery
  PROVE  /\ gallery' \in [Apps -> Pages]
         /\ \A a \in Apps : gallery'[a].push <= begun' /\ (gallery'[a].push = 0 => gallery'[a] = NoPage)
<1>1. begun \in Nat BY Bounds DEF TInv, AppOK
<1>2. \A a \in Apps : gallery[a].push \in Nat
  BY Bounds DEF TInv, ScreenOK, Pages
<1> QED BY <1>1, <1>2 DEF TInv, ScreenOK

(* What an action leaves alone stays typed.                                *)
LEMMA Kept ==
  ASSUME TInv, begun' \in {begun, begun + 1}
  PROVE  /\ UNCHANGED <<active, what, seq, gap, failed, buffer>> => HostOK'
         /\ UNCHANGED queue => QueueOK'
         /\ UNCHANGED writerVars => WriterOK'
         /\ UNCHANGED <<staged, loopAt, taken, shown, armed, drawing, panel>> => LoopOK'
         /\ UNCHANGED screenVars => ScreenOK'
         /\ UNCHANGED <<answers, texts>> => AnswerOK'
         /\ UNCHANGED <<appVars, connected>> => AppOK'
<1>1. begun \in Nat BY Bounds DEF TInv, AppOK
<1>2. UNCHANGED <<active, what, seq, gap, failed, buffer>> => HostOK'
  BY <1>1, Bounds DEF TInv, HostOK
<1>3. UNCHANGED queue => QueueOK'
  <2> SUFFICES ASSUME UNCHANGED queue PROVE QueueOK' OBVIOUS
  <2> DEFINE q == queue
  <2>0. q \in Seq(Messages) BY DEF TInv, QueueOK
  <2>1. \A i \in 1 .. Len(q) : q[i].push \in Nat
    <3> SUFFICES ASSUME NEW i \in 1 .. Len(q) PROVE q[i].push \in Nat OBVIOUS
    <3>1. q[i] \in Messages BY <2>0
    <3>2. \A m \in Messages : m.push \in Nat BY Bounds DEF Messages, Pushes
    <3> QED BY <3>1, <3>2
  <2> QED BY <1>1, <2>1 DEF TInv, QueueOK, Proper
<1>4. UNCHANGED writerVars => WriterOK'
  BY DEF TInv, WriterOK, writerVars
<1>5. UNCHANGED <<staged, loopAt, taken, shown, armed, drawing, panel>> => LoopOK'
  <2>1. staged \in Nat /\ taken.push \in Nat /\ shown.push \in Nat /\ armed \in Nat
    BY Bounds DEF TInv, LoopOK, Pages
  <2>2. drawing \in BOOLEAN BY DEF TInv, LoopOK
  <2>3. ASSUME drawing' = drawing PROVE drawing' \in BOOLEAN
    BY <2>2, <2>3, SMT
  <2>4. ASSUME drawing' = drawing, drawing' PROVE drawing
    BY <2>4, Zenon
  <2> QED BY <1>1, <2>1, <2>3, <2>4 DEF TInv, LoopOK
<1>6. UNCHANGED <<answers, texts>> => AnswerOK'
  BY DEF TInv, AnswerOK
<1>7. UNCHANGED <<appVars, connected>> => AppOK'
  BY DEF TInv, AppOK, appVars
<1>8. UNCHANGED screenVars => ScreenOK'
  <2> SUFFICES ASSUME UNCHANGED screenVars PROVE ScreenOK' OBVIOUS
  <2>1. UNCHANGED <<handed, holder, screen, due, tagsOnly>> /\ UNCHANGED gallery
    BY DEF screenVars
  <2>2. handed' \in BOOLEAN /\ due' \in BOOLEAN /\ tagsOnly' \in BOOLEAN
    BY <2>1 DEF TInv, ScreenOK
  <2> QED BY <2>1, <2>2, GalleryKept DEF TInv, ScreenOK
<1> QED BY <1>2, <1>3, <1>4, <1>5, <1>6, <1>7, <1>8

(* The screen after an action that leaves the galleries alone.             *)
LEMMA ScreenKept ==
  ASSUME TInv, begun' = begun, UNCHANGED gallery, handed' \in BOOLEAN, due' \in BOOLEAN,
         tagsOnly' \in BOOLEAN, holder' \in Apps \cup {NoApp},
         screen' \in {"image", "text", "other"}
  PROVE  ScreenOK'
BY GalleryKept DEF ScreenOK

LEMMA HandedKept ==
  ASSUME TInv, begun' = begun, UNCHANGED pageVars, handed' = TRUE
  PROVE  ScreenOK'
<1>1. UNCHANGED <<holder, screen, due, tagsOnly>> /\ UNCHANGED gallery BY DEF pageVars
<1>2. handed' \in BOOLEAN BY Zenon
<1>3. due' \in BOOLEAN /\ tagsOnly' \in BOOLEAN BY <1>1 DEF TInv, ScreenOK
<1> QED BY <1>1, <1>2, <1>3, ScreenKept DEF TInv, ScreenOK

LEMMA StartPushType == ASSUME TInv, StartPush PROVE TInv'
<1>1. begun \in 0 .. MaxPush /\ begun < MaxPush /\ begun' = begun + 1 /\ begun + 1 \in Pushes
  BY Bounds DEF TInv, AppOK, StartPush, Pushes
<1>2. PICK kind \in Kinds, a \in Abort(queue) :
         /\ wire' = [push |-> begun + 1, next |-> 1, kind |-> kind] /\ what' = kind
         /\ \/ /\ kind = "image"
               /\ \E o \in Send(a.queue, Msg("open", begun + 1, 0)) :
                    queue' = o.queue /\ failed' = ~o.sent
            \/ kind = "text" /\ queue' = a.queue /\ failed' = FALSE
            \/ "refused" \in trouble /\ queue' = a.queue /\ failed' = TRUE
  BY DEF StartPush
<1>3. a.queue \in Seq(Messages) /\ Len(a.queue) <= QueueLen
  BY AbortQueues DEF TInv, QueueOK
<1>4. Proper(a.queue)
  BY AbortProper DEF TInv, QueueOK, Proper
<1>5. /\ Msg("open", begun + 1, 0) \in Messages /\ Msg("open", begun + 1, 0).push = begun + 1
      /\ Msg("open", begun + 1, 0).type = "open"
  BY <1>1, Bounds, IsMessage
<1>6. \/ queue' = a.queue
      \/ queue' = Append(a.queue, Msg("open", begun + 1, 0)) /\ Len(queue') <= QueueLen
  BY <1>2, <1>3, <1>5, SendQueues
<1>7. QueueOK'
  <2>1. queue' \in Seq(Messages) /\ Len(queue') <= QueueLen
    BY <1>3, <1>5, <1>6
  <2>2. \A i \in 1 .. Len(a.queue) : a.queue[i].push \in Nat
    <3> DEFINE q == a.queue
    <3> SUFFICES ASSUME NEW i \in 1 .. Len(q) PROVE q[i].push \in Nat OBVIOUS
    <3>1. q[i] \in Messages BY <1>3
    <3>2. \A m \in Messages : m.push \in Nat BY Bounds DEF Messages, Pushes
    <3> QED BY <3>1, <3>2
  <2>3. Proper(a.queue)' BY <1>1, <1>4, <2>2 DEF Proper
  <2>4. CASE queue' = a.queue BY <2>1, <2>3, <2>4 DEF QueueOK, Proper
  <2>5. CASE queue' = Append(a.queue, Msg("open", begun + 1, 0))
    <3> DEFINE m == Msg("open", begun + 1, 0)
               q == a.queue
    <3>1. SUFFICES ASSUME NEW i \in 1 .. Len(q) + 1
                   PROVE  LET n == Append(q, m)[i]
                          IN n.push <= begun + 1 /\ (n.type = "chunk" => n.chunk # 0)
      BY <1>1, <1>3, <1>5, <2>1, <2>5 DEF QueueOK, Proper
    <3>2. CASE i = Len(q) + 1 BY <1>1, <1>3, <1>5, <3>2
    <3>3. CASE i \in 1 .. Len(q)
      <4>1. Append(q, m)[i] = q[i] BY <1>3, <1>5, <3>3
      <4> QED BY <1>1, <1>4, <2>2, <3>3, <4>1 DEF Proper
    <3> QED BY <1>3, <3>2, <3>3
  <2> QED BY <1>6, <2>4, <2>5
<1>8. failed' \in BOOLEAN
  <2>1. \A o \in Send(a.queue, Msg("open", begun + 1, 0)) : o.sent \in BOOLEAN
    BY <1>3, <1>5, SendQueues
  <2> QED BY <1>2, <2>1
<1>9. HostOK'
  <2>1. gap' \in BOOLEAN BY Zenon DEF StartPush
  <2> QED BY <1>1, <1>2, <1>8, <2>1, Bounds, KindAssumption DEF HostOK, StartPush, Pushes
<1>10. AppOK'
  BY <1>1, <1>2, Bounds DEF TInv, AppOK, StartPush, loopVars, Pushes, End
<1> QED BY <1>1, <1>7, <1>9, <1>10, Kept DEF TInv, StartPush, loopVars

LEMMA FrameSentType ==
  ASSUME TInv, FrameSent, wire.next < End,
         UNCHANGED <<trouble, linkUp, foreground, owner, begun, owed, connected>>
  PROVE  AppOK'
BY Bounds DEF TInv, AppOK, FrameSent, End

LEMMA LoseChunkType == ASSUME TInv, LoseChunk PROVE TInv'
BY Kept, FrameSentType DEF TInv, LoseChunk, loopVars, hostVars

LEMMA ChunkType == ASSUME TInv, Chunk PROVE TInv'
<1>1. AppOK' BY FrameSentType DEF Chunk, loopVars
<1>2. WriterOK' /\ LoopOK' /\ ScreenOK' /\ AnswerOK' BY Kept DEF Chunk, loopVars
<1>3. CASE UNCHANGED <<hostVars, queue>>
  BY <1>1, <1>2, <1>3, Kept DEF TInv, Chunk, hostVars
<1>4. CASE ~(active # wire.push \/ gap \/ failed)
  <2>1. /\ active' = active /\ what' = what /\ begun' = begun /\ active = wire.push /\ wire.push # 0
        /\ wire.next < End
    BY <1>4 DEF Chunk
  <2>2. /\ active \in Pushes /\ active <= begun /\ wire.next \in 1 .. Chunks /\ seq \in 0 .. Chunks
        /\ queue \in Seq(Messages) /\ Len(queue) <= QueueLen /\ Proper(queue)
    BY <2>1, Bounds DEF TInv, HostOK, AppOK, QueueOK, Pushes, End, Proper
  <2>3. gap \in BOOLEAN /\ failed \in BOOLEAN BY DEF TInv, HostOK
  <2>4. CASE OutOfSequence(wire.next)
    <3>1. /\ gap' = TRUE /\ seq' = seq /\ failed' = failed /\ buffer' = buffer
          /\ \E a \in Abort(queue) : queue' = a.queue
      BY <1>4, <2>4 DEF Chunk
    <3>2. QueueOK'
      BY <2>1, <2>2, <3>1, AbortQueues, AbortProper DEF QueueOK, Proper
    <3>3. gap' \in BOOLEAN BY <3>1, Zenon
    <3>4. HostOK' BY <2>1, <2>3, <3>1, <3>3 DEF TInv, HostOK
    <3> QED BY <1>1, <1>2, <3>2, <3>4 DEF TInv
  <2>5. CASE ~OutOfSequence(wire.next)
    <3>0. seq + 1 = wire.next /\ seq + 1 \in 0 .. Chunks
      BY <2>2, <2>5, Bounds DEF OutOfSequence
    <3>1. CASE what = "text"
      <4>1. /\ seq' = seq + 1 /\ buffer' = Append(buffer, wire.next)
            /\ gap' = gap /\ failed' = failed /\ queue' = queue
        BY <1>4, <2>5, <3>1 DEF Chunk
      <4>2. HostOK'
        BY <2>1, <2>2, <2>3, <3>0, <4>1, Bounds DEF TInv, HostOK
      <4> QED BY <1>1, <1>2, <2>1, <4>1, <4>2, Kept DEF TInv
    <3>2. CASE what # "text"
      <4> DEFINE m == Msg("chunk", active, wire.next)
      <4>1. PICK s \in Send(queue, m) :
               /\ failed' = ~s.sent
               /\ seq' = IF s.sent THEN seq + 1 ELSE seq
               /\ \E a \in (IF s.sent THEN {s} ELSE Abort(s.queue)) : queue' = a.queue
               /\ UNCHANGED <<gap, buffer>>
        BY <1>4, <2>5, <3>2 DEF Chunk
      <4>2. m \in Messages /\ m.push = active /\ m.type = "chunk" /\ m.chunk # 0
        BY <2>2, Bounds, IsMessage
      <4>3. /\ s.sent \in BOOLEAN /\ s.queue \in Seq(Messages) /\ Len(s.queue) <= QueueLen
            /\ (s.queue = queue \/ s.queue = Append(queue, m))
        BY <2>2, <4>2, SendQueues
      <4>4. Proper(s.queue) BY <2>2, <4>2, <4>3, AppendedProper
      <4>5. QueueOK'
        <5>1. CASE queue' = s.queue BY <2>1, <4>3, <4>4, <5>1 DEF QueueOK, Proper
        <5>2. CASE \E a \in Abort(s.queue) : queue' = a.queue
          BY <2>1, <4>3, <4>4, <5>2, AbortQueues, AbortProper DEF QueueOK, Proper
        <5> QED BY <4>1, <5>1, <5>2
      <4>6. failed' \in BOOLEAN BY <4>1, <4>3
      <4>7. seq' \in {seq, seq + 1} BY <4>1
      <4>8. HostOK'
        BY <2>1, <2>2, <2>3, <3>0, <4>1, <4>6, <4>7, Bounds DEF TInv, HostOK
      <4> QED BY <1>1, <1>2, <4>5, <4>8 DEF TInv
    <3> QED BY <3>1, <3>2
  <2> QED BY <2>4, <2>5
<1> QED BY <1>3, <1>4 DEF Chunk

LEMMA AbortedQueueOK ==
  ASSUME TInv, begun' = begun, \E a \in Abort(queue) : queue' = a.queue
  PROVE  QueueOK'
<1>1. PICK a \in Abort(queue) : queue' = a.queue OBVIOUS
<1>2. queue \in Seq(Messages) /\ Len(queue) <= QueueLen /\ Proper(queue)
  BY DEF TInv, QueueOK
<1>3. a.queue \in Seq(Messages) /\ Len(a.queue) <= QueueLen /\ Proper(a.queue)
  BY <1>2, AbortQueues, AbortProper
<1>4. Proper(queue)' BY <1>1, <1>3 DEF Proper
<1> QED BY <1>1, <1>3, <1>4 DEF QueueOK

LEMMA EndPushType == ASSUME TInv, EndPush PROVE TInv'
<1>1. begun' = begun BY DEF EndPush
<1>2. AppOK'
  <2>1. wire.push \in Pushes BY Bounds DEF TInv, AppOK, EndPush, Pushes
  <2>2. owed' \subseteq Pushes BY <2>1 DEF TInv, AppOK, EndPush
  <2> QED BY <2>2, Bounds DEF TInv, AppOK, EndPush, NoWire, End, loopVars
<1>3. WriterOK' /\ LoopOK' /\ ScreenOK' BY Kept DEF EndPush, loopVars
<1>4. CASE active # wire.push
  BY <1>1, <1>2, <1>3, <1>4, Kept DEF TInv, EndPush, hostVars
<1>5. CASE active = wire.push /\ what = "text"
  <2>1. ResetHost /\ EndText BY <1>5 DEF EndPush
  <2>2. HostOK' BY <1>1, <2>1, ResetHostOK
  <2>3. QueueOK' BY <1>1, <2>1, Kept DEF EndText
  <2>4. active \in Pushes BY <1>5, Bounds DEF EndPush, TInv, HostOK, Pushes
  <2>5. AnswerOK'
    <3>1. answers' \in [Pushes -> Seq(Apps)]
      BY <2>1, <2>4, AnsweredType, Bounds DEF EndText, TInv, AnswerOK, Pushes
    <3>2. \A t \in texts' : t \in texts \/ t = [push |-> active, chunks |-> buffer]
      BY <2>1 DEF EndText
    <3> QED BY <2>4, <3>1, <3>2 DEF TInv, AnswerOK, HostOK
  <2> QED BY <1>2, <1>3, <2>2, <2>3, <2>5 DEF TInv
<1>6. CASE active = wire.push /\ what # "text"
  <2>1. ResetHost /\ EndImage BY <1>6 DEF EndPush
  <2>2. HostOK' BY <1>1, <2>1, ResetHostOK
  <2>3. /\ active \in Pushes /\ active <= begun
        /\ queue \in Seq(Messages) /\ Len(queue) <= QueueLen /\ Proper(queue)
    BY <1>6, Bounds DEF EndPush, TInv, HostOK, QueueOK, Pushes, Proper
  <2>4. Answered(answers, active) \in [Pushes -> Seq(Apps)]
    BY <2>3, AnsweredType, Bounds DEF Pushes
  <2>5. AnswerOK'
    BY <2>1, <2>4 DEF EndImage, TInv, AnswerOK
  <2>6. QueueOK'
    <3>1. CASE gap \/ failed
      BY <1>1, <2>1, <3>1, AbortedQueueOK DEF EndImage
    <3>2. CASE ~(gap \/ failed)
      <4> DEFINE m == Msg("end", active, 0)
      <4>1. PICK e \in Send(queue, m) : \E t \in (IF e.sent THEN {e} ELSE Abort(e.queue)) :
                \E a \in Abort(t.queue) : queue' = a.queue
        BY <2>1, <3>2 DEF EndImage
      <4>2. m \in Messages /\ m.push = active /\ m.type = "end" BY <2>3, Bounds, IsMessage
      <4>3. /\ e.queue \in Seq(Messages) /\ Len(e.queue) <= QueueLen
            /\ (e.queue = queue \/ e.queue = Append(queue, m))
        BY <2>3, <4>2, SendQueues
      <4>4. Proper(e.queue) BY <2>3, <4>2, <4>3, AppendedProper
      <4>5. PICK t \in (IF e.sent THEN {e} ELSE Abort(e.queue)) :
                \E a \in Abort(t.queue) : queue' = a.queue
        BY <4>1
      <4>6. t.queue \in Seq(Messages) /\ Len(t.queue) <= QueueLen /\ Proper(t.queue)
        BY <4>3, <4>4, AbortQueues, AbortProper
      <4> QED BY <1>1, <4>5, <4>6, AbortQueues, AbortProper DEF QueueOK, Proper
    <3> QED BY <3>1, <3>2
  <2> QED BY <1>2, <1>3, <2>2, <2>5, <2>6 DEF TInv
<1> QED BY <1>4, <1>5, <1>6

LEMMA PushAssetType == ASSUME TInv, PushAsset PROVE TInv'
BY AbortedQueueOK, ResetHostOK, Kept DEF TInv, PushAsset, appVars, loopVars

LEMMA HandoverType == ASSUME TInv, Handover PROVE TInv'
<1>1. AppOK' BY Bounds DEF TInv, AppOK, Handover, NoWire, End, loopVars
<1> QED BY <1>1, AbortedQueueOK, ResetHostOK, Kept, HandedKept DEF TInv, Handover, loopVars

LEMMA ReleaseType == ASSUME TInv, Release PROVE TInv'
<1>1. AppOK' BY Bounds DEF TInv, AppOK, Release, NoWire, End, loopVars
<1> QED BY <1>1, Kept, HandedKept DEF TInv, Release, loopVars, hostVars

LEMMA LinkLossType == ASSUME TInv, LinkLoss PROVE TInv'
<1>0. linkUp' \in BOOLEAN BY Zenon DEF LinkLoss
<1>1. AppOK' BY <1>0, Bounds DEF TInv, AppOK, LinkLoss, NoWire, End, loopVars
<1> QED BY <1>1, AbortedQueueOK, ResetHostOK, Kept, HandedKept DEF TInv, LinkLoss, loopVars

LEMMA ReconnectType == ASSUME TInv, Reconnect PROVE TInv'
<1>0. linkUp' \in BOOLEAN BY Zenon DEF Reconnect
<1>1. AppOK' BY <1>0 DEF TInv, AppOK, Reconnect, loopVars
<1> QED BY <1>1, Kept DEF TInv, Reconnect, loopVars, hostVars

LEMMA HeadMessage ==
  ASSUME TInv, queue # << >>
  PROVE  /\ Head(queue) \in Messages /\ Head(queue).push \in 1 .. begun /\ Head(queue).push \in Pushes
         /\ Head(queue).type = "chunk" => Head(queue).chunk \in 1 .. Chunks
<1>1. queue \in Seq(Messages) /\ Len(queue) >= 1 /\ Head(queue) = queue[1]
  BY DEF TInv, QueueOK
<1>2. queue[1] \in Messages BY <1>1
<1>3. /\ queue[1].push \in Pushes /\ queue[1].push <= begun
      /\ queue[1].chunk \in 0 .. Chunks /\ (queue[1].type = "chunk" => queue[1].chunk # 0)
  BY <1>1, <1>2 DEF TInv, QueueOK, Messages, Proper
<1> QED BY <1>1, <1>2, <1>3, Bounds DEF Pushes, TInv, AppOK

LEMMA ReceiveOK == ASSUME TInv, NEW type, Receive(type), begun' = begun PROVE QueueOK'
BY Bounds DEF TInv, QueueOK, Receive, Proper

LEMMA DiscardedType == ASSUME TInv PROVE Discarded \in [Apps -> Files]
BY DEF TInv, WriterOK, Discarded, Files

LEMMA WriterOpenType == ASSUME TInv, WriterOpen PROVE TInv'
<1>1. queue # << >> /\ begun' = begun BY DEF WriterOpen, Receive, appVars
<1> DEFINE app == owner[Head(queue).push]
           old == IF open # "no" THEN Discarded ELSE incoming
<1>2. app \in Apps BY <1>1, HeadMessage DEF TInv, AppOK
<1>3. old \in [Apps -> Files] BY DiscardedType DEF TInv, WriterOK
<1>4. WriterOK'
  <2>1. CASE open' = "staging" /\ staging' = app /\ incoming' = [old EXCEPT ![app] = << >>]
    <3>1. << >> \in Written /\ << >> \in Files BY DEF Written, Files
    <3> QED BY <1>2, <1>3, <2>1, <3>1 DEF WriterOK
  <2>2. CASE open' = "no" /\ staging' = NoApp /\ incoming' = old
    BY <1>3, <2>2 DEF WriterOK
  <2> QED BY <2>1, <2>2 DEF WriterOpen
<1> QED BY <1>1, <1>4, ReceiveOK, Kept DEF TInv, WriterOpen, appVars, loopVars, hostVars

LEMMA WriterChunkType == ASSUME TInv, WriterChunk PROVE TInv'
<1>1. queue # << >> /\ Head(queue).type = "chunk" /\ begun' = begun
  BY DEF WriterChunk, Receive, appVars
<1>2. WriterOK'
  <2>1. CASE UNCHANGED writerVars BY <1>1, <2>1, Kept
  <2>2. CASE open = "adrift" /\ incoming' = incoming /\ UNCHANGED <<open, staging>>
    BY <2>2 DEF TInv, WriterOK
  <2>3. CASE /\ open = "staging" /\ UNCHANGED <<open, staging>>
             /\ incoming' = [incoming EXCEPT ![staging] = Append(@, <<Head(queue).push, Head(queue).chunk>>)]
    <3>1. staging \in Apps /\ incoming[staging] \in Written /\ incoming \in [Apps -> Files]
      BY <2>3 DEF TInv, WriterOK
    <3>2. Head(queue).push \in Pushes /\ Head(queue).chunk \in 1 .. Chunks
      BY <1>1, HeadMessage
    <3>3. Append(incoming[staging], <<Head(queue).push, Head(queue).chunk>>) \in Written
      BY <3>1, <3>2 DEF Written
    <3>4. incoming'[staging] \in Written /\ incoming' \in [Apps -> Files]
      BY <2>3, <3>1, <3>3 DEF Written, Files
    <3> QED BY <2>3, <3>1, <3>4 DEF WriterOK
  <2>4. CASE open' = "no" /\ staging' = NoApp /\ incoming' = Discarded
    BY <2>4, DiscardedType DEF WriterOK
  <2> QED BY <2>1, <2>2, <2>3, <2>4 DEF WriterChunk, TInv, WriterOK
<1> QED BY <1>1, <1>2, ReceiveOK, Kept DEF TInv, WriterChunk, appVars, loopVars, hostVars

LEMMA WriterEndType == ASSUME TInv, WriterEnd PROVE TInv'
<1>1. /\ queue # << >> /\ begun' = begun
      /\ UNCHANGED <<loopAt, taken, shown, armed, drawing, panel>>
  BY DEF WriterEnd, Receive, appVars
<1>2. Head(queue).push \in 1 .. begun /\ Head(queue).push \in 0 .. MaxPush
  BY <1>1, HeadMessage, Bounds DEF Pushes
<1>3. CASE open = "no"
  <2>1. answers' = Answered(answers, Head(queue).push) /\ UNCHANGED <<open, staging, staged, incoming, texts>>
    BY <1>3 DEF WriterEnd
  <2>2. AnswerOK' BY <1>2, <2>1, AnsweredType DEF TInv, AnswerOK
  <2>3. LoopOK' BY <1>1, <2>1, Kept
  <2>4. WriterOK' BY <1>1, <2>1, Kept DEF writerVars
  <2> QED BY <1>1, <2>2, <2>3, <2>4, ReceiveOK, Kept DEF TInv, WriterEnd, appVars, hostVars
<1>4. CASE open # "no"
  <2>1. /\ staged' = Head(queue).push /\ open' = "no" /\ staging' = NoApp
        /\ UNCHANGED <<incoming, answers, texts>>
    BY <1>4 DEF WriterEnd
  <2>2. WriterOK' BY <2>1 DEF TInv, WriterOK
  <2>3. LoopOK'
    <3>1. drawing' = drawing /\ drawing \in BOOLEAN BY <1>1 DEF TInv, LoopOK
    <3>2. ASSUME drawing' PROVE drawing BY <1>1, <3>2, Zenon
    <3>3. drawing' \in BOOLEAN BY <3>1
    <3> QED BY <1>1, <1>2, <2>1, <3>2, <3>3, Bounds DEF TInv, LoopOK
  <2> QED BY <1>1, <2>1, <2>2, <2>3, ReceiveOK, Kept DEF TInv, WriterEnd, appVars, hostVars
<1> QED BY <1>3, <1>4

LEMMA WriterAbortType == ASSUME TInv, WriterAbort PROVE TInv'
<1>1. WriterOK' BY DiscardedType DEF WriterOK, WriterAbort
<1> QED BY <1>1, ReceiveOK, Kept DEF TInv, WriterAbort, appVars, loopVars, hostVars

LEMMA NoPageType == NoPage \in Pages /\ NoPage.push = 0
BY Bounds DEF NoPage, Files, Pages

(* No picture is being drawn, before and after.                            *)
LEMMA StillNotDrawing ==
  ASSUME TInv, ~drawing, drawing' = drawing PROVE ~drawing' /\ drawing' \in BOOLEAN
<1>1. ~drawing' BY Zenon
<1>2. drawing' \in BOOLEAN BY DEF TInv, LoopOK
<1> QED BY <1>1, <1>2

LEMMA StillDrawing ==
  ASSUME TInv, drawing' = drawing PROVE (drawing' => drawing) /\ drawing' \in BOOLEAN
<1>1. drawing' => drawing BY Zenon
<1>2. drawing' \in BOOLEAN BY DEF TInv, LoopOK
<1> QED BY <1>1, <1>2

LEMMA NoticeLinkType == ASSUME TInv, NoticeLink PROVE TInv'
<1>1. begun' = begun /\ UNCHANGED gallery BY DEF NoticeLink, appVars
<1>2. ~drawing' /\ drawing' \in BOOLEAN BY StillNotDrawing DEF NoticeLink
<1>3. /\ shown' = shown \/ (holder \in Apps /\ shown' = gallery[holder])
      /\ holder' \in {holder, NoApp} /\ armed' \in {0, armed}
      /\ screen' \in {screen, "other", "image"}
  BY DEF NoticeLink, TInv, ScreenOK
<1>4. shown' \in Pages /\ shown'.push <= begun /\ (shown'.push = 0 => shown' = NoPage)
  BY <1>3 DEF TInv, LoopOK, ScreenOK
<1>5. UNCHANGED <<staged, loopAt, taken, panel>> BY DEF NoticeLink
<1>6. armed' \in 0 .. MaxPush /\ armed' <= begun'
  BY <1>1, <1>3, Bounds DEF TInv, LoopOK, AppOK
<1>7. LoopOK'
  BY <1>1, <1>2, <1>4, <1>5, <1>6 DEF TInv, LoopOK
<1>8. ScreenOK'
  <2>1. due' \in BOOLEAN BY Zenon DEF NoticeLink
  <2>2. handed' \in BOOLEAN /\ tagsOnly' \in BOOLEAN BY DEF NoticeLink, TInv, ScreenOK
  <2> QED BY <1>1, <1>3, <2>1, <2>2, ScreenKept DEF TInv, ScreenOK
<1>9. connected' \in BOOLEAN BY DEF TInv, AppOK, NoticeLink
<1>10. AppOK' BY <1>9 DEF TInv, AppOK, NoticeLink, appVars
<1> QED BY <1>1, <1>7, <1>8, <1>10, Kept DEF TInv, NoticeLink, hostVars

LEMMA DrainType == ASSUME TInv, Drain PROVE TInv'
<1>1. begun' = begun /\ UNCHANGED gallery /\ UNCHANGED <<shown, armed, panel, screen>>
  BY DEF Drain, appVars
<1>2. (drawing' => drawing) /\ drawing' \in BOOLEAN BY StillDrawing DEF Drain
<1>3. staged \in 0 .. MaxPush /\ staged <= begun BY DEF TInv, LoopOK
<1>4. taken' \in Pages /\ taken'.push = staged /\ staged' = 0
  BY <1>3, NoPageType DEF Drain, Pages
<1>5. (loopAt' = "apply" /\ holder' = foreground) \/ (loopAt' = "move" /\ holder' = holder /\ staged # 0)
  BY DEF Drain
<1>6. LoopOK'
  BY <1>1, <1>2, <1>3, <1>4, <1>5, Bounds DEF TInv, LoopOK, AppOK
<1>7. ScreenOK'
  <2>1. handed' \in BOOLEAN BY Zenon DEF Drain
  <2>2. due' \in BOOLEAN /\ tagsOnly' \in BOOLEAN BY DEF Drain, TInv, ScreenOK
  <2> QED BY <1>1, <1>5, <2>1, <2>2, ScreenKept DEF TInv, ScreenOK, AppOK
<1> QED BY <1>1, <1>6, <1>7, Kept DEF TInv, Drain, appVars, hostVars

LEMMA ApplyForegroundType == ASSUME TInv, ApplyForeground PROVE TInv'
<1>1. begun' = begun /\ UNCHANGED gallery /\ UNCHANGED <<staged, taken, armed, panel, holder>>
  BY DEF ApplyForeground, appVars
<1>2. ~drawing' /\ drawing' \in BOOLEAN BY StillNotDrawing DEF ApplyForeground
<1>3. /\ shown' \in {shown, NoPage}
      /\ loopAt' = IF taken.push = 0 THEN "drain" ELSE "move"
      /\ screen' \in {screen, "other", "text"}
  BY DEF ApplyForeground
<1>4. LoopOK' BY <1>1, <1>2, <1>3, NoPageType, Bounds DEF TInv, LoopOK, AppOK
<1>5. ScreenOK'
  <2>1. due' \in BOOLEAN BY Zenon DEF ApplyForeground
  <2>2. handed' \in BOOLEAN /\ tagsOnly' \in BOOLEAN BY DEF ApplyForeground, TInv, ScreenOK
  <2> QED BY <1>1, <1>3, <2>1, <2>2, ScreenKept DEF TInv, ScreenOK
<1> QED BY <1>1, <1>4, <1>5, Kept DEF TInv, ApplyForeground, appVars, hostVars

(* What a commit of the staged file may do to the gallery and the page.    *)
LEMMA MoveStagedOutcome ==
  ASSUME MoveStaged
  PROVE  LET app == owner[taken.push]  file == incoming[app] IN
         \E c \in Commits(file) :
           LET page == [push |-> taken.push, file |-> file, moved |-> c.moved] IN
           /\ incoming' = IF c.moved THEN [incoming EXCEPT ![app] = Missing] ELSE incoming
           /\ open' = IF c.moved /\ open = "staging" /\ staging = app THEN "adrift" ELSE open
           /\ gallery' = IF c.listed THEN [gallery EXCEPT ![app] = page]
                         ELSE IF c.lost THEN [gallery EXCEPT ![app] = NoPage] ELSE gallery
           /\ \/ UNCHANGED shown
              \/ /\ "card" \in trouble /\ shown.moved /\ owner[shown.push] = app
                 /\ shown' = [shown EXCEPT !.file = IF c.moved THEN file ELSE Missing]
           /\ IF Decodes(file)
              THEN taken' = page /\ loopAt' = "arm" /\ UNCHANGED answers
              ELSE taken' = NoPage /\ loopAt' = "drain" /\ answers' = Answered(answers, taken.push)
BY DEF MoveStaged

LEMMA CommitKinds ==
  ASSUME NEW file, NEW c \in Commits(file)
  PROVE  /\ c.moved \in BOOLEAN /\ c.listed \in BOOLEAN /\ c.lost \in BOOLEAN
         /\ c.listed => c.moved
         /\ file = Missing => ~c.moved /\ ~c.listed /\ ~c.lost
         /\ file # Missing /\ "card" \notin trouble => c.moved /\ c.listed
<1> DEFINE r(m, l, g) == [moved |-> m, listed |-> l, lost |-> g]
<1>1. CASE file = Missing
  <2>1. c = r(FALSE, FALSE, FALSE) BY <1>1 DEF Commits
  <2> QED BY <1>1, <2>1
<1>2. CASE file # Missing
  <2>1. CASE c = r(TRUE, TRUE, FALSE) BY <1>2, <2>1
  <2>2. CASE c # r(TRUE, TRUE, FALSE)
    <3>1. /\ "card" \in trouble
          /\ \/ c \in [moved : {TRUE}, listed : {FALSE}, lost : BOOLEAN]
             \/ c \in [moved : {FALSE}, listed : {FALSE}, lost : {FALSE}]
      BY <1>2, <2>2 DEF Commits
    <3> QED BY <1>2, <3>1
  <2> QED BY <2>1, <2>2
<1> QED BY <1>1, <1>2

LEMMA MoveStagedType == ASSUME TInv, MoveStaged PROVE TInv'
<1> DEFINE app == owner[taken.push]
           file == incoming[app]
           page(m) == [push |-> taken.push, file |-> file, moved |-> m]
<1>1. begun' = begun /\ loopAt = "move" BY DEF MoveStaged, appVars
<1>2. taken.push \in 1 .. begun /\ taken.push \in Pushes /\ taken.push \in 0 .. MaxPush
  BY <1>1, Bounds DEF TInv, LoopOK, Pushes, AppOK, Pages
<1>3. app \in Apps /\ file \in Files BY <1>2 DEF TInv, AppOK, WriterOK
<1>4. (drawing' => drawing) /\ drawing' \in BOOLEAN BY StillDrawing DEF MoveStaged
<1>5. PICK c \in Commits(file) :
       /\ incoming' = IF c.moved THEN [incoming EXCEPT ![app] = Missing] ELSE incoming
       /\ open' = IF c.moved /\ open = "staging" /\ staging = app THEN "adrift" ELSE open
       /\ gallery' = IF c.listed THEN [gallery EXCEPT ![app] = page(c.moved)]
                     ELSE IF c.lost THEN [gallery EXCEPT ![app] = NoPage] ELSE gallery
       /\ \/ UNCHANGED shown
          \/ /\ "card" \in trouble /\ shown.moved /\ owner[shown.push] = app
             /\ shown' = [shown EXCEPT !.file = IF c.moved THEN file ELSE Missing]
       /\ IF Decodes(file)
          THEN taken' = page(c.moved) /\ loopAt' = "arm" /\ UNCHANGED answers
          ELSE taken' = NoPage /\ loopAt' = "drain" /\ answers' = Answered(answers, taken.push)
  BY MoveStagedOutcome
<1>6. c.moved \in BOOLEAN /\ c.listed \in BOOLEAN /\ c.lost \in BOOLEAN BY CommitKinds
<1>7. page(c.moved) \in Pages /\ page(c.moved).push = taken.push
  BY <1>2, <1>3, <1>6 DEF Pages
<1> HIDE DEF page
<1>8. WriterOK'
  <2>1. staging' = staging BY DEF MoveStaged
  <2>2. CASE c.moved BY <1>3, <1>5, <2>1, <2>2 DEF TInv, WriterOK, Files
  <2>3. CASE ~c.moved BY <1>5, <2>1, <2>3 DEF TInv, WriterOK
  <2> QED BY <2>2, <2>3
<1>9. AnswerOK'
  BY <1>2, <1>5, AnsweredType DEF TInv, AnswerOK, MoveStaged
<1>10. shown' \in Pages /\ shown'.push = shown.push /\ (shown.push = 0 => shown' = shown)
  <2>1. shown \in Pages /\ (shown.push = 0 => shown = NoPage) BY DEF TInv, LoopOK
  <2>2. shown.push = 0 => ~shown.moved BY <2>1 DEF NoPage
  <2>3. CASE UNCHANGED shown BY <2>1, <2>3
  <2>4. CASE shown.moved /\ shown' = [shown EXCEPT !.file = IF c.moved THEN file ELSE Missing]
    <3>1. (IF c.moved THEN file ELSE Missing) \in Files BY <1>3 DEF Files
    <3> QED BY <2>1, <2>2, <2>4, <3>1 DEF Pages
  <2> QED BY <1>5, <2>3, <2>4
<1>11. LoopOK'
  <2>1. UNCHANGED <<staged, armed, panel>> BY DEF MoveStaged
  <2>2. shown'.push <= begun' /\ (shown'.push = 0 => shown' = NoPage)
    BY <1>1, <1>10 DEF TInv, LoopOK
  <2>3. CASE Decodes(file)
    <3>1. taken' \in Pages /\ taken'.push = taken.push /\ loopAt' = "arm"
      BY <1>5, <1>7, <2>3
    <3> QED BY <1>1, <1>2, <1>4, <1>10, <2>1, <2>2, <3>1, Bounds DEF TInv, LoopOK
  <2>4. CASE ~Decodes(file)
    <3>1. taken' = NoPage /\ loopAt' = "drain" BY <1>5, <2>4
    <3> QED BY <1>1, <1>4, <1>10, <2>1, <2>2, <3>1, NoPageType, Bounds DEF TInv, LoopOK, AppOK
  <2> QED BY <2>3, <2>4
<1>12. ScreenOK'
  <2>1. UNCHANGED <<handed, holder, screen, due, tagsOnly>> BY DEF MoveStaged
  <2>2. handed' \in BOOLEAN /\ due' \in BOOLEAN /\ tagsOnly' \in BOOLEAN
    BY <2>1 DEF TInv, ScreenOK
  <2>3. gallery' \in [Apps -> Pages]
    BY <1>3, <1>5, <1>7, NoPageType DEF TInv, ScreenOK
  <2>4. ASSUME NEW a \in Apps
        PROVE  gallery'[a].push <= begun' /\ (gallery'[a].push = 0 => gallery'[a] = NoPage)
    <3>1. gallery'[a] \in {gallery[a], NoPage, page(c.moved)}
      BY <1>3, <1>5 DEF TInv, ScreenOK
    <3> QED BY <1>1, <1>2, <1>7, <3>1, NoPageType, Bounds DEF TInv, ScreenOK, AppOK
  <2> QED BY <2>1, <2>2, <2>3, <2>4 DEF TInv, ScreenOK
<1> QED BY <1>1, <1>8, <1>9, <1>11, <1>12, Kept DEF TInv, MoveStaged, appVars, hostVars

LEMMA RefreshedType ==
  ASSUME TInv, NEW page \in Pages, NEW p \in Refreshed(page)
  PROVE  /\ p = page \/ (holder \in Apps /\ p = gallery[holder])
         /\ p \in Pages
         /\ "card" \notin trouble /\ holder \in Apps /\ gallery[holder] # NoPage => p = gallery[holder]
BY AppsAssumption DEF Refreshed, TInv, ScreenOK

LEMMA ArmPageType == ASSUME TInv, ArmPage PROVE TInv'
<1>1. begun' = begun /\ UNCHANGED gallery /\ UNCHANGED <<staged, panel, handed, holder, tagsOnly>>
  BY DEF ArmPage, appVars
<1>2. ~drawing' /\ drawing' \in BOOLEAN BY StillNotDrawing DEF ArmPage
<1>3. taken \in Pages /\ taken.push \in 1 .. begun
  BY Bounds DEF ArmPage, TInv, LoopOK, AppOK, Pages
<1>4. /\ shown' \in Pages /\ shown'.push <= begun
      /\ shown'.push = 0 => shown' = NoPage
  <2>1. shown' \in Refreshed(taken) BY DEF ArmPage
  <2> QED BY <1>3, <2>1, RefreshedType DEF TInv, ScreenOK
<1>5. LoopOK'
  BY <1>1, <1>2, <1>3, <1>4, NoPageType, Bounds DEF TInv, LoopOK, ArmPage, AppOK
<1>6. AnswerOK'
  <2>1. armed \in 0 .. MaxPush BY DEF TInv, LoopOK
  <2> QED BY <2>1, AnsweredType DEF TInv, AnswerOK, ArmPage, Superseded
<1>7. ScreenOK'
  <2>1. due' \in BOOLEAN BY Zenon DEF ArmPage
  <2>2. handed' \in BOOLEAN /\ tagsOnly' \in BOOLEAN BY <1>1 DEF TInv, ScreenOK
  <2> QED BY <1>1, <2>1, <2>2, ScreenKept DEF TInv, ScreenOK, ArmPage
<1> QED BY <1>1, <1>5, <1>6, <1>7, Kept DEF TInv, ArmPage, appVars, hostVars

LEMMA ChangeTagType == ASSUME TInv, ChangeTag PROVE TInv'
<1>1. begun' = begun /\ UNCHANGED gallery /\ UNCHANGED <<handed, holder, screen>>
  BY DEF ChangeTag, appVars
<1>2. due' \in BOOLEAN /\ tagsOnly' \in BOOLEAN BY Zenon DEF ChangeTag
<1>3. handed' \in BOOLEAN BY <1>1 DEF TInv, ScreenOK
<1>4. ScreenOK' BY <1>1, <1>2, <1>3, ScreenKept DEF TInv, ScreenOK
<1> QED BY <1>1, <1>4, Kept DEF TInv, ChangeTag, appVars, hostVars, loopVars

LEMMA PromptType == ASSUME TInv, Prompt PROVE TInv'
<1>1. begun' = begun /\ UNCHANGED gallery /\ UNCHANGED <<handed, holder, tagsOnly>>
  BY DEF Prompt, appVars
<1>2. due' \in BOOLEAN BY Zenon DEF Prompt
<1>3. handed' \in BOOLEAN /\ tagsOnly' \in BOOLEAN BY <1>1 DEF TInv, ScreenOK
<1>4. screen' \in {"other", "text"} BY DEF Prompt
<1>5. ScreenOK' BY <1>1, <1>2, <1>3, <1>4, ScreenKept DEF TInv, ScreenOK
<1> QED BY <1>1, <1>5, Kept DEF TInv, Prompt, appVars, hostVars, loopVars

LEMMA PageFileType == ASSUME TInv, shown.push # 0 PROVE PageFile \in Files
<1>1. shown.push \in 1 .. begun BY Bounds DEF TInv, LoopOK, AppOK, Pages
<1>2. owner[shown.push] \in Apps BY <1>1 DEF TInv, AppOK
<1>3. incoming[owner[shown.push]] \in Files /\ shown.file \in Files
  BY <1>2 DEF TInv, WriterOK, LoopOK, Pages
<1> QED BY <1>3 DEF PageFile

(* A render that begins takes what was asked of it.                        *)
LEMMA RendersType ==
  ASSUME TInv, Renders, begun' = begun, UNCHANGED gallery, UNCHANGED <<handed, holder, screen>>
  PROVE  ScreenOK'
<1>1. due' \in BOOLEAN /\ tagsOnly' \in BOOLEAN BY Zenon DEF Renders
<1>2. handed' \in BOOLEAN BY DEF TInv, ScreenOK
<1> QED BY <1>1, <1>2, ScreenKept DEF TInv, ScreenOK

LEMMA DrawBaseType == ASSUME TInv, DrawBase PROVE TInv'
<1>1. begun' = begun /\ UNCHANGED <<staged, loopAt, taken>> BY DEF DrawBase, appVars
<1>2. shown.push # 0 BY DEF DrawBase, TInv, LoopOK
<1>3. ScreenOK' BY <1>1, RendersType DEF DrawBase
<1>4. CASE Decodes(PageFile)
  <2>1. /\ drawing' = TRUE /\ panel' = [push |-> shown.push, base |-> PageFile, grey |-> Missing]
        /\ UNCHANGED <<shown, armed, answers>>
    BY <1>4 DEF DrawBase
  <2>2. panel' \in [push : 0 .. MaxPush, base : Files, grey : Files]
    BY <1>2, <2>1, PageFileType DEF TInv, LoopOK, Files, Pages
  <2>3. drawing' \in BOOLEAN BY <2>1, Zenon
  <2>4. LoopOK' BY <1>1, <1>2, <2>1, <2>2, <2>3 DEF TInv, LoopOK
  <2> QED BY <1>1, <1>3, <2>1, <2>4, Kept DEF TInv, DrawBase, appVars, hostVars
<1>5. CASE ~Decodes(PageFile)
  <2>1. /\ shown' = NoPage /\ armed' = 0 /\ panel' = NoPanel
        /\ answers' = Answered(answers, armed) /\ drawing' = drawing
    BY <1>5 DEF DrawBase
  <2>2. ~drawing' /\ drawing' \in BOOLEAN BY <2>1, StillNotDrawing DEF DrawBase, Renders
  <2>3. panel' \in [push : 0 .. MaxPush, base : Files, grey : Files]
    BY <2>1, Bounds DEF NoPanel, Files
  <2>4. LoopOK' BY <1>1, <2>1, <2>2, <2>3, NoPageType, Bounds DEF TInv, LoopOK, AppOK
  <2>5. AnswerOK'
    <3>1. armed \in 0 .. MaxPush BY DEF TInv, LoopOK
    <3> QED BY <2>1, <3>1, AnsweredType DEF TInv, AnswerOK, DrawBase
  <2> QED BY <1>1, <1>3, <2>4, <2>5, Kept DEF TInv, DrawBase, appVars, hostVars
<1> QED BY <1>4, <1>5

LEMMA DrawOtherType == ASSUME TInv, DrawOther PROVE TInv'
<1>1. begun' = begun /\ UNCHANGED <<staged, loopAt, taken, shown>> BY DEF DrawOther, appVars
<1>2. ~drawing' /\ drawing' \in BOOLEAN BY StillNotDrawing DEF DrawOther, Renders
<1>3. ScreenOK' BY <1>1, RendersType DEF DrawOther
<1>4. panel' \in {panel, NoPanel} /\ armed' \in {0, armed} BY DEF DrawOther, Disarm
<1>5. panel' \in [push : 0 .. MaxPush, base : Files, grey : Files]
  BY <1>4, Bounds DEF NoPanel, Files, TInv, LoopOK
<1>6. LoopOK' BY <1>1, <1>2, <1>4, <1>5, Bounds DEF TInv, LoopOK, AppOK
<1>7. AnswerOK'
  <2>1. armed \in 0 .. MaxPush BY DEF TInv, LoopOK
  <2>2. answers' \in {answers, Answered(answers, armed)} BY DEF DrawOther
  <2> QED BY <2>1, <2>2, AnsweredType DEF TInv, AnswerOK, DrawOther
<1> QED BY <1>1, <1>3, <1>6, <1>7, Kept DEF TInv, DrawOther, appVars, hostVars

LEMMA DrawGreyType == ASSUME TInv, DrawGrey PROVE TInv'
<1>1. begun' = begun /\ UNCHANGED <<staged, loopAt, taken, shown>> BY DEF DrawGrey, appVars
<1>2. shown.push # 0 BY DEF DrawGrey, TInv, LoopOK
<1>3. panel' \in [push : 0 .. MaxPush, base : Files, grey : Files]
  BY <1>2, PageFileType DEF TInv, LoopOK, DrawGrey
<1>4. ~drawing' /\ drawing' \in BOOLEAN BY Zenon DEF DrawGrey
<1>5. armed' = 0 BY DEF DrawGrey, Disarm
<1>6. LoopOK' BY <1>1, <1>3, <1>4, <1>5, Bounds DEF TInv, LoopOK, AppOK
<1>7. AnswerOK'
  <2>1. armed \in 0 .. MaxPush BY DEF TInv, LoopOK
  <2> QED BY <2>1, AnsweredType DEF TInv, AnswerOK, DrawGrey
<1> QED BY <1>1, <1>6, <1>7, Kept DEF TInv, DrawGrey, appVars, hostVars

LEMMA TNext == ASSUME TInv, [Next]_vars PROVE TInv'
<1>1. CASE Phone
  BY <1>1, StartPushType, LoseChunkType, ChunkType, EndPushType, PushAssetType, HandoverType,
     ReleaseType, LinkLossType, ReconnectType DEF Phone
<1>2. CASE Writer
  BY <1>2, WriterOpenType, WriterChunkType, WriterEndType, WriterAbortType DEF Writer
<1>3. CASE MainLoop
  BY <1>3, NoticeLinkType, DrainType, ApplyForegroundType, MoveStagedType, ArmPageType DEF MainLoop
<1>4. CASE ChangeTag \/ Prompt BY <1>4, ChangeTagType, PromptType
<1>5. CASE Render BY <1>5, DrawBaseType, DrawGreyType, DrawOtherType DEF Render
<1>6. CASE UNCHANGED vars
  BY <1>6, Kept DEF TInv, vars, appVars, hostVars, loopVars
<1> QED BY <1>1, <1>2, <1>3, <1>4, <1>5, <1>6 DEF Next, Done

LEMMA TroubleKept == ASSUME [Next]_vars PROVE trouble' = trouble
BY DEF Next, Phone, StartPush, LoseChunk, Chunk, EndPush, PushAsset, Handover, Release, LinkLoss,
       Reconnect, Writer, WriterOpen, WriterChunk, WriterEnd, WriterAbort, MainLoop, NoticeLink,
       Drain, ApplyForeground, MoveStaged, ArmPage, ChangeTag, Prompt, Render, DrawBase, DrawOther,
       DrawGrey, Done, appVars, vars

(* Every variable keeps its type, and the queue its bound.                 *)
THEOREM TypeCorrect == Spec => []TypeOK
<1>1. Init => TInv BY TInit
<1>2. TInv /\ [Next]_vars => TInv' BY TNext
<1>3. TInv => TypeOK BY TypesFollow
<1> QED BY <1>1, <1>2, <1>3, PTL DEF Spec

----------------------------------------------------------------------------
(* Text: what was collected is numbered from 1 on, up to the number of     *)
(* CHUNKs accepted.                                                        *)

NumberedFromOne(chunks) == chunks = [k \in 1 .. Len(chunks) |-> k]

BInv ==
  /\ TInv
  /\ NumberedFromOne(buffer)
  /\ what # "image" => Len(buffer) = seq
  /\ \A t \in texts : NumberedFromOne(t.chunks)

LEMMA NothingNumbered == NumberedFromOne(<< >>) /\ Len(<< >>) = 0
BY DEF NumberedFromOne

LEMMA ResetNumbered ==
  ASSUME ResetHost PROVE NumberedFromOne(buffer)' /\ Len(buffer') = seq'
BY NothingNumbered DEF ResetHost, NumberedFromOne

LEMMA NextNumbered ==
  ASSUME NEW s \in Seq(1 .. Chunks), NumberedFromOne(s), NEW k \in 1 .. Chunks, k = Len(s) + 1
  PROVE  NumberedFromOne(Append(s, k))
<1> DEFINE r == Append(s, k)
<1>1. r \in Seq(1 .. Chunks) /\ Len(r) = k OBVIOUS
<1>2. ASSUME NEW i \in 1 .. k PROVE r[i] = i BY DEF NumberedFromOne
<1>3. r = [i \in 1 .. k |-> i] BY <1>1, <1>2
<1> QED BY <1>1, <1>3 DEF NumberedFromOne

LEMMA NumberedKept ==
  ASSUME BInv, UNCHANGED <<what, seq, buffer, texts>>
  PROVE  /\ NumberedFromOne(buffer)' /\ (what' # "image" => Len(buffer') = seq')
         /\ \A t \in texts' : NumberedFromOne(t.chunks)
BY DEF BInv, NumberedFromOne

LEMMA BInit == Init => BInv
BY TInit, NothingNumbered DEF Init, BInv, NumberedFromOne

LEMMA BNext == ASSUME BInv, [Next]_vars PROVE BInv'
<1>0. TInv' BY TNext DEF BInv
<1>1. CASE StartPush
  BY <1>0, <1>1, NothingNumbered DEF StartPush, BInv, NumberedFromOne
<1>2. CASE Chunk
  <2>0. UNCHANGED <<active, what, texts>> BY <1>2 DEF Chunk, hostVars
  <2>1. CASE UNCHANGED <<seq, buffer>> BY <1>0, <2>0, <2>1, NumberedKept DEF BInv
  <2>2. CASE ~UNCHANGED <<seq, buffer>>
    <3>1. ~(active # wire.push \/ gap \/ failed) /\ ~OutOfSequence(wire.next)
      BY <1>2, <2>2 DEF Chunk, hostVars
    <3>2. wire.next = seq + 1 /\ wire.next \in 1 .. Chunks /\ buffer \in Seq(1 .. Chunks)
      BY <1>2, <3>1, Bounds DEF Chunk, OutOfSequence, BInv, TInv, AppOK, HostOK, End
    <3>3. CASE what = "text"
      <4>1. seq' = seq + 1 /\ buffer' = Append(buffer, wire.next)
        BY <1>2, <3>1, <3>3 DEF Chunk
      <4>2. wire.next = Len(buffer) + 1 BY <3>2, <3>3 DEF BInv
      <4>3. NumberedFromOne(buffer)' BY <3>2, <4>1, <4>2, NextNumbered DEF BInv, NumberedFromOne
      <4>4. Len(buffer') = seq' BY <3>2, <4>1, <4>2
      <4>5. \A t \in texts' : NumberedFromOne(t.chunks) BY <2>0 DEF BInv
      <4>6. (\A t \in texts : NumberedFromOne(t.chunks))' BY <4>5 DEF NumberedFromOne
      <4> QED BY <1>0, <4>3, <4>4, <4>6, Zenon DEF BInv
    <3>4. CASE what # "text"
      <4>1. what = "image"
        BY <1>2, <3>1, <3>4, KindAssumption DEF Chunk, BInv, TInv, HostOK
      <4>2. buffer' = buffer BY <1>2, <3>1, <3>4 DEF Chunk
      <4> QED BY <1>0, <2>0, <4>1, <4>2 DEF BInv, NumberedFromOne
    <3> QED BY <3>3, <3>4
  <2> QED BY <2>1, <2>2
<1>3. CASE EndPush
  <2>1. CASE active # wire.push
    BY <1>0, <1>3, <2>1, NumberedKept DEF EndPush, hostVars, BInv
  <2>2. CASE active = wire.push
    <3>1. ResetHost /\ (\A t \in texts' : t \in texts \/ t.chunks = buffer)
      BY <1>3, <2>2 DEF EndPush, EndText, EndImage
    <3> QED BY <1>0, <3>1, ResetNumbered DEF BInv, NumberedFromOne
  <2> QED BY <2>1, <2>2
<1>4. CASE PushAsset \/ Handover \/ LinkLoss
  BY <1>0, <1>4, ResetNumbered DEF PushAsset, Handover, LinkLoss, BInv
<1>5. CASE \/ LoseChunk \/ Release \/ Reconnect \/ Writer \/ MainLoop \/ ChangeTag \/ Prompt
           \/ Render \/ UNCHANGED vars
  <2>1. UNCHANGED hostVars /\ UNCHANGED texts
    BY <1>5 DEF LoseChunk, Release, Reconnect, Writer, WriterOpen, WriterChunk, WriterEnd,
       WriterAbort, MainLoop, NoticeLink, Drain, ApplyForeground, MoveStaged, ArmPage, ChangeTag,
       Prompt, Render, DrawBase, DrawOther, DrawGrey, vars
  <2> QED BY <1>0, <2>1, NumberedKept DEF BInv, hostVars
<1> QED BY <1>1, <1>2, <1>3, <1>4, <1>5 DEF Next, Phone, Done

(* A text field that reaches the page is its first CHUNKs, in order: those *)
(* after a lost one are refused by their sequence number, and nothing of   *)
(* an earlier push is left in the buffer.                                  *)
THEOREM TextsAreRuns == Spec => []TextHasNoHole
<1>1. Init => BInv BY BInit
<1>2. BInv /\ [Next]_vars => BInv' BY BNext
<1>3. BInv => TextHasNoHole BY DEF BInv, NumberedFromOne, TextHasNoHole
<1> QED BY <1>1, <1>2, <1>3, PTL DEF Spec

----------------------------------------------------------------------------
(* Answers: a push on its way is in one place only - the reassembly, the   *)
(* queue, the staged file, the main loop's hands or the page's expectation *)
(* - and has had no answer yet.  Whoever answers it takes it from there.   *)

EndsOf(q) == {q[i].push : i \in {j \in 1 .. Len(q) : q[j].type = "end"}}

Single(q) == \A i, j \in 1 .. Len(q) :
  q[i].type = "end" /\ q[j].type = "end" /\ q[i].push = q[j].push => i = j

OnItsWay == ({active, staged, taken.push, armed} \ {0}) \cup EndsOf(queue)

NotYetAnswered == \A p \in Pushes : p \in OnItsWay \/ p > begun => answers[p] = << >>

OnePlace ==
  /\ Single(queue)
  /\ active # 0 => active \notin EndsOf(queue) \cup {staged, taken.push, armed}
  /\ staged # 0 => staged \notin EndsOf(queue) \cup {taken.push, armed}
  /\ taken.push # 0 => taken.push \notin EndsOf(queue) \cup {armed}
  /\ armed # 0 => armed \notin EndsOf(queue)

AInv == TInv /\ AnsweredOnce /\ NotYetAnswered /\ OnePlace

LEMMA AppendEnds ==
  ASSUME NEW q \in Seq(Messages), NEW m \in Messages
  PROVE  /\ EndsOf(Append(q, m)) = EndsOf(q) \cup (IF m.type = "end" THEN {m.push} ELSE {})
         /\ Single(q) /\ (m.type = "end" => m.push \notin EndsOf(q)) => Single(Append(q, m))
<1> DEFINE r == Append(q, m)
<1>1. /\ Len(r) = Len(q) + 1 /\ r[Len(q) + 1] = m /\ Len(q) \in Nat
      /\ \A i \in 1 .. Len(q) : r[i] = q[i]
  OBVIOUS
<1>2. 1 .. Len(r) = (1 .. Len(q)) \cup {Len(q) + 1} BY <1>1
<1> HIDE DEF r
<1>3. EndsOf(r) = EndsOf(q) \cup (IF m.type = "end" THEN {m.push} ELSE {})
  BY <1>1, <1>2 DEF EndsOf
<1>4. Single(q) /\ (m.type = "end" => m.push \notin EndsOf(q)) => Single(r)
  BY <1>1, <1>2 DEF Single, EndsOf
<1> QED BY <1>3, <1>4 DEF r

LEMMA AbortEnds ==
  ASSUME TInv, NEW q \in Seq(Messages), Len(q) <= QueueLen, NEW s \in Abort(q)
  PROVE  EndsOf(s.queue) = EndsOf(q) /\ (Single(q) => Single(s.queue))
<1>1. CASE s.queue = q BY <1>1
<1>2. CASE s.queue # q
  <2>1. what = "image" /\ s.queue = Append(q, Msg("abort", active, 0))
    BY <1>2, AbortQueues
  <2>2. active \in Pushes BY <2>1, Bounds DEF TInv, HostOK, Pushes
  <2> DEFINE m == Msg("abort", active, 0)
  <2>3. m \in Messages /\ m.type = "abort" BY <2>2, Bounds, IsMessage
  <2> QED BY <2>1, <2>3, AppendEnds
<1> QED BY <1>1, <1>2

LEMMA AbortedEnds ==
  ASSUME TInv, \E a \in Abort(queue) : queue' = a.queue
  PROVE  EndsOf(queue)' = EndsOf(queue) /\ (Single(queue) => Single(queue)')
<1>1. PICK a \in Abort(queue) : queue' = a.queue OBVIOUS
<1>2. EndsOf(a.queue) = EndsOf(queue) /\ (Single(queue) => Single(a.queue))
  BY AbortEnds DEF TInv, QueueOK
<1>3. EndsOf(queue)' = EndsOf(a.queue) BY <1>1 DEF EndsOf
<1>4. Single(a.queue) => Single(queue)' BY <1>1 DEF Single
<1> QED BY <1>2, <1>3, <1>4

LEMMA TailEnds ==
  ASSUME NEW q \in Seq(Messages), q # << >>
  PROVE  /\ EndsOf(Tail(q)) \subseteq EndsOf(q)
         /\ Single(q) => Single(Tail(q))
         /\ Head(q).type = "end" => Head(q).push \in EndsOf(q)
         /\ Single(q) /\ Head(q).type = "end" => Head(q).push \notin EndsOf(Tail(q))
<1> DEFINE r == Tail(q)
<1>1. /\ Len(q) \in Nat \ {0} /\ Len(r) = Len(q) - 1 /\ Head(q) = q[1]
      /\ \A i \in 1 .. Len(r) : r[i] = q[i + 1] /\ i + 1 \in 1 .. Len(q) /\ i + 1 # 1
  OBVIOUS
<1>2. 1 \in 1 .. Len(q) BY <1>1
<1> HIDE DEF r
<1>3. EndsOf(r) \subseteq EndsOf(q) BY <1>1 DEF EndsOf
<1>4. Single(q) => Single(r)
  <2> SUFFICES ASSUME Single(q), NEW i \in 1 .. Len(r), NEW j \in 1 .. Len(r),
                      r[i].type = "end", r[j].type = "end", r[i].push = r[j].push
               PROVE  i = j
    BY DEF Single
  <2>1. i + 1 = j + 1 BY <1>1 DEF Single
  <2> QED BY <2>1
<1>5. Head(q).type = "end" => Head(q).push \in EndsOf(q) BY <1>1, <1>2 DEF EndsOf
<1>6. Single(q) /\ Head(q).type = "end" => Head(q).push \notin EndsOf(r)
  BY <1>1, <1>2 DEF EndsOf, Single
<1> QED BY <1>3, <1>4, <1>5, <1>6 DEF r

LEMMA ReceivedEnds ==
  ASSUME TInv, NEW type, Receive(type)
  PROVE  /\ EndsOf(queue)' \subseteq EndsOf(queue)
         /\ Single(queue) => Single(queue)'
         /\ type = "end" => Head(queue).push \in EndsOf(queue)
         /\ Single(queue) /\ type = "end" => Head(queue).push \notin EndsOf(queue)'
BY TailEnds DEF TInv, QueueOK, Receive, EndsOf, Single

(* What is in the queue is a push, and was begun.                          *)
LEMMA EndsBegun == ASSUME TInv PROVE EndsOf(queue) \subseteq 1 .. begun
<1> DEFINE q == queue
<1> SUFFICES ASSUME NEW i \in 1 .. Len(q) PROVE q[i].push \in 1 .. begun
  BY DEF EndsOf
<1>1. q[i] \in Messages BY DEF TInv, QueueOK
<1>2. q[i].push \in Pushes BY <1>1 DEF Messages
<1>3. q[i].push <= begun BY DEF TInv, QueueOK, Proper
<1> QED BY <1>2, <1>3, Bounds DEF Pushes, TInv, AppOK

LEMMA OneAnswer ==
  ASSUME TInv, NEW p \in 0 .. MaxPush, p # 0 => answers[p] = << >>
  PROVE  LET n == Answered(answers, p)
         IN  /\ \A q \in Pushes : q # p => n[q] = answers[q]
             /\ p # 0 => Len(n[p]) <= 1
<1> DEFINE n == Answered(answers, p)
<1>1. CASE p = 0 \/ foreground = NoApp
  <2>1. n = answers BY <1>1 DEF Answered
  <2> QED BY <2>1
<1>2. CASE p # 0 /\ foreground # NoApp
  <2>1. n = [answers EXCEPT ![p] = Append(answers[p], foreground)] /\ p \in Pushes
    BY <1>2, Bounds DEF Answered, Pushes
  <2>2. \A q \in Pushes : q # p => n[q] = answers[q] BY <2>1 DEF TInv, AnswerOK
  <2>3. n[p] = Append(<< >>, foreground) BY <1>2, <2>1 DEF TInv, AnswerOK
  <2>4. Len(n[p]) = 1 BY <2>3
  <2> QED BY <2>2, <2>4
<1> QED BY <1>1, <1>2

(* A push p, if any, is taken from its place and answered; others may be   *)
(* given up, none comes in.                                                *)
LEMMA Settled ==
  ASSUME AInv, TInv', NEW p \in 0 .. MaxPush,
         p # 0 => p \in OnItsWay /\ p \notin OnItsWay',
         answers' \in {answers, Answered(answers, p)},
         begun' = begun,
         EndsOf(queue)' \subseteq EndsOf(queue), Single(queue)',
         active' \in {0, active}, staged' \in {0, staged}, taken'.push \in {0, taken.push},
         armed' \in {0, armed}
  PROVE  AInv'
<1>1. OnItsWay' \subseteq OnItsWay BY DEF OnItsWay
<1>2. p # 0 => p \in Pushes /\ answers[p] = << >>
  BY Bounds DEF AInv, NotYetAnswered, Pushes
<1>3. \A q \in Pushes : q # p => answers'[q] = answers[q]
  BY <1>2, OneAnswer DEF AInv
<1>4. p # 0 => Len(answers'[p]) <= 1
  BY <1>2, OneAnswer DEF AInv
<1>5. AnsweredOnce'
  <2> SUFFICES ASSUME NEW q \in Pushes PROVE Len(answers'[q]) <= 1 BY DEF AnsweredOnce
  <2>1. q # 0 BY Bounds DEF Pushes
  <2>2. CASE q = p BY <1>4, <2>1, <2>2
  <2>3. CASE q # p BY <1>3, <2>3 DEF AInv, AnsweredOnce
  <2> QED BY <2>2, <2>3
<1>6. NotYetAnswered'
  <2>1. EndsOf(queue) \subseteq 1 .. begun BY EndsBegun DEF AInv
  <2>2. active <= begun /\ staged <= begun /\ taken.push <= begun /\ armed <= begun
    BY DEF AInv, TInv, HostOK, LoopOK
  <2>3. p # 0 => p <= begun /\ p \in Nat /\ begun \in Nat
    BY <2>1, <2>2, Bounds DEF OnItsWay, AInv, TInv, AppOK
  <2> SUFFICES ASSUME NEW q \in Pushes, q \in OnItsWay' \/ q > begun'
               PROVE  answers'[q] = << >>
    BY DEF NotYetAnswered
  <2>4. q # 0 BY Bounds DEF Pushes
  <2>5. q # p BY <2>3, <2>4
  <2>6. q \in OnItsWay \/ q > begun BY <1>1
  <2> QED BY <1>3, <2>5, <2>6 DEF AInv, NotYetAnswered
<1>7. OnePlace' BY DEF AInv, OnePlace
<1> QED BY <1>5, <1>6, <1>7 DEF AInv

LEMMA NothingSettled ==
  ASSUME AInv, TInv', UNCHANGED <<answers, begun>>,
         EndsOf(queue)' \subseteq EndsOf(queue), Single(queue)',
         active' \in {0, active}, staged' \in {0, staged}, taken'.push \in {0, taken.push},
         armed' \in {0, armed}
  PROVE  AInv'
BY Settled, Bounds

LEMMA KeptEnds ==
  ASSUME UNCHANGED queue
  PROVE  EndsOf(queue)' = EndsOf(queue) /\ Single(queue)' = Single(queue)
BY DEF EndsOf, Single

LEMMA StartPushAnswers == ASSUME AInv, StartPush PROVE AInv'
<1>0. TInv /\ TInv' BY StartPushType DEF AInv
<1>1. /\ begun \in Nat /\ begun + 1 \in Pushes /\ begun' = begun + 1 /\ active' = begun + 1
      /\ answers' = answers /\ staged' = staged /\ taken' = taken /\ armed' = armed
  BY <1>0, Bounds DEF TInv, AppOK, StartPush, Pushes, loopVars
<1>2. PICK a \in Abort(queue) :
         \/ \E o \in Send(a.queue, Msg("open", begun + 1, 0)) : queue' = o.queue
         \/ queue' = a.queue
  BY DEF StartPush
<1>3. /\ a.queue \in Seq(Messages) /\ Len(a.queue) <= QueueLen
      /\ EndsOf(a.queue) = EndsOf(queue) /\ Single(a.queue)
  BY <1>0, AbortQueues, AbortEnds DEF AInv, OnePlace, TInv, QueueOK
<1>4. Msg("open", begun + 1, 0) \in Messages /\ Msg("open", begun + 1, 0).type = "open"
  BY <1>1, Bounds, IsMessage
<1>5. queue' = a.queue \/ queue' = Append(a.queue, Msg("open", begun + 1, 0))
  BY <1>2, <1>3, <1>4, SendQueues
<1>6. EndsOf(queue') = EndsOf(queue) /\ Single(queue')
  BY <1>3, <1>4, <1>5, AppendEnds
<1>7. EndsOf(queue)' = EndsOf(queue) /\ Single(queue)' BY <1>6 DEF EndsOf, Single
<1>8. begun + 1 \notin EndsOf(queue) \cup {staged, taken.push, armed}
  BY <1>0, <1>1, EndsBegun, Bounds DEF TInv, LoopOK
<1>9. NotYetAnswered'
  BY <1>1, <1>7, Bounds DEF AInv, NotYetAnswered, OnItsWay, Pushes
<1>10. OnePlace' BY <1>1, <1>7, <1>8 DEF AInv, OnePlace
<1>11. AnsweredOnce' BY <1>1 DEF AInv, AnsweredOnce
<1> QED BY <1>0, <1>9, <1>10, <1>11 DEF AInv

LEMMA ChunkEnds ==
  ASSUME AInv, Chunk PROVE EndsOf(queue)' = EndsOf(queue) /\ Single(queue)'
<1>0. TInv BY DEF AInv
<1>1. CASE queue' = queue BY <1>1, KeptEnds DEF AInv, OnePlace
<1>2. CASE \E a \in Abort(queue) : queue' = a.queue
  BY <1>0, <1>2, AbortedEnds DEF AInv, OnePlace
<1>3. CASE ~(active # wire.push \/ gap \/ failed) /\ ~OutOfSequence(wire.next) /\ what # "text"
  <2> DEFINE m == Msg("chunk", active, wire.next)
  <2>1. PICK s \in Send(queue, m) :
           \E a \in (IF s.sent THEN {s} ELSE Abort(s.queue)) : queue' = a.queue
    BY <1>3 DEF Chunk
  <2>2. active \in Pushes /\ wire.next \in 0 .. Chunks
    BY <1>0, <1>3, Bounds DEF Chunk, TInv, HostOK, AppOK, Pushes, End
  <2>3. m \in Messages /\ m.type = "chunk" BY <2>2, IsMessage
  <2>4. queue \in Seq(Messages) /\ Len(queue) <= QueueLen BY <1>0 DEF TInv, QueueOK
  <2>5. /\ s.queue \in Seq(Messages) /\ Len(s.queue) <= QueueLen
        /\ (s.queue = queue \/ s.queue = Append(queue, m))
    BY <2>3, <2>4, SendQueues
  <2>6. EndsOf(s.queue) = EndsOf(queue) /\ Single(s.queue)
    <3>1. Single(queue) BY DEF AInv, OnePlace
    <3>2. m.type # "end" BY <2>3
    <3> HIDE DEF m
    <3>3. EndsOf(Append(queue, m)) = EndsOf(queue) /\ Single(Append(queue, m))
      BY <2>3, <2>4, <3>1, <3>2, AppendEnds
    <3> QED BY <2>5, <3>1, <3>3
  <2>7. EndsOf(queue') = EndsOf(queue) /\ Single(queue')
    BY <1>0, <2>1, <2>5, <2>6, AbortEnds
  <2> QED BY <2>7 DEF EndsOf, Single
<1> QED BY <1>1, <1>2, <1>3 DEF Chunk

LEMMA ChunkAnswers == ASSUME AInv, Chunk PROVE AInv'
<1>0. TInv /\ TInv' BY ChunkType DEF AInv
<1>1. UNCHANGED <<answers, begun, active, staged, taken, armed>>
  BY DEF Chunk, hostVars, loopVars
<1>2. EndsOf(queue)' = EndsOf(queue) /\ Single(queue)' BY ChunkEnds
<1> QED BY <1>0, <1>1, <1>2, NothingSettled

LEMMA EndPushAnswers == ASSUME AInv, EndPush PROVE AInv'
<1>0. TInv /\ TInv' BY EndPushType DEF AInv
<1>1. UNCHANGED <<begun, staged, taken, armed>> BY DEF EndPush, loopVars
<1>2. CASE active # wire.push
  BY <1>0, <1>1, <1>2, KeptEnds, NothingSettled DEF EndPush, hostVars, AInv, OnePlace
<1>3. CASE active = wire.push
  <2>1. ResetHost /\ active' = 0 /\ active # 0 BY <1>3 DEF EndPush, ResetHost
  <2>2. /\ active \in Pushes /\ active \in 0 .. MaxPush
        /\ active \notin EndsOf(queue) \cup {staged, taken.push, armed}
        /\ active \in OnItsWay
    BY <1>0, <2>1, Bounds DEF TInv, HostOK, Pushes, AInv, OnePlace, OnItsWay
  <2>3. CASE /\ answers' \in {answers, Answered(answers, active)}
             /\ queue' = queue \/ \E a \in Abort(queue) : queue' = a.queue
    <3>1. EndsOf(queue)' = EndsOf(queue) /\ Single(queue)'
      BY <1>0, <2>3, KeptEnds, AbortedEnds DEF AInv, OnePlace
    <3>2. active \notin OnItsWay' BY <1>1, <2>1, <2>2, <3>1 DEF OnItsWay
    <3> QED BY <1>0, <1>1, <2>1, <2>2, <2>3, <3>1, <3>2, Settled
  <2>4. CASE what # "text" /\ ~(gap \/ failed)
    <3> DEFINE m == Msg("end", active, 0)
    <3>1. PICK e \in Send(queue, m) :
             \E t \in (IF e.sent THEN {e} ELSE Abort(e.queue)) : \E a \in Abort(t.queue) :
               /\ answers' = IF e.sent THEN answers ELSE Answered(answers, active)
               /\ queue' = a.queue
      BY <1>3, <2>4 DEF EndPush, EndImage
    <3>2. m \in Messages /\ m.type = "end" /\ m.push = active
      BY <2>2, Bounds, IsMessage
    <3>3. queue \in Seq(Messages) /\ Len(queue) <= QueueLen BY <1>0 DEF TInv, QueueOK
    <3>4. /\ e.sent \in BOOLEAN /\ e.queue \in Seq(Messages) /\ Len(e.queue) <= QueueLen
          /\ (e.sent => e.queue = Append(queue, m)) /\ (~e.sent => e.queue = queue)
      BY <3>2, <3>3, SendQueues
    <3>5. CASE e.sent
      <4>1. PICK a \in Abort(e.queue) : answers' = answers /\ queue' = a.queue
        BY <3>1, <3>5
      <4>2. EndsOf(e.queue) = EndsOf(queue) \cup {active} /\ Single(e.queue)
        BY <2>2, <3>2, <3>3, <3>4, <3>5, AppendEnds DEF AInv, OnePlace
      <4>3. EndsOf(queue') = EndsOf(queue) \cup {active} /\ Single(queue')
        BY <1>0, <3>4, <4>1, <4>2, AbortEnds
      <4>4. EndsOf(queue)' = EndsOf(queue) \cup {active} /\ Single(queue)'
        BY <4>3 DEF EndsOf, Single
      <4>5. NotYetAnswered'
        BY <1>1, <2>1, <2>2, <4>1, <4>4 DEF AInv, NotYetAnswered, OnItsWay
      <4>6. OnePlace' BY <1>1, <2>1, <2>2, <4>4 DEF AInv, OnePlace
      <4>7. AnsweredOnce' BY <4>1 DEF AInv, AnsweredOnce
      <4> QED BY <1>0, <4>5, <4>6, <4>7 DEF AInv
    <3>6. CASE ~e.sent
      <4>1. PICK t \in Abort(queue) : \E a \in Abort(t.queue) :
               answers' = Answered(answers, active) /\ queue' = a.queue
        BY <3>1, <3>4, <3>6
      <4>2. /\ t.queue \in Seq(Messages) /\ Len(t.queue) <= QueueLen
            /\ EndsOf(t.queue) = EndsOf(queue) /\ Single(t.queue)
        BY <1>0, <3>3, AbortQueues, AbortEnds DEF AInv, OnePlace
      <4>3. EndsOf(queue') = EndsOf(queue) /\ Single(queue')
        BY <1>0, <4>1, <4>2, AbortEnds
      <4>4. EndsOf(queue)' = EndsOf(queue) /\ Single(queue)'
        BY <4>3 DEF EndsOf, Single
      <4>5. active \notin OnItsWay' BY <1>1, <2>1, <2>2, <4>4 DEF OnItsWay
      <4> QED BY <1>0, <1>1, <2>1, <2>2, <4>1, <4>4, <4>5, Settled
    <3> QED BY <3>4, <3>5, <3>6
  <2> QED BY <1>3, <2>3, <2>4 DEF EndPush, EndText, EndImage
<1> QED BY <1>2, <1>3

(* The reassembly is given up. *)
LEMMA ResetAnswers ==
  ASSUME AInv, PushAsset \/ Handover \/ LinkLoss PROVE AInv'
<1>0. TInv /\ TInv' BY PushAssetType, HandoverType, LinkLossType DEF AInv
<1>1. /\ UNCHANGED <<answers, begun, staged, taken, armed>> /\ active' = 0
      /\ \E a \in Abort(queue) : queue' = a.queue
  BY DEF PushAsset, Handover, LinkLoss, ResetHost, loopVars, appVars
<1>2. EndsOf(queue)' = EndsOf(queue) /\ Single(queue)'
  BY <1>0, <1>1, AbortedEnds DEF AInv, OnePlace
<1> QED BY <1>0, <1>1, <1>2, NothingSettled

LEMMA WriterAnswers == ASSUME AInv, Writer PROVE AInv'
<1>0. TInv /\ TInv'
  BY WriterOpenType, WriterChunkType, WriterEndType, WriterAbortType DEF AInv, Writer
<1>1. UNCHANGED <<begun, active, taken, armed>>
  BY DEF Writer, WriterOpen, WriterChunk, WriterEnd, WriterAbort, appVars, hostVars, loopVars
<1>2. CASE WriterOpen \/ WriterChunk \/ WriterAbort
  <2>1. UNCHANGED <<answers, staged>>
    BY <1>2 DEF WriterOpen, WriterChunk, WriterAbort, loopVars
  <2>2. EndsOf(queue)' \subseteq EndsOf(queue) /\ Single(queue)'
    BY <1>0, <1>2, ReceivedEnds DEF WriterOpen, WriterChunk, WriterAbort, AInv, OnePlace
  <2> QED BY <1>0, <1>1, <2>1, <2>2, NothingSettled
<1>3. CASE WriterEnd
  <2> DEFINE p == Head(queue).push
  <2>1. /\ EndsOf(queue)' \subseteq EndsOf(queue) /\ Single(queue)'
        /\ p \in EndsOf(queue) /\ p \notin EndsOf(queue)'
    BY <1>0, <1>3, ReceivedEnds DEF WriterEnd, AInv, OnePlace
  <2>2. p \in Pushes /\ p \in 0 .. MaxPush /\ p # 0
    BY <1>0, <1>3, HeadMessage, Bounds DEF WriterEnd, Receive, Pushes
  <2>3. p \in OnItsWay /\ p \notin {active, staged, taken.push, armed}
    BY <2>1, <2>2 DEF AInv, OnePlace, OnItsWay
  <2>4. CASE open = "no"
    <3>1. answers' = Answered(answers, p) /\ staged' = staged BY <1>3, <2>4 DEF WriterEnd
    <3>2. p \notin OnItsWay' BY <1>1, <2>1, <2>2, <2>3, <3>1 DEF OnItsWay
    <3> QED BY <1>0, <1>1, <2>1, <2>2, <2>3, <3>1, <3>2, Settled
  <2>5. CASE open # "no"
    <3>1. staged' = p /\ answers' = answers BY <1>3, <2>5 DEF WriterEnd
    <3>2. NotYetAnswered' BY <1>1, <2>1, <3>1 DEF AInv, NotYetAnswered, OnItsWay
    <3>3. OnePlace' BY <1>1, <2>1, <2>3, <3>1 DEF AInv, OnePlace
    <3>4. AnsweredOnce' BY <3>1 DEF AInv, AnsweredOnce
    <3> QED BY <1>0, <3>2, <3>3, <3>4 DEF AInv
  <2> QED BY <2>4, <2>5
<1> QED BY <1>2, <1>3 DEF Writer

LEMMA MainLoopAnswers == ASSUME AInv, MainLoop PROVE AInv'
<1>0. TInv /\ TInv'
  BY NoticeLinkType, DrainType, ApplyForegroundType, MoveStagedType, ArmPageType
  DEF AInv, MainLoop
<1>1. UNCHANGED <<begun, active, queue>>
  BY DEF MainLoop, NoticeLink, Drain, ApplyForeground, MoveStaged, ArmPage, appVars, hostVars
<1>2. EndsOf(queue)' = EndsOf(queue) /\ Single(queue)'
  BY <1>1, KeptEnds DEF AInv, OnePlace
<1>3. CASE NoticeLink
  <2>1. UNCHANGED <<answers, staged, taken>> /\ armed' \in {0, armed} BY <1>3 DEF NoticeLink
  <2> QED BY <1>0, <1>1, <1>2, <2>1, NothingSettled
<1>4. CASE Drain
  <2>1. /\ taken'.push = staged /\ staged' = 0 /\ taken.push = 0
        /\ UNCHANGED <<answers, armed>>
    BY <1>0, <1>4 DEF Drain, TInv, LoopOK, NoPage
  <2>2. NotYetAnswered' BY <1>1, <1>2, <2>1 DEF AInv, NotYetAnswered, OnItsWay
  <2>3. OnePlace' BY <1>1, <1>2, <2>1 DEF AInv, OnePlace
  <2>4. AnsweredOnce' BY <2>1 DEF AInv, AnsweredOnce
  <2> QED BY <1>0, <2>2, <2>3, <2>4 DEF AInv
<1>5. CASE MoveStaged
  <2>1. UNCHANGED <<staged, armed>> BY <1>5 DEF MoveStaged
  <2>2. CASE taken'.push = taken.push /\ answers' = answers
    BY <1>0, <1>1, <1>2, <2>1, <2>2, NothingSettled
  <2>3. CASE taken' = NoPage /\ answers' = Answered(answers, taken.push)
    <3>1. taken.push # 0 /\ taken.push \in 0 .. MaxPush
      BY <1>0, <1>5 DEF MoveStaged, TInv, LoopOK, Pages
    <3>2. taken'.push = 0 BY <2>3 DEF NoPage
    <3>3. taken.push \in OnItsWay BY <3>1 DEF OnItsWay
    <3>4. taken.push \notin OnItsWay'
      BY <1>1, <1>2, <2>1, <3>1, <3>2 DEF OnItsWay, AInv, OnePlace
    <3> QED BY <1>0, <1>1, <1>2, <2>1, <2>3, <3>1, <3>2, <3>3, <3>4, Settled
  <2> QED BY <1>5, <2>2, <2>3 DEF MoveStaged
<1>6. CASE ArmPage
  <2>1. /\ answers' = Answered(answers, armed) /\ armed' = taken.push /\ taken'.push = 0
        /\ staged' = staged /\ taken.push # 0
    BY <1>0, <1>6 DEF ArmPage, Superseded, NoPage, TInv, LoopOK
  <2>2. armed \in 0 .. MaxPush /\ (armed # 0 => armed \in Pushes /\ answers[armed] = << >>)
    BY <1>0, Bounds DEF TInv, LoopOK, AInv, NotYetAnswered, OnItsWay, Pushes
  <2>3. /\ \A q \in Pushes : q # armed => answers'[q] = answers[q]
        /\ armed # 0 => Len(answers'[armed]) <= 1
    BY <1>0, <2>1, <2>2, OneAnswer
  <2>4. AnsweredOnce'
    <3> SUFFICES ASSUME NEW q \in Pushes PROVE Len(answers'[q]) <= 1 BY DEF AnsweredOnce
    <3>1. q # 0 BY Bounds DEF Pushes
    <3>2. CASE q = armed BY <2>3, <3>1, <3>2
    <3>3. CASE q # armed BY <2>3, <3>3 DEF AInv, AnsweredOnce
    <3> QED BY <3>2, <3>3
  <2>5. OnePlace' BY <1>1, <1>2, <2>1 DEF AInv, OnePlace
  <2>6. NotYetAnswered'
    <3> SUFFICES ASSUME NEW q \in Pushes, q \in OnItsWay' \/ q > begun'
                 PROVE  answers'[q] = << >>
      BY DEF NotYetAnswered
    <3>1. q # 0 BY Bounds DEF Pushes
    <3>2. q \in OnItsWay \/ q > begun BY <1>1, <1>2, <2>1 DEF OnItsWay
    <3>3. q # armed
      <4>1. CASE q \in OnItsWay' BY <1>1, <1>2, <2>1, <3>1, <4>1 DEF OnItsWay, AInv, OnePlace
      <4>2. CASE q > begun' BY <1>0, <1>1, <4>2, Bounds DEF TInv, LoopOK, AppOK, Pushes
      <4> QED BY <4>1, <4>2
    <3> QED BY <2>3, <3>2, <3>3 DEF AInv, NotYetAnswered
  <2> QED BY <1>0, <2>4, <2>5, <2>6 DEF AInv
<1>7. CASE ApplyForeground
  <2>1. UNCHANGED <<answers, staged, taken, armed>> BY <1>7 DEF ApplyForeground
  <2> QED BY <1>0, <1>1, <1>2, <2>1, NothingSettled
<1> QED BY <1>3, <1>4, <1>5, <1>6, <1>7 DEF MainLoop

LEMMA RenderAnswers == ASSUME AInv, Render PROVE AInv'
<1>0. TInv /\ TInv' BY DrawBaseType, DrawGreyType, DrawOtherType DEF AInv, Render
<1>1. UNCHANGED <<begun, active, queue, staged, taken>>
  BY DEF Render, DrawBase, DrawGrey, DrawOther, appVars, hostVars
<1>2. EndsOf(queue)' = EndsOf(queue) /\ Single(queue)'
  BY <1>1, KeptEnds DEF AInv, OnePlace
<1>3. \/ answers' = answers /\ armed' \in {0, armed}
      \/ answers' = Answered(answers, armed) /\ armed' = 0
  BY DEF Render, DrawBase, DrawGrey, DrawOther, Disarm
<1>4. CASE answers' = answers /\ armed' \in {0, armed}
  BY <1>0, <1>1, <1>2, <1>4, NothingSettled
<1>5. CASE answers' = Answered(answers, armed) /\ armed' = 0
  <2>1. armed \in 0 .. MaxPush BY <1>0 DEF TInv, LoopOK
  <2>2. armed # 0 => armed \in OnItsWay /\ armed \notin OnItsWay'
    BY <1>1, <1>2, <1>5 DEF OnItsWay, AInv, OnePlace
  <2> QED BY <1>0, <1>1, <1>2, <1>5, <2>1, <2>2, Settled
<1> QED BY <1>3, <1>4, <1>5

LEMMA AInit == Init => AInv
<1> SUFFICES ASSUME Init PROVE AInv OBVIOUS
<1>1. TInv BY TInit
<1>2. EndsOf(queue) = {} /\ Single(queue) BY DEF Init, EndsOf, Single
<1>3. active = 0 /\ staged = 0 /\ taken.push = 0 /\ armed = 0 BY DEF Init, NoPage
<1>4. \A p \in Pushes : answers[p] = << >> BY DEF Init
<1> QED BY <1>1, <1>2, <1>3, <1>4 DEF AInv, AnsweredOnce, NotYetAnswered, OnePlace

LEMMA ANext == ASSUME AInv, [Next]_vars PROVE AInv'
<1>0. TInv' BY TNext DEF AInv
<1>1. CASE LoseChunk \/ Release \/ Reconnect \/ ChangeTag \/ Prompt \/ UNCHANGED vars
  <2>1. UNCHANGED <<answers, begun, queue, active, staged, taken, armed>>
    BY <1>1 DEF LoseChunk, Release, Reconnect, ChangeTag, Prompt, vars, appVars, hostVars, loopVars
  <2> QED BY <1>0, <2>1, KeptEnds, NothingSettled DEF AInv, OnePlace
<1> QED BY <1>1, StartPushAnswers, ChunkAnswers, EndPushAnswers, ResetAnswers, WriterAnswers,
           MainLoopAnswers, RenderAnswers DEF Next, Phone, Done

(* No push is answered twice, however many of the four tasks it passes,    *)
(* whatever is lost, refused, overtaken or handed over meanwhile.          *)
THEOREM NeverAnsweredTwice == Spec => []AnsweredOnce
<1>1. Init => AInv BY AInit
<1>2. AInv /\ [Next]_vars => AInv' BY ANext
<1>3. AInv => AnsweredOnce BY DEF AInv
<1> QED BY <1>1, <1>2, <1>3, PTL DEF Spec

----------------------------------------------------------------------------
(* The staging file: while the card works and the writer keeps up, every   *)
(* open is followed by the end or the abort that closes it, in the queue   *)
(* already or because the host task holds an image.                        *)

Calm == Without({"card", "stall", "handover", "drop"})

Terminator(m) == m.type \in {"end", "abort"}

ClosedAfter(q, i) == \E j \in i + 1 .. Len(q) : Terminator(q[j])

OpensClosed(q) == \A i \in 1 .. Len(q) : q[i].type = "open" => ClosedAfter(q, i)

Closing ==
  what # "image" => OpensClosed(queue) /\ (open # "no" => ClosedAfter(queue, 0))

OneStager ==
  /\ foreground \in Apps
  /\ \A p \in 1 .. begun : owner[p] = foreground
  /\ staging = IF open = "no" THEN NoApp ELSE foreground
  /\ ~handed /\ loopAt # "apply"

Cleared ==
  /\ \A a \in Apps \ {foreground} : incoming[a] = Missing
  /\ incoming[foreground] # Missing => open = "staging" \/ staged # 0 \/ loopAt = "move"

LInv == TInv /\ (Calm => OneStager /\ Closing /\ Cleared)

LEMMA TerminatorCloses ==
  ASSUME NEW q \in Seq(Messages), NEW m \in Messages, Terminator(m)
  PROVE  OpensClosed(Append(q, m)) /\ ClosedAfter(Append(q, m), 0)
<1> DEFINE r == Append(q, m)
<1>1. Len(r) = Len(q) + 1 /\ Len(q) \in Nat /\ r[Len(q) + 1] = m OBVIOUS
<1>2. m.type # "open" BY DEF Terminator
<1> HIDE DEF r
<1>3. \A i \in 0 .. Len(q) : ClosedAfter(r, i)
  <2> SUFFICES ASSUME NEW i \in 0 .. Len(q) PROVE ClosedAfter(r, i) OBVIOUS
  <2>1. Len(q) + 1 \in i + 1 .. Len(r) BY <1>1
  <2> QED BY <1>1, <2>1 DEF ClosedAfter
<1>4. ClosedAfter(r, 0) BY <1>1, <1>3
<1>5. OpensClosed(r)
  <2> SUFFICES ASSUME NEW i \in 1 .. Len(r), r[i].type = "open" PROVE ClosedAfter(r, i)
    BY DEF OpensClosed
  <2>1. i # Len(q) + 1 BY <1>1, <1>2
  <2> QED BY <1>1, <1>3, <2>1
<1> QED BY <1>4, <1>5 DEF r

LEMMA ClosedTail ==
  ASSUME NEW q \in Seq(Messages), q # << >>, OpensClosed(q)
  PROVE  /\ OpensClosed(Tail(q))
         /\ Head(q).type = "open" => ClosedAfter(Tail(q), 0)
         /\ ClosedAfter(q, 0) /\ ~Terminator(Head(q)) => ClosedAfter(Tail(q), 0)
<1> DEFINE r == Tail(q)
<1>1. /\ Len(q) \in Nat \ {0} /\ Len(r) = Len(q) - 1 /\ Head(q) = q[1]
      /\ \A i \in 1 .. Len(r) : r[i] = q[i + 1]
  OBVIOUS
<1> HIDE DEF r
<1>2. ASSUME NEW i \in 0 .. Len(r), ClosedAfter(q, i + 1) PROVE ClosedAfter(r, i)
  <2>1. PICK j \in (i + 1) + 1 .. Len(q) : Terminator(q[j]) BY <1>2 DEF ClosedAfter
  <2>2. j - 1 \in i + 1 .. Len(r) /\ r[j - 1] = q[j] BY <1>1, <2>1
  <2> QED BY <2>1, <2>2 DEF ClosedAfter
<1>3. OpensClosed(r)
  <2> SUFFICES ASSUME NEW i \in 1 .. Len(r), r[i].type = "open" PROVE ClosedAfter(r, i)
    BY DEF OpensClosed
  <2>1. i + 1 \in 1 .. Len(q) /\ q[i + 1].type = "open" BY <1>1
  <2>2. ClosedAfter(q, i + 1) BY <2>1 DEF OpensClosed
  <2> QED BY <1>1, <1>2, <2>2
<1>4. Head(q).type = "open" => ClosedAfter(r, 0)
  <2> SUFFICES ASSUME Head(q).type = "open" PROVE ClosedAfter(r, 0) OBVIOUS
  <2>1. 1 \in 1 .. Len(q) /\ ClosedAfter(q, 1) BY <1>1 DEF OpensClosed
  <2>2. ClosedAfter(q, 0 + 1) BY <2>1
  <2> QED BY <1>1, <1>2, <2>2
<1>5. ClosedAfter(q, 0) /\ ~Terminator(Head(q)) => ClosedAfter(r, 0)
  <2> SUFFICES ASSUME ClosedAfter(q, 0), ~Terminator(Head(q)) PROVE ClosedAfter(r, 0) OBVIOUS
  <2>1. PICK j \in 0 + 1 .. Len(q) : Terminator(q[j]) BY DEF ClosedAfter
  <2>2. j # 1 BY <1>1, <2>1
  <2>3. ClosedAfter(q, 0 + 1) BY <1>1, <2>1, <2>2 DEF ClosedAfter
  <2> QED BY <1>1, <1>2, <2>3
<1> QED BY <1>3, <1>4, <1>5 DEF r

(* The host task lets go of an image with an abort, which closes the file. *)
LEMMA AbortCloses ==
  ASSUME TInv, "stall" \notin trouble, NEW q \in Seq(Messages), Len(q) <= QueueLen,
         what # "image" => OpensClosed(q) /\ (open # "no" => ClosedAfter(q, 0)),
         NEW s \in Abort(q)
  PROVE  OpensClosed(s.queue) /\ (open # "no" => ClosedAfter(s.queue, 0))
<1>1. CASE what # "image" BY <1>1, AbortQueues
<1>2. CASE what = "image"
  <2> DEFINE m == Msg("abort", active, 0)
  <2>1. s.queue = Append(q, m) BY <1>2, AbortQueues
  <2>2. active \in Pushes BY <1>2, Bounds DEF TInv, HostOK, Pushes
  <2>3. m \in Messages /\ Terminator(m) BY <2>2, Bounds, IsMessage DEF Terminator
  <2> QED BY <2>1, <2>3, TerminatorCloses
<1> QED BY <1>1, <1>2

LEMMA ClosingPrimed ==
  ASSUME open' = open, OpensClosed(queue') /\ (open # "no" => ClosedAfter(queue', 0))
  PROVE  Closing'
BY DEF Closing, OpensClosed, ClosedAfter, Terminator

LEMMA ClosingKept == ASSUME Closing, UNCHANGED <<open, what, queue>> PROVE Closing'
BY DEF Closing, OpensClosed, ClosedAfter, Terminator

LEMMA StagingKept ==
  ASSUME OneStager, Cleared,
         UNCHANGED <<foreground, owner, begun, writerVars, staged, loopAt, handed>>
  PROVE  OneStager' /\ Cleared'
<1>1. ~handed' BY Zenon DEF OneStager
<1> QED BY <1>1 DEF OneStager, Cleared, writerVars

LEMMA StartPushCloses ==
  ASSUME LInv, StartPush, Calm PROVE OneStager' /\ Closing' /\ Cleared'
<1>0. TInv /\ "stall" \notin trouble /\ OneStager /\ Closing /\ Cleared
  BY DEF LInv, Calm, Without
<1>1. OneStager' /\ Cleared'
  <2>1. begun + 1 \in Pushes /\ begun' = begun + 1 /\ begun \in Nat
    BY <1>0, Bounds DEF StartPush, TInv, AppOK, Pushes
  <2>2. owner' = [owner EXCEPT ![begun + 1] = foreground] BY DEF StartPush
  <2>3. \A p \in 1 .. begun' : owner'[p] = foreground
    BY <1>0, <2>1, <2>2, Bounds DEF OneStager, TInv, AppOK, Pushes
  <2>4. UNCHANGED <<foreground, writerVars, staged, loopAt>> /\ handed' = handed
    BY DEF StartPush, loopVars, screenVars
  <2>5. ~handed' BY <1>0, <2>4, Zenon DEF OneStager
  <2> QED BY <1>0, <2>3, <2>4, <2>5 DEF OneStager, Cleared, writerVars
<1>2. CASE what' = "image" BY <1>1, <1>2 DEF Closing
<1>3. CASE what' # "image"
  <2>1. PICK a \in Abort(queue) : queue' = a.queue BY <1>3 DEF StartPush
  <2>2. OpensClosed(a.queue) /\ (open # "no" => ClosedAfter(a.queue, 0))
    BY <1>0, AbortCloses DEF Closing, TInv, QueueOK
  <2> QED BY <1>1, <2>1, <2>2, ClosingPrimed DEF StartPush, writerVars
<1> QED BY <1>1, <1>2, <1>3

LEMMA ChunkCloses ==
  ASSUME LInv, Chunk, Calm PROVE OneStager' /\ Closing' /\ Cleared'
<1>0. TInv /\ OneStager /\ Closing /\ Cleared BY DEF LInv
<1>1. OneStager' /\ Cleared' BY <1>0, StagingKept DEF Chunk, loopVars, screenVars
<1>2. what' = what /\ open' = open BY DEF Chunk, hostVars, writerVars
<1>3. CASE what = "image" BY <1>1, <1>2, <1>3 DEF Closing
<1>4. CASE what # "image"
  <2>1. queue' = queue
    <3>1. CASE active # wire.push \/ gap \/ failed BY <3>1 DEF Chunk
    <3>2. CASE ~(active # wire.push \/ gap \/ failed)
      <4>1. what = "text"
        BY <1>0, <1>4, <3>2, KindAssumption DEF Chunk, TInv, HostOK
      <4>2. \A a \in Abort(queue) : a.queue = queue BY <1>4 DEF Abort
      <4> QED BY <3>2, <4>1, <4>2 DEF Chunk
    <3> QED BY <3>1, <3>2
  <2> QED BY <1>0, <1>1, <1>2, <2>1, ClosingKept
<1> QED BY <1>3, <1>4

LEMMA EndPushCloses ==
  ASSUME LInv, EndPush, Calm PROVE OneStager' /\ Closing' /\ Cleared'
<1>0. TInv /\ "stall" \notin trouble /\ OneStager /\ Closing /\ Cleared
  BY DEF LInv, Calm, Without
<1>1. OneStager' /\ Cleared' BY <1>0, StagingKept DEF EndPush, loopVars, screenVars
<1>2. open' = open BY DEF EndPush, writerVars
<1>3. CASE active # wire.push
  BY <1>0, <1>1, <1>2, <1>3, ClosingKept DEF EndPush, hostVars
<1>4. CASE active = wire.push /\ what = "text"
  <2>1. queue' = queue BY <1>4 DEF EndPush, EndText
  <2>2. OpensClosed(queue) /\ (open # "no" => ClosedAfter(queue, 0)) BY <1>0, <1>4 DEF Closing
  <2> QED BY <1>1, <1>2, <2>1, <2>2, ClosingPrimed
<1>5. CASE active = wire.push /\ what # "text"
  <2>1. what = "image" /\ active \in Pushes
    BY <1>0, <1>5, KindAssumption, Bounds DEF EndPush, TInv, HostOK, Pushes
  <2>2. queue \in Seq(Messages) /\ Len(queue) <= QueueLen BY <1>0 DEF TInv, QueueOK
  <2> DEFINE m == Msg("end", active, 0)
  <2>3. m \in Messages BY <2>1, Bounds, IsMessage
  <2>4. PICK q \in Seq(Messages) : Len(q) <= QueueLen /\ \E a \in Abort(q) : queue' = a.queue
    <3>1. CASE gap \/ failed BY <1>5, <2>2, <3>1 DEF EndPush, EndImage
    <3>2. CASE ~(gap \/ failed)
      <4>1. PICK e \in Send(queue, m) : \E t \in (IF e.sent THEN {e} ELSE Abort(e.queue)) :
               \E a \in Abort(t.queue) : queue' = a.queue
        BY <1>5, <3>2 DEF EndPush, EndImage
      <4>2. e.sent /\ e.queue \in Seq(Messages) /\ Len(e.queue) <= QueueLen
        BY <1>0, <2>2, <2>3, SendQueues
      <4> QED BY <4>1, <4>2
    <3> QED BY <3>1, <3>2
  <2>5. PICK a \in Abort(q) : queue' = a.queue BY <2>4
  <2>6. OpensClosed(a.queue) /\ (open # "no" => ClosedAfter(a.queue, 0))
    BY <1>0, <2>1, <2>4, AbortCloses
  <2> QED BY <1>1, <1>2, <2>5, <2>6, ClosingPrimed
<1> QED BY <1>3, <1>4, <1>5

LEMMA PushAssetCloses ==
  ASSUME LInv, PushAsset, Calm PROVE OneStager' /\ Closing' /\ Cleared'
<1>0. TInv /\ "stall" \notin trouble /\ OneStager /\ Closing /\ Cleared
  BY DEF LInv, Calm, Without
<1>1. PICK a \in Abort(queue) : queue' = a.queue BY DEF PushAsset
<1>2. OpensClosed(a.queue) /\ (open # "no" => ClosedAfter(a.queue, 0))
  BY <1>0, AbortCloses DEF Closing, TInv, QueueOK
<1>3. Closing' BY <1>1, <1>2, ClosingPrimed DEF PushAsset, writerVars
<1>4. OneStager' /\ Cleared' BY <1>0, StagingKept DEF PushAsset, appVars, loopVars, screenVars
<1> QED BY <1>3, <1>4

(* What the writer finds closed stays closed as it goes on.                *)
LEMMA ReceivedCloses ==
  ASSUME TInv, Closing, NEW type, Receive(type), what' = what,
         open' # "no" => type = "open" \/ (open # "no" /\ type = "chunk")
  PROVE  Closing'
<1>1. CASE what = "image" BY <1>1 DEF Closing
<1>2. CASE what # "image"
  <2>1. queue \in Seq(Messages) /\ queue # << >> /\ Head(queue).type = type /\ queue' = Tail(queue)
    BY DEF TInv, QueueOK, Receive
  <2>2. OpensClosed(queue) /\ (open # "no" => ClosedAfter(queue, 0)) BY <1>2 DEF Closing
  <2>3. OpensClosed(Tail(queue)) /\ (open' # "no" => ClosedAfter(Tail(queue), 0))
    BY <2>1, <2>2, ClosedTail DEF Terminator
  <2> QED BY <2>1, <2>3 DEF Closing, OpensClosed, ClosedAfter, Terminator
<1> QED BY <1>1, <1>2

LEMMA WriterCloses ==
  ASSUME LInv, Writer, Calm PROVE OneStager' /\ Closing' /\ Cleared'
<1>0. TInv /\ "card" \notin trouble /\ OneStager /\ Closing /\ Cleared
  BY DEF LInv, Calm, Without
<1>1. UNCHANGED <<foreground, owner, begun, what, loopAt>> /\ handed' = handed
  BY DEF Writer, WriterOpen, WriterChunk, WriterEnd, WriterAbort, appVars, hostVars, loopVars,
         screenVars
<1>7. ~handed' BY <1>0, <1>1, Zenon DEF OneStager
<1>2. NoApp \notin Apps /\ foreground \in Apps /\ incoming \in [Apps -> Files]
  BY <1>0, AppsAssumption DEF OneStager, TInv, WriterOK
<1>3. CASE WriterOpen
  <2>1. owner[Head(queue).push] = foreground
    BY <1>0, <1>3, HeadMessage DEF WriterOpen, Receive, OneStager
  <2> DEFINE old == IF open # "no" THEN Discarded ELSE incoming
  <2>2. /\ open' = "staging" /\ staging' = foreground
        /\ incoming' = [old EXCEPT ![foreground] = << >>]
    BY <1>0, <1>3, <2>1 DEF WriterOpen
  <2>3. old \in [Apps -> Files] BY <1>0, DiscardedType DEF TInv, WriterOK
  <2>4. \A a \in Apps \ {foreground} : old[a] = Missing
    BY <1>0, <1>2 DEF OneStager, Cleared, Discarded
  <2>5. Closing' BY <1>0, <1>1, <1>3, ReceivedCloses DEF WriterOpen
  <2>6. Cleared' BY <1>1, <2>2, <2>3, <2>4 DEF Cleared
  <2>7. OneStager' BY <1>0, <1>1, <1>7, <2>2 DEF OneStager
  <2> QED BY <2>5, <2>6, <2>7
<1>4. CASE WriterChunk
  <2>1. /\ UNCHANGED <<open, staging, staged>>
        /\ \A a \in Apps : incoming'[a] # incoming[a] => a = staging /\ open = "staging"
    BY <1>0, <1>2, <1>4 DEF WriterChunk, loopVars, writerVars, TInv, WriterOK
  <2>2. Closing' BY <1>0, <1>1, <1>4, <2>1, ReceivedCloses DEF WriterChunk
  <2>3. OneStager' BY <1>0, <1>1, <1>7, <2>1 DEF OneStager
  <2>4. Cleared' BY <1>0, <1>1, <1>2, <2>1 DEF Cleared, OneStager
  <2> QED BY <2>2, <2>3, <2>4
<1>5. CASE WriterEnd
  <2>1. Head(queue).push # 0 BY <1>0, <1>5, HeadMessage, Bounds DEF WriterEnd, Receive, Pushes
  <2>2. /\ incoming' = incoming /\ open' = "no"
        /\ (IF open = "no" THEN UNCHANGED <<staging, staged>> ELSE staging' = NoApp /\ staged' # 0)
    BY <1>5, <2>1 DEF WriterEnd
  <2>3. Closing' BY <1>0, <1>1, <1>5, <2>2, ReceivedCloses DEF WriterEnd
  <2>4. OneStager' BY <1>0, <1>1, <1>7, <2>2 DEF OneStager
  <2>5. Cleared' BY <1>0, <1>1, <2>2 DEF Cleared
  <2> QED BY <2>3, <2>4, <2>5
<1>6. CASE WriterAbort
  <2>1. open' = "no" /\ staging' = NoApp /\ incoming' = Discarded /\ staged' = staged
    BY <1>6 DEF WriterAbort, loopVars
  <2>2. Closing' BY <1>0, <1>1, <1>6, <2>1, ReceivedCloses DEF WriterAbort
  <2>3. OneStager' BY <1>0, <1>1, <1>7, <2>1 DEF OneStager
  <2>4. \A a \in Apps : Discarded[a] # Missing => incoming[a] # Missing /\ a # staging
    BY <1>2 DEF Discarded
  <2>5. Cleared' BY <1>0, <1>1, <1>2, <2>1, <2>4 DEF Cleared, OneStager
  <2> QED BY <2>2, <2>3, <2>5
<1> QED BY <1>3, <1>4, <1>5, <1>6 DEF Writer

LEMMA MainLoopCloses ==
  ASSUME LInv, MainLoop, Calm PROVE OneStager' /\ Closing' /\ Cleared'
<1>0. TInv /\ "card" \notin trouble /\ OneStager /\ Closing /\ Cleared
  BY DEF LInv, Calm, Without
<1>1. UNCHANGED <<foreground, owner, begun, what, queue, staging>>
  BY DEF MainLoop, NoticeLink, Drain, ApplyForeground, MoveStaged, ArmPage, appVars, hostVars,
         writerVars
<1>2. CASE NoticeLink
  BY <1>0, <1>1, <1>2, StagingKept, ClosingKept DEF NoticeLink, writerVars
<1>3. CASE Drain
  <2>1. open' = open /\ incoming' = incoming /\ loopAt' = "move"
    BY <1>0, <1>3 DEF Drain, writerVars, OneStager
  <2>2. ~handed' BY <1>3, Zenon DEF Drain
  <2> QED BY <1>0, <1>1, <2>1, <2>2, ClosingKept DEF OneStager, Cleared
<1>4. CASE MoveStaged
  <2>1. owner[taken.push] = foreground
    BY <1>0, <1>4, Bounds DEF MoveStaged, TInv, LoopOK, OneStager, AppOK, Pages
  <2>2. PICK c \in Commits(incoming[foreground]) :
          /\ incoming' = IF c.moved THEN [incoming EXCEPT ![foreground] = Missing] ELSE incoming
          /\ open' = IF c.moved /\ open = "staging" /\ staging = foreground THEN "adrift" ELSE open
    BY <2>1, <1>4, MoveStagedOutcome
  <2>3. c.moved \in BOOLEAN /\ (incoming[foreground] # Missing => c.moved)
    BY <1>0, CommitKinds
  <2>4. incoming \in [Apps -> Files] BY <1>0 DEF TInv, WriterOK
  <2>5. incoming' = [incoming EXCEPT ![foreground] = Missing]
    <3>1. CASE c.moved BY <2>2, <3>1
    <3>2. CASE ~c.moved BY <1>0, <2>2, <2>3, <2>4, <3>2 DEF OneStager
    <3> QED BY <3>1, <3>2
  <2>6. open' = "no" <=> open = "no" BY <2>2
  <2>7. loopAt' # "apply" /\ handed' = handed BY <1>4 DEF MoveStaged
  <2>8. ~handed' BY <1>0, <2>7, Zenon DEF OneStager
  <2>9. Cleared' BY <1>0, <1>1, <2>4, <2>5 DEF Cleared, OneStager
  <2>10. OneStager' BY <1>0, <1>1, <2>6, <2>7, <2>8 DEF OneStager
  <2>11. Closing' BY <1>0, <1>1, <2>6 DEF Closing, OpensClosed, ClosedAfter, Terminator
  <2> QED BY <2>9, <2>10, <2>11
<1>5. CASE ArmPage
  <2>1. /\ open' = open /\ incoming' = incoming /\ staged' = staged /\ loopAt = "arm"
        /\ loopAt' = "drain" /\ handed' = handed
    BY <1>5 DEF ArmPage, writerVars
  <2>2. ~handed' BY <1>0, <2>1, Zenon DEF OneStager
  <2> QED BY <1>0, <1>1, <2>1, <2>2, ClosingKept DEF OneStager, Cleared
<1>6. CASE ApplyForeground BY <1>0, <1>6 DEF ApplyForeground, OneStager
<1> QED BY <1>2, <1>3, <1>4, <1>5, <1>6 DEF MainLoop

LEMMA LNext == ASSUME LInv, [Next]_vars PROVE LInv'
<1>0. TInv' BY TNext DEF LInv
<1>1. trouble' = trouble BY TroubleKept
<1>2. SUFFICES ASSUME Calm PROVE OneStager' /\ Closing' /\ Cleared'
  BY <1>0, <1>1 DEF LInv, Calm, Without
<1>3. OneStager /\ Closing /\ Cleared BY <1>2 DEF LInv
<1>4. CASE LoseChunk \/ Reconnect \/ ChangeTag \/ Prompt \/ Render \/ UNCHANGED vars
  <2>1. UNCHANGED <<foreground, owner, begun, writerVars, staged, loopAt, what, queue, handed>>
    BY <1>4 DEF LoseChunk, Reconnect, ChangeTag, Prompt, Render, DrawBase, DrawGrey, DrawOther, vars,
       appVars, hostVars, loopVars, screenVars
  <2> QED BY <1>3, <2>1, StagingKept, ClosingKept DEF writerVars
<1>5. CASE Handover \/ Release \/ LinkLoss
  BY <1>2, <1>3, <1>5, AppsAssumption
  DEF Handover, Release, LinkLoss, Calm, Without, OneStager
<1> QED BY <1>2, <1>4, <1>5, StartPushCloses, ChunkCloses, EndPushCloses, PushAssetCloses,
           WriterCloses, MainLoopCloses DEF Next, Phone, Done

LEMMA LInit == Init => LInv
<1> SUFFICES ASSUME Init PROVE LInv OBVIOUS
<1>1. TInv BY TInit
<1>2. OneStager
  <2>1. ~handed BY Zenon DEF Init
  <2> QED BY <2>1 DEF Init, OneStager
<1>3. Closing BY DEF Init, Closing, OpensClosed
<1>4. Cleared BY DEF Init, Cleared
<1> QED BY <1>1, <1>2, <1>3, <1>4 DEF LInv

LEMMA NothingIsLeft == LInv => NothingLeftBehind
<1> SUFFICES ASSUME LInv, Calm, queue = << >>, active = 0, staged = 0, loopAt = "drain"
             PROVE  open = "no" /\ \A a \in Apps : incoming[a] = Missing
  BY DEF NothingLeftBehind, Calm
<1>1. OneStager /\ Closing /\ Cleared BY DEF LInv
<1>2. what # "image" BY DEF LInv, TInv, HostOK
<1>3. ~ClosedAfter(queue, 0) BY DEF ClosedAfter
<1>4. open = "no" BY <1>1, <1>2, <1>3 DEF Closing
<1> QED BY <1>1, <1>4 DEF Cleared

(* Once writer and main loop have caught up and no push is on the air, no  *)
(* file is open and the staging paths are empty: whatever was lost,        *)
(* refused, overlapped or interrupted by an asset was cleaned up or moved  *)
(* on.  Of the gallery, where an image without its last CHUNKs is moved    *)
(* like any other, nothing is said.                                        *)
THEOREM StagingIsReleased == Spec => []NothingLeftBehind
<1>1. Init => LInv BY LInit
<1>2. LInv /\ [Next]_vars => LInv' BY LNext
<1>3. LInv => NothingLeftBehind BY NothingIsLeft
<1> QED BY <1>1, <1>2, <1>3, PTL DEF Spec
=============================================================================
