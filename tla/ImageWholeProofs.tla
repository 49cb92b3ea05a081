-------------------------- MODULE ImageWholeProofs --------------------------
(***************************************************************************)
(* What is drawn is whole: ImageTransfer's ShownIsWhole, for an app that   *)
(* waits for its answers, keeps link and screen, and does not meet a page  *)
(* drawn again while the card fails.  Then one push at a time is past the  *)
(* host task, the queue between host and writer is one orderly stream per  *)
(* push, and the staging file is touched by nobody from the moment it is   *)
(* complete until it is drawn.  What the gallery lists may be a part of a  *)
(* picture, and is then not drawn; while the card works, what it lists     *)
(* last is the push that is about to be shown.                             *)
(***************************************************************************)
EXTENDS ImageTransferProofs

Patient == Without({"pipeline", "handover", "drop"})

File == incoming[foreground]

(* f holds the first CHUNKs of push p, as far as it goes.                  *)
PrefixOf(f, p) == f \in Written /\ \A k \in 1 .. Len(f) : f[k] = <<p, k>>

(* The pushes past the host task, the first of them past the queue too.    *)
Later  == ({staged, taken.push, armed} \ {0}) \cup EndsOf(queue)
Beyond == staged # 0 \/ taken.push # 0 \/ armed # 0

Linked == linkUp /\ connected = linkUp /\ holder = foreground

OneOut ==
  /\ active \in {0, wire.push} /\ wire.push \in {0, begun}
  /\ active # 0 => wire.kind = what
  /\ \A p \in Later : p = begun /\ wire.push = 0 /\ p \in owed

EndIsLast(q) == \A i, j \in 1 .. Len(q) : i < j /\ q[i].type = "end" => q[j].type = "abort"
OnlyAborts(q) == \A i \in 1 .. Len(q) : q[i].type = "abort"

Behind == open # "adrift" /\ (Beyond => open = "no")

(* How many CHUNKs of its push were sent up to message m; n comes next.    *)
Filled(m) == IF m.type = "open" THEN 0 ELSE m.chunk
Fills(m) == m.type \in {"open", "chunk"}
Follows(m, n) ==
  n.type \in {"chunk", "end"} =>
    Fills(m) /\ m.push = n.push /\ (n.type = "chunk" => n.chunk = Filled(m) + 1)
InOrder(q) == \A i \in 1 .. Len(q) : i > 1 => Follows(q[i - 1], q[i])

(* The file holds k CHUNKs of p, if there is one.                          *)
FileAt(p, k) == open = "staging" => PrefixOf(File, p) /\ Len(File) = k

HeadFits(m) ==
  open = "staging" /\ m.type \in {"chunk", "end"} =>
    PrefixOf(File, m.push) /\ (m.type = "chunk" => m.chunk = Len(File) + 1)

Stream(q) ==
  /\ InOrder(q) /\ EndIsLast(q)
  /\ q # << >> => HeadFits(q[1])
  /\ Beyond => OnlyAborts(q)

(* What was sent of push p, so far, are its first k CHUNKs.                *)
SentUpTo(q, p, k) ==
  IF q = << >> THEN FileAt(p, k)
  ELSE Fills(q[Len(q)]) /\ q[Len(q)].push = p /\ Filled(q[Len(q)]) = k

Tip == what = "image" /\ ~gap /\ ~failed => SentUpTo(queue, active, seq)

(* The picture of the page, wherever it lies: its push or a part of it.    *)
Picture  == IF shown.moved THEN shown.file ELSE File
Readable == (shown.moved \/ "card" \in trouble) /\ PrefixOf(Picture, shown.push)

PageKept ==
  /\ staged # 0 => PrefixOf(File, staged)
  /\ loopAt = "move" => PrefixOf(File, taken.push)
  /\ loopAt = "arm" => /\ PrefixOf(taken.file, taken.push)
                       /\ ~taken.moved => File = taken.file
                       /\ "card" \notin trouble => taken.moved /\ gallery[foreground] = taken
  /\ gallery[foreground].push # 0 =>
       gallery[foreground].moved /\ PrefixOf(gallery[foreground].file, gallery[foreground].push)
  /\ shown.push # 0 /\ ("card" \in trouble => armed # 0) => Readable
  /\ armed # 0 /\ "card" \notin trouble => armed = shown.push

(* Where no page is drawn twice, one that is about to be drawn is the push *)
(* that is owed its answer.                                                *)
Asked ==
  /\ drawing => ~due
  /\ "redraw" \notin trouble /\ screen = "image" /\ due /\ ~tagsOnly => armed # 0

PanelKept ==
  /\ drawing => /\ panel.push = shown.push /\ Picture = panel.base
                /\ "card" \in trouble => armed # 0
  /\ panel.push # 0 => /\ panel.base = Whole(panel.push)
                       /\ drawing \/ panel.grey = panel.base

Apart == ~({"card", "redraw"} \subseteq trouble)

Orderly == /\ Linked /\ OneStager /\ OneOut /\ Behind /\ Stream(queue) /\ Tip /\ PageKept
           /\ Asked /\ (Apart => PanelKept)

PInv == AInv /\ (Patient => Orderly)

----------------------------------------------------------------------------
(* The queue. *)

LEMMA AppendInOrder ==
  ASSUME NEW q \in Seq(Messages), NEW m \in Messages, InOrder(q),
         q # << >> => Follows(q[Len(q)], m)
  PROVE  InOrder(Append(q, m))
<1> DEFINE r == Append(q, m)
<1>1. /\ Len(r) = Len(q) + 1 /\ r[Len(q) + 1] = m /\ Len(q) \in Nat
      /\ \A i \in 1 .. Len(q) : r[i] = q[i]
  OBVIOUS
<1> HIDE DEF r
<1> SUFFICES ASSUME NEW i \in 1 .. Len(r), i > 1 PROVE Follows(r[i - 1], r[i])
  BY DEF InOrder, r
<1>2. CASE i = Len(q) + 1
  <2>1. q # << >> /\ r[i - 1] = q[Len(q)] BY <1>1, <1>2
  <2> QED BY <1>1, <1>2, <2>1
<1>3. CASE i # Len(q) + 1
  <2>1. i \in 1 .. Len(q) /\ i - 1 \in 1 .. Len(q) BY <1>1, <1>3
  <2> QED BY <1>1, <2>1 DEF InOrder
<1> QED BY <1>2, <1>3

LEMMA AppendEndIsLast ==
  ASSUME NEW q \in Seq(Messages), NEW m \in Messages, EndIsLast(q),
         EndsOf(q) = {} \/ m.type = "abort"
  PROVE  EndIsLast(Append(q, m))
<1> DEFINE r == Append(q, m)
<1>1. /\ Len(r) = Len(q) + 1 /\ r[Len(q) + 1] = m /\ Len(q) \in Nat
      /\ \A i \in 1 .. Len(q) : r[i] = q[i]
  OBVIOUS
<1> HIDE DEF r
<1> SUFFICES ASSUME NEW i \in 1 .. Len(r), NEW j \in 1 .. Len(r), i < j, r[i].type = "end"
             PROVE  r[j].type = "abort"
  BY DEF EndIsLast, r
<1>2. i \in 1 .. Len(q) BY <1>1
<1>3. q[i].push \in EndsOf(q) BY <1>1, <1>2 DEF EndsOf
<1>4. m.type = "abort" BY <1>3
<1>5. CASE j = Len(q) + 1 BY <1>1, <1>4, <1>5
<1>6. CASE j # Len(q) + 1
  <2>1. j \in 1 .. Len(q) BY <1>1, <1>6
  <2> QED BY <1>1, <1>2, <2>1 DEF EndIsLast
<1> QED BY <1>5, <1>6

LEMMA TailOrder ==
  ASSUME NEW q \in Seq(Messages), q # << >>, InOrder(q), EndIsLast(q)
  PROVE  LET r == Tail(q)
         IN  /\ InOrder(r) /\ EndIsLast(r)
             /\ OnlyAborts(q) => OnlyAborts(r)
             /\ q[1].type = "end" => OnlyAborts(r)
             /\ r # << >> => Follows(q[1], r[1]) /\ r[Len(r)] = q[Len(q)]
             /\ r = << >> => q[Len(q)] = q[1]
             /\ Head(q) = q[1]
<1> DEFINE r == Tail(q)
<1>1. /\ Len(q) \in Nat \ {0} /\ Len(r) = Len(q) - 1 /\ Head(q) = q[1]
      /\ \A i \in 1 .. Len(r) : r[i] = q[i + 1]
  OBVIOUS
<1>7. r \in Seq(Messages) OBVIOUS
<1> HIDE DEF r
<1>0. r = << >> <=> Len(r) = 0 BY <1>7
<1>2. InOrder(r)
  <2> SUFFICES ASSUME NEW i \in 1 .. Len(r), i > 1 PROVE Follows(r[i - 1], r[i]) BY DEF InOrder
  <2>1. r[i - 1] = q[(i + 1) - 1] /\ r[i] = q[i + 1] /\ i + 1 \in 1 .. Len(q) /\ i + 1 > 1
    BY <1>1
  <2> QED BY <2>1 DEF InOrder
<1>3. EndIsLast(r)
  <2> SUFFICES ASSUME NEW i \in 1 .. Len(r), NEW j \in 1 .. Len(r), i < j, r[i].type = "end"
               PROVE  r[j].type = "abort"
    BY DEF EndIsLast
  <2>1. i + 1 \in 1 .. Len(q) /\ j + 1 \in 1 .. Len(q) /\ i + 1 < j + 1 BY <1>1
  <2> QED BY <1>1, <2>1 DEF EndIsLast
<1>4. OnlyAborts(q) \/ q[1].type = "end" => OnlyAborts(r)
  <2> SUFFICES ASSUME OnlyAborts(q) \/ q[1].type = "end", NEW i \in 1 .. Len(r)
               PROVE  r[i].type = "abort"
    BY DEF OnlyAborts
  <2>1. i + 1 \in 1 .. Len(q) /\ 1 \in 1 .. Len(q) /\ 1 < i + 1 /\ r[i] = q[i + 1] BY <1>1
  <2> QED BY <2>1 DEF OnlyAborts, EndIsLast
<1>5. r # << >> => Follows(q[1], r[1]) /\ r[Len(r)] = q[Len(q)]
  <2> SUFFICES ASSUME r # << >> PROVE Follows(q[1], r[1]) /\ r[Len(r)] = q[Len(q)] OBVIOUS
  <2>0. Len(r) # 0 BY <1>0
  <2>1. Len(r) >= 1 /\ 2 \in 1 .. Len(q) /\ r[1] = q[2] /\ r[Len(r)] = q[Len(q)] BY <1>1, <2>0
  <2>2. Follows(q[2 - 1], q[2]) BY <2>1 DEF InOrder
  <2> QED BY <2>1, <2>2
<1>6. r = << >> => q[Len(q)] = q[1]
  <2> SUFFICES ASSUME r = << >> PROVE q[Len(q)] = q[1] OBVIOUS
  <2>1. Len(q) = 1 BY <1>0, <1>1
  <2> QED BY <2>1
<1> QED BY <1>1, <1>2, <1>3, <1>4, <1>5, <1>6 DEF r

LEMMA AppendAbort ==
  ASSUME NEW q \in Seq(Messages), NEW m \in Messages, m.type = "abort"
  PROVE  /\ OnlyAborts(q) => OnlyAborts(Append(q, m))
         /\ EndIsLast(q) => EndIsLast(Append(q, m))
         /\ InOrder(q) => InOrder(Append(q, m))
         /\ Append(q, m) # << >>
         /\ Append(q, m)[1] = IF q = << >> THEN m ELSE q[1]
<1>1. OnlyAborts(q) => OnlyAborts(Append(q, m)) BY DEF OnlyAborts
<1>2. EndIsLast(q) => EndIsLast(Append(q, m)) BY AppendEndIsLast
<1>3. InOrder(q) => InOrder(Append(q, m)) BY AppendInOrder DEF Follows
<1>4. Len(q) \in Nat /\ Len(Append(q, m)) = Len(q) + 1 OBVIOUS
<1>5. Append(q, m) # << >>
  <2>1. Len(Append(q, m)) # Len(<< >>) BY <1>4
  <2> QED BY <2>1, Zenon
<1>6. CASE q = << >> BY <1>1, <1>2, <1>3, <1>5, <1>6
<1>7. CASE q # << >>
  <2>1. Len(q) # 0 BY <1>7
  <2>2. 1 \in 1 .. Len(q) BY <2>1
  <2>3. Append(q, m)[1] = q[1] BY <2>2
  <2> QED BY <1>1, <1>2, <1>3, <1>5, <1>7, <2>3
<1> QED BY <1>6, <1>7

LEMMA AbortStreams ==
  ASSUME TInv, NEW q \in Seq(Messages), Len(q) <= QueueLen, Stream(q), NEW s \in Abort(q)
  PROVE  Stream(s.queue)
<1>1. CASE s.queue = q BY <1>1
<1>2. CASE s.queue # q
  <2>1. what = "image" /\ s.queue = Append(q, Msg("abort", active, 0)) BY <1>2, AbortQueues
  <2>2. active \in Pushes BY <2>1, Bounds DEF TInv, HostOK, Pushes
  <2> DEFINE m == Msg("abort", active, 0)
  <2>3. m \in Messages /\ m.type = "abort" BY <2>2, Bounds, IsMessage
  <2> HIDE DEF m
  <2>4. HeadFits(m) BY <2>3 DEF HeadFits
  <2> QED BY <2>1, <2>3, <2>4, AppendAbort DEF Stream, m
<1> QED BY <1>1, <1>2

LEMMA StagerKept ==
  ASSUME OneStager, UNCHANGED <<foreground, handed>>, loopAt' # "apply",
         \A p \in 1 .. begun' : owner'[p] = foreground,
         staging' = IF open' = "no" THEN NoApp ELSE foreground
  PROVE  OneStager'
<1>1. ~handed' BY Zenon DEF OneStager
<1> QED BY <1>1 DEF OneStager

LEMMA PageStays ==
  ASSUME PageKept,
         UNCHANGED <<trouble, foreground, incoming, staged, loopAt, taken, shown, armed, gallery>>
  PROVE  PageKept'
BY DEF PageKept, Readable, Picture, PrefixOf, File

LEMMA AskedKept ==
  ASSUME Asked, UNCHANGED <<trouble, screen, due, tagsOnly, armed, drawing>> PROVE Asked'
BY Zenon DEF Asked

(* What the host task does leaves the file and the page alone.             *)
LEMMA HostKeeps ==
  ASSUME Orderly, UNCHANGED <<trouble, linkUp, foreground, writerVars, loopVars, screenVars>>
  PROVE  /\ Linked' /\ Behind' /\ PageKept' /\ Asked' /\ (Apart' => PanelKept')
         /\ \A q : Stream(q)' <=> Stream(q)
         /\ UNCHANGED <<owner, begun>> => OneStager'
<1> USE DEF Orderly, writerVars, loopVars, screenVars
<1>1. Linked' BY DEF Linked
<1>2. Behind' BY DEF Behind, Beyond
<1>3. PageKept'
  <2>1. UNCHANGED <<trouble, foreground, incoming, staged, loopAt, taken, shown, armed, gallery>>
    OBVIOUS
  <2> QED BY <2>1, PageStays
<1>4. Apart' => PanelKept'
  <2>1. Apart' => PanelKept BY DEF Apart
  <2> QED BY <2>1 DEF PanelKept, Picture, File
<1>5. ASSUME NEW q PROVE Stream(q)' <=> Stream(q)
  BY DEF Stream, InOrder, EndIsLast, HeadFits, Beyond, OnlyAborts, Follows, Fills, Filled, PrefixOf, File
<1>6. UNCHANGED <<owner, begun>> => OneStager'
  <2> SUFFICES ASSUME UNCHANGED <<owner, begun>> PROVE OneStager' OBVIOUS
  <2>1. OneStager /\ UNCHANGED <<foreground, handed, loopAt, staging, open>> OBVIOUS
  <2> QED BY <2>1, StagerKept DEF OneStager
<1>7. Asked'
  <2>1. Asked /\ UNCHANGED <<trouble, screen, due, tagsOnly, armed, drawing>> OBVIOUS
  <2> QED BY <2>1, AskedKept
<1> QED BY <1>1, <1>2, <1>3, <1>4, <1>5, <1>6, <1>7

LEMMA StreamPrimed ==
  ASSUME NEW q, queue' = q, Stream(q)' PROVE Stream(queue)'
BY DEF Stream, InOrder, EndIsLast, HeadFits, Beyond, OnlyAborts, Follows, Fills, Filled, PrefixOf, File

LEMMA StreamKept ==
  ASSUME Stream(queue), Beyond' => Beyond, UNCHANGED <<queue, open, incoming, foreground>>
  PROVE  Stream(queue)'
BY DEF Stream, InOrder, EndIsLast, HeadFits, Beyond, OnlyAborts, Follows, Fills, Filled, PrefixOf, File

LEMMA LaterKept ==
  ASSUME UNCHANGED <<staged, taken, armed>>, EndsOf(queue)' = EndsOf(queue)
  PROVE  Later' = Later /\ Beyond' = Beyond
BY DEF Later, Beyond

----------------------------------------------------------------------------
(* The host task. *)

(* A patient app begins when nothing of an earlier push is on its way.     *)
LEMMA StartPushClear ==
  ASSUME PInv, Patient, StartPush
  PROVE  Later = {} /\ ~Beyond /\ EndsOf(queue) = {} /\ active = 0 /\ what # "image"
<1>1. TInv /\ AInv /\ Orderly BY DEF PInv, AInv
<1>2. Waiting = {} /\ wire.push = 0 BY DEF StartPush, Patient, Without
<1>3. ASSUME NEW p \in Later PROVE FALSE
  <2>1. p \in owed /\ p \in OnItsWay /\ p \in Pushes
    BY <1>1, <1>3 DEF Orderly, OneOut, Later, OnItsWay, TInv, AppOK
  <2>2. answers[p] = << >> BY <1>1, <2>1 DEF AInv, NotYetAnswered
  <2> QED BY <1>2, <2>1, <2>2 DEF Waiting
<1>4. active = 0 /\ what # "image" BY <1>1, <1>2 DEF Orderly, OneOut, TInv, HostOK
<1> QED BY <1>3, <1>4 DEF Later, Beyond

LEMMA StartPushOrderly == ASSUME PInv, Patient, StartPush PROVE Orderly'
<1>0. TInv /\ Orderly /\ TInv' BY StartPushType DEF PInv, AInv
<1>1. Later = {} /\ ~Beyond /\ EndsOf(queue) = {} /\ active = 0 /\ what # "image"
  BY StartPushClear
<1>2. /\ begun + 1 \in Pushes /\ begun' = begun + 1 /\ begun \in Nat
      /\ active' = begun + 1 /\ seq' = 0 /\ wire'.push = begun + 1 /\ wire'.kind = what'
      /\ UNCHANGED <<staged, taken, armed>>
  BY <1>0, Bounds DEF StartPush, TInv, AppOK, Pushes, loopVars
<1>3. UNCHANGED <<trouble, linkUp, foreground, writerVars, loopVars, screenVars>> BY DEF StartPush
<1> DEFINE m == Msg("open", begun + 1, 0)
<1>4. m \in Messages /\ m.type = "open" /\ m.push = begun + 1 BY <1>2, Bounds, IsMessage
<1>5. queue \in Seq(Messages) /\ Len(queue) <= QueueLen BY <1>0 DEF TInv, QueueOK
<1>6. \/ queue' = Append(queue, m)
      \/ queue' = queue /\ (what' # "image" \/ failed')
  <2>1. PICK kind \in Kinds, a \in Abort(queue) :
           /\ what' = kind
           /\ \/ \E o \in Send(a.queue, m) : queue' = o.queue /\ failed' = ~o.sent
              \/ kind = "text" /\ queue' = a.queue
              \/ queue' = a.queue /\ failed' = TRUE
    BY DEF StartPush
  <2>2. a.queue = queue BY <1>1 DEF Abort
  <2>3. CASE kind = "text" /\ queue' = a.queue BY <2>1, <2>2, <2>3
  <2>4. CASE queue' = a.queue /\ failed' = TRUE BY <2>2, <2>4
  <2>5. CASE \E o \in Send(a.queue, m) : queue' = o.queue /\ failed' = ~o.sent
    <3>1. PICK o \in Send(queue, m) : queue' = o.queue /\ failed' = ~o.sent BY <2>2, <2>5
    <3>2. o.sent => o.queue = Append(queue, m) BY <1>4, <1>5, SendQueues
    <3>3. ~o.sent => o.queue = queue BY <1>4, <1>5, SendQueues
    <3>4. o.sent \in BOOLEAN BY <1>4, <1>5, SendQueues
    <3> QED BY <3>1, <3>2, <3>3, <3>4
  <2> QED BY <2>1, <2>3, <2>4, <2>5
<1> HIDE DEF m
<1>7. EndsOf(queue') = {} BY <1>1, <1>4, <1>5, <1>6, AppendEnds
<1>8. EndsOf(queue)' = EndsOf(queue) BY <1>1, <1>7 DEF EndsOf
<1>9. Later' = {} /\ ~Beyond' BY <1>1, <1>2, <1>8, LaterKept
<1>10. OneOut' BY <1>2, <1>9 DEF OneOut
<1>11. OneStager'
  <2>1. owner' = [owner EXCEPT ![begun + 1] = foreground] BY DEF StartPush
  <2>2. \A p \in 1 .. begun' : owner'[p] = foreground
    BY <1>0, <1>2, <2>1, Bounds DEF Orderly, OneStager, TInv, AppOK, Pushes
  <2>3. OneStager /\ UNCHANGED <<foreground, handed, loopAt, staging, open>>
    BY <1>0, <1>3 DEF Orderly, writerVars, loopVars, screenVars
  <2> QED BY <2>2, <2>3, StagerKept DEF OneStager
<1>12. Stream(queue) /\ Behind /\ PageKept BY <1>0 DEF Orderly
<1>13. Stream(queue)'
  <2>1. CASE queue' = queue
    BY <1>3, <1>9, <1>12, <2>1, StreamKept DEF writerVars
  <2>2. CASE queue' = Append(queue, m)
    <3>1. InOrder(queue') BY <1>4, <1>5, <1>12, <2>2, AppendInOrder DEF Stream, Follows
    <3>2. EndIsLast(queue') BY <1>1, <1>4, <1>5, <1>12, <2>2, AppendEndIsLast DEF Stream
    <3>3. HeadFits(queue'[1])
      <4>1. CASE queue = << >>
        <5>1. queue'[1] = m BY <1>4, <2>2, <4>1
        <5> QED BY <1>4, <5>1 DEF HeadFits
      <4>2. CASE queue # << >>
        <5>1. Len(queue) # 0 BY <1>5, <4>2
        <5>2. queue'[1] = queue[1] BY <1>4, <1>5, <2>2, <5>1
        <5> QED BY <1>12, <4>2, <5>2 DEF Stream
      <4> QED BY <4>1, <4>2
    <3> QED BY <1>3, <1>9, <3>1, <3>2, <3>3
        DEF Stream, InOrder, EndIsLast, HeadFits, Follows, Fills, Filled, PrefixOf, File, writerVars
  <2> QED BY <1>6, <2>1, <2>2
<1>14. Tip'
  <2> SUFFICES ASSUME what' = "image", ~failed' PROVE SentUpTo(queue, active, seq)' BY DEF Tip
  <2>1. queue' = Append(queue, m) BY <1>6
  <2>2. Len(queue') = Len(queue) + 1 /\ queue'[Len(queue')] = m /\ queue' # << >>
    BY <1>4, <1>5, <2>1
  <2> QED BY <1>2, <1>4, <2>2 DEF SentUpTo, Fills, Filled
<1>15. Linked' /\ Behind' /\ PageKept' /\ Asked' /\ (Apart' => PanelKept')
  BY <1>0, <1>3, HostKeeps
<1> QED BY <1>10, <1>11, <1>13, <1>14, <1>15 DEF Orderly

LEMMA LoseChunkOrderly == ASSUME PInv, Patient, LoseChunk PROVE Orderly'
<1>0. TInv /\ Orderly BY DEF PInv, AInv
<1>1. /\ UNCHANGED <<trouble, linkUp, foreground, owner, begun, writerVars, loopVars, screenVars>>
      /\ UNCHANGED <<queue, owed>>
      /\ UNCHANGED <<active, what, seq, gap, failed>>
      /\ wire'.push = wire.push /\ wire'.kind = wire.kind
  BY <1>0 DEF LoseChunk, FrameSent, hostVars, TInv, AppOK
<1>2. Later' = Later /\ Beyond' = Beyond BY <1>1, KeptEnds, LaterKept DEF loopVars
<1>3. OneOut' BY <1>0, <1>1, <1>2 DEF Orderly, OneOut
<1>4. Stream(queue)' BY <1>0, <1>1, <1>2, StreamKept DEF Orderly, writerVars
<1>5. Tip'
  BY <1>0, <1>1 DEF Orderly, Tip, SentUpTo, Fills, Filled, FileAt, PrefixOf, File, writerVars
<1> QED BY <1>0, <1>1, <1>3, <1>4, <1>5, HostKeeps DEF Orderly

(* While a push is on the air nothing is past the host task.               *)
LEMMA OnAirClear ==
  ASSUME Orderly, wire.push # 0
  PROVE  Later = {} /\ ~Beyond /\ EndsOf(queue) = {}
BY DEF Orderly, OneOut, Later, Beyond

(* The host task ends its image, or has none: nothing more is sent of it.  *)
LEMMA Untipped ==
  ASSUME what' # "image" \/ gap' \/ failed' PROVE Tip'
BY DEF Tip

LEMMA QueueStreams ==
  ASSUME TInv, Orderly, UNCHANGED <<trouble, linkUp, foreground, writerVars, loopVars, screenVars>>,
         \E a \in Abort(queue) : queue' = a.queue
  PROVE  Stream(queue)'
<1>1. PICK a \in Abort(queue) : queue' = a.queue OBVIOUS
<1>2. Stream(a.queue) BY AbortStreams DEF TInv, QueueOK, Orderly
<1>3. Stream(a.queue)' BY <1>2, HostKeeps
<1> QED BY <1>1, <1>3, StreamPrimed

LEMMA ChunkOrderly == ASSUME PInv, Patient, Chunk PROVE Orderly'
<1>0. TInv /\ Orderly BY DEF PInv, AInv
<1>1. /\ UNCHANGED <<trouble, linkUp, foreground, owner, begun, writerVars, loopVars, screenVars>>
      /\ UNCHANGED <<owed, active, what>> /\ wire.push # 0 /\ wire.next < End
      /\ wire'.push = wire.push /\ wire'.kind = wire.kind
  BY <1>0 DEF Chunk, FrameSent, hostVars, TInv, AppOK
<1>2. Later = {} /\ ~Beyond /\ EndsOf(queue) = {} BY <1>0, <1>1, OnAirClear
<1>3. EndsOf(queue)' = EndsOf(queue)
  <2>1. AInv /\ PInv BY DEF PInv
  <2> QED BY <1>0, <2>1, ChunkEnds
<1>4. Later' = Later /\ Beyond' = Beyond BY <1>1, <1>3, LaterKept DEF loopVars
<1>5. OneOut' BY <1>0, <1>1, <1>4 DEF Orderly, OneOut
<1>6. SUFFICES Stream(queue)' /\ Tip' BY <1>0, <1>1, <1>5, HostKeeps DEF Orderly
<1>7. CASE UNCHANGED <<hostVars, queue>>
  <2>1. Stream(queue)' BY <1>0, <1>1, <1>4, <1>7, StreamKept DEF Orderly, writerVars
  <2>2. Tip'
    BY <1>0, <1>1, <1>7
    DEF Orderly, Tip, SentUpTo, Fills, Filled, FileAt, PrefixOf, File, writerVars, hostVars
  <2> QED BY <2>1, <2>2
<1>8. CASE ~(active # wire.push \/ gap \/ failed)
  <2>1. CASE OutOfSequence(wire.next)
    <3>1. gap' = TRUE /\ \E a \in Abort(queue) : queue' = a.queue BY <1>8, <2>1 DEF Chunk
    <3>2. gap' BY <3>1
    <3> QED BY <1>0, <1>1, <3>1, <3>2, QueueStreams, Untipped
  <2>2. CASE ~OutOfSequence(wire.next) /\ what = "text"
    <3>1. queue' = queue BY <1>8, <2>2 DEF Chunk
    <3>2. Stream(queue)' BY <1>0, <1>1, <1>4, <3>1, StreamKept DEF Orderly, writerVars
    <3> QED BY <1>1, <2>2, <3>2, Untipped
  <2>3. CASE ~OutOfSequence(wire.next) /\ what # "text"
    <3>0. /\ what = "image" /\ active \in Pushes /\ wire.next \in 1 .. Chunks
          /\ wire.next = seq + 1
      BY <1>0, <1>1, <1>8, <2>3, KindAssumption, Bounds
      DEF OutOfSequence, TInv, HostOK, AppOK, Pushes, End
    <3> DEFINE m == Msg("chunk", active, wire.next)
    <3>1. PICK s \in Send(queue, m) :
             /\ failed' = ~s.sent
             /\ seq' = IF s.sent THEN seq + 1 ELSE seq
             /\ \E a \in (IF s.sent THEN {s} ELSE Abort(s.queue)) : queue' = a.queue
      BY <1>8, <2>3 DEF Chunk
    <3>2. m \in Messages /\ m.type = "chunk" /\ m.push = active /\ m.chunk = seq + 1
      BY <3>0, IsMessage
    <3>3. queue \in Seq(Messages) /\ Len(queue) <= QueueLen BY <1>0 DEF TInv, QueueOK
    <3>4. /\ s.sent \in BOOLEAN /\ (s.sent => s.queue = Append(queue, m))
          /\ (~s.sent => s.queue = queue)
      BY <3>2, <3>3, SendQueues
    <3>5. CASE ~s.sent
      <4>1. failed' BY <3>1, <3>5
      <4>2. \E a \in Abort(queue) : queue' = a.queue BY <3>1, <3>4, <3>5
      <4> QED BY <1>0, <1>1, <4>1, <4>2, QueueStreams, Untipped
    <3>6. CASE s.sent
      <4>1. queue' = Append(queue, m) /\ seq' = seq + 1 BY <3>1, <3>4, <3>6
      <4>2. SentUpTo(queue, active, seq) BY <1>0, <1>8, <3>0 DEF Orderly, Tip
      <4> HIDE DEF m
      <4>3. Stream(queue) BY <1>0 DEF Orderly
      <4>4. queue # << >> => Follows(queue[Len(queue)], m)
        BY <3>2, <4>2 DEF SentUpTo, Follows
      <4>5. InOrder(queue') BY <3>2, <3>3, <4>1, <4>3, <4>4, AppendInOrder DEF Stream
      <4>6. EndIsLast(queue') BY <1>2, <3>2, <3>3, <4>1, <4>3, AppendEndIsLast DEF Stream
      <4>7. HeadFits(queue'[1])
        <5>1. CASE queue = << >>
          <6>1. queue'[1] = m BY <3>2, <4>1, <5>1
          <6> QED BY <3>2, <4>2, <5>1, <6>1 DEF HeadFits, SentUpTo, FileAt
        <5>2. CASE queue # << >>
          <6>1. Len(queue) # 0 BY <3>3, <5>2
          <6>2. queue'[1] = queue[1] BY <3>2, <3>3, <4>1, <6>1
          <6> QED BY <4>3, <5>2, <6>2 DEF Stream
        <5> QED BY <5>1, <5>2
      <4>8. Stream(queue)'
        BY <1>1, <1>2, <1>4, <4>5, <4>6, <4>7
        DEF Stream, InOrder, EndIsLast, HeadFits, Follows, Fills, Filled, PrefixOf, File, writerVars
      <4>9. Len(queue') = Len(queue) + 1 /\ queue'[Len(queue')] = m /\ queue' # << >>
        BY <3>2, <3>3, <4>1
      <4>10. Tip' BY <1>1, <3>2, <4>1, <4>9 DEF Tip, SentUpTo, Fills, Filled
      <4> QED BY <4>8, <4>10
    <3> QED BY <3>4, <3>5, <3>6
  <2> QED BY <2>1, <2>2, <2>3
<1> QED BY <1>7, <1>8 DEF Chunk

LEMMA EndPushOrderly == ASSUME PInv, Patient, EndPush PROVE Orderly'
<1>0. TInv /\ Orderly BY DEF PInv, AInv
<1>1. /\ UNCHANGED <<trouble, linkUp, foreground, owner, begun, writerVars, loopVars, screenVars>>
      /\ wire.push # 0 /\ wire'.push = 0 /\ owed \subseteq owed'
      /\ (wire.kind = "image" => wire.push \in owed')
  BY DEF EndPush, NoWire
<1>2. Later = {} /\ ~Beyond /\ EndsOf(queue) = {} BY <1>0, <1>1, OnAirClear
<1>3. ~Beyond' BY <1>1, <1>2 DEF Beyond, loopVars
<1>4. SUFFICES OneOut' /\ Stream(queue)' /\ Tip' BY <1>0, <1>1, HostKeeps DEF Orderly
<1>5. ASSUME EndsOf(queue)' = {}, active' = 0 PROVE OneOut'
  <2>1. Later' = {} BY <1>1, <1>2, <1>5, LaterKept DEF loopVars
  <2> QED BY <1>1, <1>5, <2>1 DEF OneOut
<1>6. CASE active # wire.push
  <2>1. active = 0 /\ what # "image" BY <1>0, <1>6 DEF Orderly, OneOut, TInv, HostOK
  <2>2. UNCHANGED <<hostVars, queue>> BY <1>6 DEF EndPush
  <2>3. active' = 0 /\ what' # "image" BY <2>1, <2>2 DEF hostVars
  <2>4. EndsOf(queue)' = {} BY <1>2, <2>2, KeptEnds
  <2>5. Stream(queue)' BY <1>0, <1>1, <1>2, <1>3, <2>2, StreamKept DEF Orderly, writerVars
  <2> QED BY <1>5, <2>3, <2>4, <2>5, Untipped
<1>7. CASE active = wire.push
  <2>1. ResetHost /\ active' = 0 /\ what' # "image" BY <1>7 DEF EndPush, ResetHost
  <2>2. Tip' BY <2>1, Untipped
  <2>3. queue \in Seq(Messages) /\ Len(queue) <= QueueLen /\ Stream(queue)
    BY <1>0 DEF TInv, QueueOK, Orderly
  <2>4. CASE queue' = queue
    <3>1. EndsOf(queue)' = {} BY <1>2, <2>4, KeptEnds
    <3>2. Stream(queue)' BY <1>0, <1>1, <1>2, <1>3, <2>4, StreamKept DEF Orderly, writerVars
    <3> QED BY <1>5, <2>1, <2>2, <3>1, <3>2
  <2>5. CASE \E t \in Abort(queue) \cup {[queue |-> queue, sent |-> TRUE]} :
               \E a \in Abort(t.queue) : queue' = a.queue
    <3>1. PICK t \in Abort(queue) \cup {[queue |-> queue, sent |-> TRUE]} :
            \E a \in Abort(t.queue) : queue' = a.queue
      BY <2>5
    <3>2. /\ t.queue \in Seq(Messages) /\ Len(t.queue) <= QueueLen
          /\ Stream(t.queue) /\ EndsOf(t.queue) = {}
      BY <1>0, <1>2, <2>3, AbortStreams, AbortQueues, AbortEnds
    <3>3. PICK a \in Abort(t.queue) : queue' = a.queue BY <3>1
    <3>4. Stream(a.queue) /\ EndsOf(a.queue) = {} BY <1>0, <3>2, AbortStreams, AbortEnds
    <3>5. Stream(a.queue)' BY <1>0, <1>1, <3>4, HostKeeps
    <3>6. Stream(queue)' BY <3>3, <3>5, StreamPrimed
    <3>7. EndsOf(queue)' = {} BY <3>3, <3>4 DEF EndsOf
    <3> QED BY <1>5, <2>1, <2>2, <3>6, <3>7
  <2>6. CASE what # "text" /\ ~(gap \/ failed)
    <3> DEFINE m == Msg("end", active, 0)
    <3>1. PICK e \in Send(queue, m) : \E t \in (IF e.sent THEN {e} ELSE Abort(e.queue)) :
             \E a \in Abort(t.queue) : queue' = a.queue
      BY <1>7, <2>6 DEF EndPush, EndImage
    <3>2. /\ what = "image" /\ active \in Pushes /\ active = begun /\ wire.kind = "image"
      BY <1>0, <1>1, <1>7, <2>6, KindAssumption, Bounds
      DEF TInv, HostOK, Pushes, Orderly, OneOut
    <3>3. m \in Messages /\ m.type = "end" /\ m.push = active BY <3>2, Bounds, IsMessage
    <3>4. /\ e.sent \in BOOLEAN /\ e.queue \in Seq(Messages) /\ Len(e.queue) <= QueueLen
          /\ (e.sent => e.queue = Append(queue, m)) /\ (~e.sent => e.queue = queue)
      BY <2>3, <3>3, SendQueues
    <3>5. CASE ~e.sent BY <2>5, <3>1, <3>4, <3>5
    <3>6. CASE e.sent
      <4>1. PICK a \in Abort(e.queue) : queue' = a.queue BY <3>1, <3>6
      <4>2. e.queue = Append(queue, m) BY <3>4, <3>6
      <4> HIDE DEF m
      <4>3. SentUpTo(queue, active, seq) BY <1>0, <2>6, <3>2 DEF Orderly, Tip
      <4>4. queue # << >> => Follows(queue[Len(queue)], m)
        BY <3>3, <4>3 DEF SentUpTo, Follows
      <4>5. InOrder(e.queue) BY <2>3, <3>3, <4>2, <4>4, AppendInOrder DEF Stream
      <4>6. EndIsLast(e.queue) BY <1>2, <2>3, <3>3, <4>2, AppendEndIsLast DEF Stream
      <4>7. HeadFits(e.queue[1])
        <5>1. CASE queue = << >>
          <6>1. e.queue[1] = m BY <3>3, <4>2, <5>1
          <6> QED BY <3>3, <4>3, <5>1, <6>1 DEF HeadFits, SentUpTo, FileAt
        <5>2. CASE queue # << >>
          <6>1. Len(queue) # 0 BY <2>3, <5>2
          <6>2. e.queue[1] = queue[1] BY <2>3, <3>3, <4>2, <6>1
          <6> QED BY <2>3, <5>2, <6>2 DEF Stream
        <5> QED BY <5>1, <5>2
      <4>8. Stream(e.queue) BY <1>2, <4>5, <4>6, <4>7 DEF Stream
      <4>9. EndsOf(e.queue) = {active} BY <1>2, <2>3, <3>3, <4>2, AppendEnds
      <4>10. Stream(a.queue) /\ EndsOf(a.queue) = {active}
        BY <1>0, <3>4, <4>8, <4>9, AbortStreams, AbortEnds
      <4>11. Stream(a.queue)' BY <1>0, <1>1, <4>10, HostKeeps
      <4>12. Stream(queue)' BY <4>1, <4>11, StreamPrimed
      <4>13. EndsOf(queue)' = {active} BY <4>1, <4>10 DEF EndsOf
      <4>14. Later' = {active} BY <1>3, <4>13 DEF Later, Beyond
      <4>15. OneOut' BY <1>1, <1>7, <2>1, <3>2, <4>14 DEF OneOut
      <4> QED BY <2>2, <4>12, <4>15
    <3> QED BY <3>4, <3>5, <3>6
  <2>7. CASE what = "text" BY <1>7, <2>4, <2>7 DEF EndPush, EndText
  <2>8. CASE what # "text" /\ (gap \/ failed)
    <3> DEFINE t == [queue |-> queue, sent |-> TRUE]
    <3>1. t.queue = queue OBVIOUS
    <3>2. \E a \in Abort(queue) : queue' = a.queue BY <1>7, <2>8 DEF EndPush, EndImage
    <3>3. \E a \in Abort(t.queue) : queue' = a.queue BY <3>1, <3>2
    <3> QED BY <2>5, <3>3
  <2> QED BY <2>6, <2>7, <2>8
<1> QED BY <1>6, <1>7

LEMMA PushAssetOrderly == ASSUME PInv, Patient, PushAsset PROVE Orderly'
<1>0. TInv /\ Orderly BY DEF PInv, AInv
<1>1. /\ UNCHANGED <<trouble, linkUp, foreground, owner, begun, writerVars, loopVars, screenVars>>
      /\ UNCHANGED <<wire, owed>>
      /\ active' = 0 /\ what' # "image" /\ \E a \in Abort(queue) : queue' = a.queue
  BY DEF PushAsset, ResetHost, appVars
<1>2. EndsOf(queue)' = EndsOf(queue) BY <1>0, <1>1, AbortedEnds
<1>3. Later' = Later BY <1>1, <1>2, LaterKept DEF loopVars
<1>4. OneOut' BY <1>0, <1>1, <1>3 DEF Orderly, OneOut
<1> QED BY <1>0, <1>1, <1>4, HostKeeps, QueueStreams, Untipped DEF Orderly

----------------------------------------------------------------------------
(* The writer. *)

LEMMA WriterKeeps ==
  ASSUME PInv, Patient, Writer
  PROVE  /\ TInv /\ Orderly /\ File' = incoming'[foreground]
         /\ foreground \in Apps /\ NoApp \notin Apps /\ incoming \in [Apps -> Files]
         /\ UNCHANGED <<trouble, linkUp, foreground, owner, begun, wire, owed, active, what, seq, gap,
                        failed, loopAt, taken, connected, shown, armed, drawing, panel, gallery, handed>>
         /\ queue \in Seq(Messages) /\ queue # << >> /\ queue' = Tail(queue) /\ Head(queue) = queue[1]
         /\ Linked' /\ Asked'
<1>1. TInv /\ Orderly BY DEF PInv, AInv
<1>2. /\ UNCHANGED <<trouble, linkUp, foreground, owner, begun, wire, owed, active, what, seq, gap,
                     failed, loopAt, taken, connected, shown, armed, drawing, panel>>
      /\ UNCHANGED <<handed, holder, screen, due, tagsOnly, gallery>>
      /\ queue # << >> /\ queue' = Tail(queue)
  BY DEF Writer, WriterOpen, WriterChunk, WriterEnd, WriterAbort, Receive, appVars, hostVars, loopVars,
         screenVars
<1>3. queue \in Seq(Messages) /\ Head(queue) = queue[1] BY <1>1, <1>2 DEF TInv, QueueOK
<1>4. foreground \in Apps /\ NoApp \notin Apps /\ incoming \in [Apps -> Files]
  BY <1>1, AppsAssumption DEF Orderly, OneStager, TInv, WriterOK
<1>5. Linked' BY <1>1, <1>2 DEF Orderly, Linked
<1>6. Asked'
  <2>1. Asked BY <1>1 DEF Orderly
  <2> QED BY <1>2, <2>1, AskedKept
<1> QED BY <1>1, <1>2, <1>3, <1>4, <1>5, <1>6 DEF File

(* The picture that is being drawn is not in the file the writer writes.   *)
LEMMA PanelWritten ==
  ASSUME TInv, Orderly, UNCHANGED <<trouble, foreground, drawing, panel, shown, armed>>,
         ~Beyond \/ incoming' = incoming
  PROVE  Apart' => PanelKept'
<1> SUFFICES ASSUME Apart PROVE PanelKept' BY DEF Apart
<1>1. PanelKept /\ PageKept BY DEF Orderly
<1>2. drawing' => drawing BY Zenon
<1>3. ASSUME drawing PROVE Picture' = Picture
  <2>1. CASE incoming' = incoming BY <2>1 DEF Picture, File
  <2>2. CASE ~Beyond
    <3>1. shown.push # 0 BY <1>3 DEF TInv, LoopOK
    <3>2. armed = 0 BY <2>2 DEF Beyond
    <3>3. "card" \notin trouble BY <1>1, <1>3, <3>2 DEF PanelKept
    <3>4. shown.moved BY <1>1, <3>1, <3>3 DEF PageKept, Readable
    <3> QED BY <3>4 DEF Picture
  <2> QED BY <2>1, <2>2
<1>4. ASSUME drawing' PROVE /\ panel'.push = shown'.push /\ Picture' = panel'.base
                            /\ "card" \in trouble' => armed' # 0
  <2>1. drawing BY <1>2, <1>4
  <2> QED BY <1>1, <1>3, <2>1 DEF PanelKept
<1>5. panel.push # 0 => panel.base = Whole(panel.push) /\ (drawing \/ panel.grey = panel.base)
  BY <1>1 DEF PanelKept
<1>6. drawing => drawing' BY Zenon
<1>7. panel'.push # 0 => panel'.base = Whole(panel'.push) /\ (drawing' \/ panel'.grey = panel'.base)
  BY <1>5, <1>6 DEF Whole
<1> QED BY <1>4, <1>7 DEF PanelKept

(* What the writer leaves of the queue is in order, when the file is where *)
(* the message it has dealt with left it.                                  *)
LEMMA RestStreams ==
  ASSUME PInv, Patient, Writer, NEW m, m = queue[1],
         Beyond' => Beyond \/ m.type = "end",
         Fills(m) => FileAt(m.push, Filled(m))',
         ~Fills(m) => open' = "no"
  PROVE  Stream(queue)' /\ Tip'
<1>0. TInv /\ Orderly /\ Stream(queue) /\ Tip BY WriterKeeps DEF Orderly
<1>1. /\ queue \in Seq(Messages) /\ queue # << >> /\ queue' = Tail(queue)
      /\ UNCHANGED <<active, what, seq, gap, failed>>
  BY WriterKeeps
<1> DEFINE r == Tail(queue)
<1>2. /\ InOrder(r) /\ EndIsLast(r)
      /\ OnlyAborts(queue) => OnlyAborts(r)
      /\ m.type = "end" => OnlyAborts(r)
      /\ r # << >> => Follows(m, r[1]) /\ r[Len(r)] = queue[Len(queue)]
      /\ r = << >> => queue[Len(queue)] = m
  BY <1>0, <1>1, TailOrder DEF Stream
<1> HIDE DEF r
<1>3. queue' = r BY <1>1 DEF r
<1>4. Beyond' => OnlyAborts(r) BY <1>0, <1>2 DEF Stream
<1>5. ASSUME r # << >>, open' = "staging", r[1].type \in {"chunk", "end"}
      PROVE  PrefixOf(File', r[1].push) /\ (r[1].type = "chunk" => r[1].chunk = Len(File') + 1)
  <2>1. /\ Fills(m) /\ m.push = r[1].push
        /\ (r[1].type = "chunk" => r[1].chunk = Filled(m) + 1)
    BY <1>2, <1>5 DEF Follows
  <2> QED BY <1>5, <2>1 DEF FileAt, File, PrefixOf
<1>6. Stream(queue)'
  BY <1>2, <1>3, <1>4, <1>5
  DEF Stream, InOrder, EndIsLast, OnlyAborts, HeadFits, Follows, Fills, Filled, File, PrefixOf
<1>7. Tip'
  <2> SUFFICES ASSUME what = "image", ~gap, ~failed PROVE SentUpTo(queue, active, seq)'
    BY <1>1 DEF Tip
  <2>1. LET last == queue[Len(queue)] IN Fills(last) /\ last.push = active /\ Filled(last) = seq
    BY <1>0, <1>1 DEF Tip, SentUpTo
  <2>2. CASE r # << >> BY <1>1, <1>2, <1>3, <2>1, <2>2 DEF SentUpTo, Fills, Filled
  <2>3. CASE r = << >>
    <3>1. Fills(m) /\ m.push = active /\ Filled(m) = seq
      BY <1>2, <2>1, <2>3
    <3>2. open' = "staging" => PrefixOf(File', active) /\ Len(File') = seq
      BY <3>1 DEF FileAt, File, PrefixOf
    <3> QED BY <1>1, <1>3, <2>3, <3>2 DEF SentUpTo, FileAt, File, PrefixOf
  <2> QED BY <2>2, <2>3
<1> QED BY <1>6, <1>7

(* With no push past the queue, the page does not depend on the file.      *)
LEMMA PageClear ==
  ASSUME TInv, PageKept, ~Beyond,
         UNCHANGED <<trouble, foreground, loopAt, taken, shown, armed, staged, gallery>>
  PROVE  PageKept'
<1>1. staged = 0 /\ armed = 0 /\ loopAt \notin {"move", "arm"}
  BY DEF Beyond, TInv, LoopOK
<1>2. ASSUME shown.push # 0, "card" \notin trouble
      PROVE  shown.moved /\ PrefixOf(shown.file, shown.push)
  BY <1>2 DEF PageKept, Readable, Picture
<1>3. gallery[foreground].push # 0 =>
        gallery[foreground].moved /\ PrefixOf(gallery[foreground].file, gallery[foreground].push)
  BY DEF PageKept
<1> QED BY <1>1, <1>2, <1>3 DEF PageKept, Readable, Picture, PrefixOf

LEMMA WriterOneOut ==
  ASSUME PInv, Patient, Writer, Later' \subseteq Later PROVE OneOut'
BY WriterKeeps DEF Orderly, OneOut

LEMMA WriterLater ==
  ASSUME PInv, Patient, Writer, staged' = staged
  PROVE  Later' \subseteq Later /\ Beyond' = Beyond
<1>1. EndsOf(queue)' \subseteq EndsOf(queue)
  BY WriterKeeps, ReceivedEnds DEF Writer, WriterOpen, WriterChunk, WriterEnd, WriterAbort
<1> QED BY <1>1, WriterKeeps DEF Later, Beyond

LEMMA WriterOpenOrderly == ASSUME PInv, Patient, WriterOpen PROVE Orderly'
<1>0. TInv /\ Orderly /\ Writer BY DEF PInv, AInv, Writer
<1>1. /\ queue \in Seq(Messages) /\ queue # << >> /\ Head(queue) = queue[1]
      /\ UNCHANGED <<trouble, foreground, owner, begun, loopAt, taken, shown, armed, gallery>>
      /\ UNCHANGED <<handed, drawing, panel>>
  BY <1>0, WriterKeeps
<1>2. PICK m : m = queue[1] /\ m.type = "open" /\ m = Head(queue)
  BY <1>1 DEF WriterOpen, Receive
<1>3. Len(queue) # 0 /\ 1 \in 1 .. Len(queue)
  <2>1. Len(queue) # 0 BY <1>1
  <2> QED BY <1>1, <2>1
<1>4. ~Beyond BY <1>0, <1>2, <1>3 DEF Orderly, Stream, OnlyAborts
<1>5. staged' = staged BY DEF WriterOpen, loopVars
<1>6. Later' \subseteq Later /\ Beyond' = Beyond BY <1>0, <1>5, WriterLater
<1>7. owner[m.push] = foreground BY <1>0, <1>1, <1>2, HeadMessage DEF Orderly, OneStager
<1> DEFINE old == IF open # "no" THEN Discarded ELSE incoming
<1>8. \/ /\ open' = "staging" /\ staging' = foreground
         /\ incoming' = [old EXCEPT ![foreground] = << >>]
      \/ open' = "no" /\ staging' = NoApp
  BY <1>2, <1>7 DEF WriterOpen
<1>9. OneStager'
  <2>1. OneStager /\ loopAt' # "apply" /\ UNCHANGED <<foreground, handed>>
        /\ \A p \in 1 .. begun' : owner'[p] = foreground
    BY <1>0, <1>1 DEF Orderly, OneStager
  <2> QED BY <1>8, <2>1, StagerKept
<1>10. open' = "staging" => File' = << >>
  <2>1. old \in [Apps -> Files] BY <1>0, DiscardedType DEF TInv, WriterOK
  <2>2. foreground \in Apps BY <1>0, WriterKeeps
  <2> QED BY <1>1, <1>8, <2>1, <2>2 DEF File
<1>11. FileAt(m.push, Filled(m))'
  <2>1. << >> \in Written /\ Len(<< >>) = 0 BY DEF Written
  <2> QED BY <1>2, <1>10, <2>1 DEF FileAt, PrefixOf, File, Filled
<1>12. Stream(queue)' /\ Tip' BY <1>0, <1>2, <1>6, <1>11, RestStreams DEF Fills
<1>13. PageKept' BY <1>0, <1>1, <1>4, <1>5, PageClear DEF Orderly
<1>14. Behind' BY <1>4, <1>6, <1>8 DEF Behind
<1>15. OneOut' BY <1>0, <1>6, WriterOneOut
<1>16. Apart' => PanelKept' BY <1>0, <1>1, <1>4, PanelWritten
<1> QED BY <1>0, <1>9, <1>12, <1>13, <1>14, <1>15, <1>16, WriterKeeps DEF Orderly

LEMMA WriterChunkOrderly == ASSUME PInv, Patient, WriterChunk PROVE Orderly'
<1>0. TInv /\ Orderly /\ Writer BY DEF PInv, AInv, Writer
<1>1. /\ queue \in Seq(Messages) /\ queue # << >> /\ Head(queue) = queue[1]
      /\ UNCHANGED <<trouble, foreground, owner, begun, loopAt, taken, shown, armed, gallery>>
      /\ UNCHANGED <<handed, drawing, panel>>
      /\ foreground \in Apps /\ incoming \in [Apps -> Files]
  BY <1>0, WriterKeeps
<1>2. PICK m : m = queue[1] /\ m.type = "chunk" /\ m = Head(queue)
  BY <1>1 DEF WriterChunk, Receive
<1>3. Len(queue) # 0 /\ 1 \in 1 .. Len(queue)
  <2>1. Len(queue) # 0 BY <1>1
  <2> QED BY <1>1, <2>1
<1>4. ~Beyond BY <1>0, <1>2, <1>3 DEF Orderly, Stream, OnlyAborts
<1>5. staged' = staged BY DEF WriterChunk, loopVars
<1>6. Later' \subseteq Later /\ Beyond' = Beyond BY <1>0, <1>5, WriterLater
<1>7. \/ open = "no" /\ open' = "no" /\ staging' = staging
      \/ open' = "no" /\ staging' = NoApp
      \/ /\ open = "staging" /\ open' = "staging" /\ staging = foreground /\ staging' = staging
         /\ incoming' = [incoming EXCEPT ![foreground] = Append(@, <<m.push, m.chunk>>)]
  BY <1>0, <1>2 DEF WriterChunk, writerVars, TInv, WriterOK, Orderly, Behind, OneStager
<1>8. OneStager'
  <2>1. OneStager /\ loopAt' # "apply" /\ UNCHANGED <<foreground, handed>>
        /\ \A p \in 1 .. begun' : owner'[p] = foreground
    BY <1>0, <1>1 DEF Orderly, OneStager
  <2>2. staging' = IF open' = "no" THEN NoApp ELSE foreground BY <1>7, <2>1 DEF OneStager
  <2> QED BY <2>1, <2>2, StagerKept
<1>9. FileAt(m.push, Filled(m))'
  <2> SUFFICES ASSUME open' = "staging" PROVE PrefixOf(File', m.push) /\ Len(File') = m.chunk
    BY <1>2 DEF FileAt, PrefixOf, File, Filled
  <2>1. open = "staging" /\ File' = Append(File, <<m.push, m.chunk>>) BY <1>1, <1>7 DEF File
  <2>2. PrefixOf(File, m.push) /\ m.chunk = Len(File) + 1
    BY <1>0, <1>1, <1>2, <2>1 DEF Orderly, Stream, HeadFits
  <2>3. m.push \in Pushes /\ m.chunk \in 1 .. Chunks BY <1>0, <1>1, <1>2, HeadMessage
  <2>4. /\ Append(File, <<m.push, m.chunk>>) \in Written
        /\ Len(Append(File, <<m.push, m.chunk>>)) = Len(File) + 1
    BY <2>2, <2>3 DEF PrefixOf, Written
  <2>5. ASSUME NEW k \in 1 .. Len(File) + 1
        PROVE  Append(File, <<m.push, m.chunk>>)[k] = <<m.push, k>>
    BY <2>2, <2>3 DEF PrefixOf, Written
  <2> QED BY <2>1, <2>2, <2>4, <2>5 DEF PrefixOf
<1>10. Stream(queue)' /\ Tip' BY <1>0, <1>2, <1>6, <1>9, RestStreams DEF Fills
<1>11. PageKept' BY <1>0, <1>1, <1>4, <1>5, PageClear DEF Orderly
<1>12. Behind' BY <1>4, <1>6, <1>7 DEF Behind
<1>13. OneOut' BY <1>0, <1>6, WriterOneOut
<1>14. Apart' => PanelKept' BY <1>0, <1>1, <1>4, PanelWritten
<1> QED BY <1>0, <1>8, <1>10, <1>11, <1>12, <1>13, <1>14, WriterKeeps DEF Orderly

LEMMA WriterEndOrderly == ASSUME PInv, Patient, WriterEnd PROVE Orderly'
<1>0. TInv /\ Orderly /\ Writer BY DEF PInv, AInv, Writer
<1>1. /\ queue \in Seq(Messages) /\ queue # << >> /\ Head(queue) = queue[1]
      /\ UNCHANGED <<trouble, foreground, owner, begun, loopAt, taken, shown, armed, gallery>>
      /\ UNCHANGED <<handed, drawing, panel>>
  BY <1>0, WriterKeeps
<1>2. PICK m : m = queue[1] /\ m.type = "end" /\ m = Head(queue)
  BY <1>1 DEF WriterEnd, Receive
<1>3. Len(queue) # 0 /\ 1 \in 1 .. Len(queue)
  <2>1. Len(queue) # 0 BY <1>1
  <2> QED BY <1>1, <2>1
<1>4. ~Beyond BY <1>0, <1>2, <1>3 DEF Orderly, Stream, OnlyAborts
<1>5. m.push \in EndsOf(queue) /\ EndsOf(queue)' \subseteq EndsOf(queue)
  BY <1>0, <1>2, ReceivedEnds DEF WriterEnd
<1>6. /\ incoming' = incoming /\ open' = "no"
      /\ \/ open = "no" /\ staging' = staging /\ staged' = staged
         \/ open = "staging" /\ staging' = NoApp /\ staged' = m.push
  BY <1>0, <1>2 DEF WriterEnd, TInv, WriterOK, Orderly, Behind
<1>7. Later' \subseteq Later BY <1>1, <1>5, <1>6 DEF Later
<1>8. Stream(queue)' /\ Tip' BY <1>0, <1>2, <1>6, RestStreams DEF Fills
<1>9. OneStager'
  <2>1. OneStager /\ loopAt' # "apply" /\ UNCHANGED <<foreground, handed>>
        /\ \A p \in 1 .. begun' : owner'[p] = foreground
    BY <1>0, <1>1 DEF Orderly, OneStager
  <2>2. staging' = IF open' = "no" THEN NoApp ELSE foreground BY <1>6, <2>1 DEF OneStager
  <2> QED BY <2>1, <2>2, StagerKept
<1>10. Behind' BY <1>6 DEF Behind
<1>11. OneOut' BY <1>0, <1>7, WriterOneOut
<1>12. PageKept'
  <2>1. CASE staged' = staged BY <1>0, <1>1, <1>4, <2>1, PageClear DEF Orderly
  <2>2. CASE open = "staging" /\ staged' = m.push
    <3>1. PrefixOf(File, m.push) BY <1>0, <1>1, <1>2, <2>2 DEF Orderly, Stream, HeadFits
    <3>2. PrefixOf(File, staged)' BY <1>1, <1>6, <2>2, <3>1 DEF PrefixOf, File
    <3>3. armed = 0 /\ loopAt \notin {"move", "arm"} BY <1>0, <1>4 DEF Beyond, TInv, LoopOK
    <3>4. PageKept /\ UNCHANGED <<trouble, foreground, incoming, loopAt, taken, shown, armed, gallery>>
      BY <1>0, <1>1, <1>6 DEF Orderly
    <3> QED BY <3>2, <3>3, <3>4 DEF PageKept, Readable, Picture, PrefixOf, File
  <2> QED BY <1>6, <2>1, <2>2
<1>13. Apart' => PanelKept' BY <1>0, <1>1, <1>4, PanelWritten
<1> QED BY <1>0, <1>8, <1>9, <1>10, <1>11, <1>12, <1>13, WriterKeeps DEF Orderly

LEMMA WriterAbortOrderly == ASSUME PInv, Patient, WriterAbort PROVE Orderly'
<1>0. TInv /\ Orderly /\ Writer BY DEF PInv, AInv, Writer
<1>1. /\ queue \in Seq(Messages) /\ queue # << >> /\ Head(queue) = queue[1]
      /\ UNCHANGED <<trouble, foreground, owner, begun, loopAt, taken, shown, armed, gallery>>
      /\ UNCHANGED <<handed, drawing, panel>>
  BY <1>0, WriterKeeps
<1>2. PICK m : m = queue[1] /\ m.type = "abort" /\ m = Head(queue)
  BY <1>1 DEF WriterAbort, Receive
<1>3. open' = "no" /\ staging' = NoApp /\ incoming' = Discarded /\ staged' = staged
  BY DEF WriterAbort, loopVars
<1>4. Later' \subseteq Later /\ Beyond' = Beyond BY <1>0, <1>3, WriterLater
<1>5. Stream(queue)' /\ Tip' BY <1>0, <1>2, <1>3, <1>4, RestStreams DEF Fills
<1>6. OneStager'
  <2>1. OneStager /\ loopAt' # "apply" /\ UNCHANGED <<foreground, handed>>
        /\ \A p \in 1 .. begun' : owner'[p] = foreground
    BY <1>0, <1>1 DEF Orderly, OneStager
  <2> QED BY <1>3, <2>1, StagerKept
<1>7. Behind' BY <1>3 DEF Behind
<1>8. OneOut' BY <1>0, <1>4, WriterOneOut
<1>9. ~Beyond \/ incoming' = incoming
  BY <1>0, <1>3 DEF Orderly, Behind, OneStager, Discarded
<1>10. PageKept'
  <2>1. CASE ~Beyond BY <1>0, <1>1, <1>3, <2>1, PageClear DEF Orderly
  <2>2. CASE incoming' = incoming BY <1>0, <1>1, <1>3, <2>2, PageStays DEF Orderly
  <2> QED BY <1>9, <2>1, <2>2
<1>11. Apart' => PanelKept' BY <1>0, <1>1, <1>9, PanelWritten
<1> QED BY <1>0, <1>5, <1>6, <1>7, <1>8, <1>10, <1>11, WriterKeeps DEF Orderly

----------------------------------------------------------------------------
(* The main loop and the render task. *)

LEMMA WholePrefix ==
  ASSUME NEW f, NEW p, PrefixOf(f, p), Decodes(f) PROVE f = Whole(p)
<1>1. f \in Seq(Pushes \X (1 .. Chunks)) /\ Len(f) = Chunks
  BY DEF PrefixOf, Written, Decodes
<1>2. \A k \in 1 .. Chunks : f[k] = <<p, k>> BY <1>1 DEF PrefixOf
<1> QED BY <1>1, <1>2 DEF Whole

(* What neither the host task nor the writer does.                         *)
LEMMA RestKept ==
  ASSUME Orderly,
         UNCHANGED <<trouble, linkUp, connected, foreground, owner, begun, wire, owed,
                     active, what, seq, gap, failed, queue, staging, holder, handed>>,
         open' = open, incoming' # incoming => open = "no", loopAt' # "apply",
         Later' \subseteq Later, Beyond' => Beyond
  PROVE  Linked' /\ OneStager' /\ OneOut' /\ Behind' /\ Stream(queue)' /\ Tip'
<1> USE DEF Orderly
<1>1. Linked' BY DEF Linked
<1>2. OneStager' BY StagerKept DEF OneStager
<1>3. OneOut' BY DEF OneOut
<1>4. Behind' BY DEF Behind
<1>5. Stream(queue)'
  BY DEF Stream, InOrder, EndIsLast, HeadFits, OnlyAborts, Follows, Fills, Filled, PrefixOf, File
<1>6. Tip'
  BY DEF Tip, SentUpTo, FileAt, Fills, Filled, PrefixOf, File
<1> QED BY <1>1, <1>2, <1>3, <1>4, <1>5, <1>6

LEMMA PanelKeptOn ==
  ASSUME Orderly, ~drawing, UNCHANGED <<trouble, drawing, panel>> PROVE Apart' => PanelKept'
<1>1. Apart' => PanelKept BY DEF Orderly, Apart
<1>2. ~drawing' BY Zenon
<1> QED BY <1>1, <1>2 DEF PanelKept

(* Nothing is drawn that was not, and what is asked for is drawn for one   *)
(* that is armed, or draws no picture.                                     *)
LEMMA NotAsked ==
  ASSUME ~drawing, drawing' = drawing, screen' # "image" \/ tagsOnly' = TRUE \/ armed' # 0
  PROVE  Asked'
<1>1. ~drawing' BY Zenon
<1>2. tagsOnly' = TRUE => tagsOnly' BY Zenon
<1> QED BY <1>1, <1>2, Zenon DEF Asked

LEMMA DrainOrderly == ASSUME PInv, Patient, Drain PROVE Orderly'
<1>0. TInv /\ Orderly BY DEF PInv, AInv
<1>1. ~handed /\ loopAt = "drain" BY <1>0 DEF Orderly, OneStager, Drain
<1>2. /\ staged # 0 /\ staged' = 0 /\ taken'.push = staged /\ loopAt' = "move" /\ holder' = holder
      /\ UNCHANGED <<trouble, linkUp, connected, foreground, owner, begun, wire, owed, active, what,
                     seq, gap, failed, queue, open, staging, incoming, shown, armed, drawing, panel,
                     screen, due, tagsOnly, gallery>>
  BY <1>1 DEF Drain, NoPage, appVars, hostVars, writerVars
<1>3. handed' = handed
  <2>1. handed = FALSE BY <1>0, <1>1 DEF TInv, ScreenOK
  <2> QED BY <2>1 DEF Drain
<1>4. Later' \subseteq Later /\ (Beyond' => Beyond)
  BY <1>0, <1>1, <1>2, KeptEnds DEF Later, Beyond
<1>5. PageKept'
  BY <1>0, <1>1, <1>2 DEF Orderly, PageKept, Readable, Picture, PrefixOf, File
<1>6. Asked' BY <1>0, <1>2, AskedKept DEF Orderly
<1>7. Apart' => PanelKept' BY <1>0, <1>2, PanelWritten
<1>8. Linked' /\ OneStager' /\ OneOut' /\ Behind' /\ Stream(queue)' /\ Tip'
  BY <1>0, <1>2, <1>3, <1>4, RestKept
<1> QED BY <1>5, <1>6, <1>7, <1>8 DEF Orderly

LEMMA MoveStagedOrderly == ASSUME PInv, Patient, MoveStaged PROVE Orderly'
<1>0. TInv /\ AInv /\ Orderly BY DEF PInv, AInv
<1>1. /\ loopAt = "move"
      /\ UNCHANGED <<trouble, linkUp, connected, foreground, owner, begun, wire, owed, active, what,
                     seq, gap, failed, queue, staging, staged, armed, drawing, panel, handed, holder,
                     screen, due, tagsOnly>>
  BY DEF MoveStaged, appVars, hostVars
<1>2. taken.push # 0 /\ taken.push \in 1 .. begun /\ Beyond /\ open = "no"
  BY <1>0, <1>1, Bounds DEF TInv, LoopOK, AppOK, Beyond, Orderly, Behind, Pages
<1>3. staged = 0 /\ armed = 0
  <2>1. taken.push = begun /\ (staged # 0 => staged = begun) /\ (armed # 0 => armed = begun)
    BY <1>0, <1>2 DEF Orderly, OneOut, Later
  <2> QED BY <1>0, <1>2, <2>1 DEF AInv, OnePlace
<1>4. owner[taken.push] = foreground /\ PrefixOf(File, taken.push)
  BY <1>0, <1>1, <1>2 DEF Orderly, OneStager, PageKept
<1> DEFINE page(m) == [push |-> taken.push, file |-> File, moved |-> m]
<1>5. PICK c \in Commits(File) :
       /\ incoming' = IF c.moved THEN [incoming EXCEPT ![foreground] = Missing] ELSE incoming
       /\ open' = IF c.moved /\ open = "staging" /\ staging = foreground THEN "adrift" ELSE open
       /\ gallery' = IF c.listed THEN [gallery EXCEPT ![foreground] = page(c.moved)]
                     ELSE IF c.lost THEN [gallery EXCEPT ![foreground] = NoPage] ELSE gallery
       /\ shown' = shown \/ "card" \in trouble
       /\ IF Decodes(File)
          THEN taken' = page(c.moved) /\ loopAt' = "arm"
          ELSE taken' = NoPage /\ loopAt' = "drain"
  BY <1>4, MoveStagedOutcome DEF File
<1>6. /\ c.moved \in BOOLEAN /\ c.listed \in BOOLEAN /\ (c.listed => c.moved)
      /\ File # Missing /\ "card" \notin trouble => c.moved /\ c.listed
  BY CommitKinds
<1>7. /\ page(c.moved).push = taken.push /\ page(c.moved).file = File
      /\ page(c.moved).moved = c.moved
  OBVIOUS
<1> HIDE DEF page
<1>8. taken'.push \in {0, taken.push} BY <1>5, <1>7 DEF NoPage
<1>9. Later' \subseteq Later BY <1>1, <1>2, <1>8, KeptEnds DEF Later
<1>10. foreground \in Apps /\ gallery \in [Apps -> Pages] /\ open' = open
  BY <1>0, <1>2, <1>5 DEF Orderly, OneStager, TInv, ScreenOK
<1>11. gallery'[foreground] \in {gallery[foreground], NoPage}
       \/ (c.listed /\ gallery'[foreground] = page(c.moved))
  BY <1>5, <1>6, <1>10
<1>12. gallery'[foreground].push # 0 =>
         gallery'[foreground].moved /\ PrefixOf(gallery'[foreground].file, gallery'[foreground].push)
  <2>1. CASE gallery'[foreground] = gallery[foreground] BY <1>0, <2>1 DEF Orderly, PageKept
  <2>2. CASE gallery'[foreground] = NoPage BY <2>2 DEF NoPage
  <2>3. CASE c.listed /\ gallery'[foreground] = page(c.moved)
    <3>1. gallery'[foreground].moved = c.moved /\ c.moved BY <1>6, <1>7, <2>3
    <3>2. gallery'[foreground].moved BY <3>1, Zenon
    <3> QED BY <1>4, <1>7, <2>3, <3>2
  <2> QED BY <1>11, <2>1, <2>2, <2>3
<1>13. ASSUME shown'.push # 0, "card" \notin trouble PROVE Readable'
  <2>1. shown' = shown /\ Readable BY <1>0, <1>5, <1>13 DEF Orderly, PageKept
  <2>2. shown.moved /\ PrefixOf(shown.file, shown.push) BY <1>13, <2>1 DEF Readable, Picture
  <2> QED BY <2>1, <2>2 DEF Readable, Picture, PrefixOf
<1>14. ASSUME loopAt' = "arm"
       PROVE  /\ PrefixOf(taken'.file, taken'.push)
              /\ ~taken'.moved => File' = taken'.file
              /\ "card" \notin trouble => taken'.moved /\ gallery'[foreground] = taken'
  <2>1. Decodes(File) /\ taken' = page(c.moved) BY <1>5, <1>14
  <2>2. File # Missing BY <2>1 DEF Decodes
  <2>3. PrefixOf(taken'.file, taken'.push) BY <1>4, <1>7, <2>1
  <2>4. ASSUME ~taken'.moved PROVE File' = taken'.file
    <3>1. ~c.moved
      <4>1. taken'.moved = c.moved BY <1>7, <2>1
      <4> QED BY <2>4, <4>1, Zenon
    <3> QED BY <1>1, <1>5, <1>7, <2>1, <3>1 DEF File
  <2>5. ASSUME "card" \notin trouble PROVE taken'.moved /\ gallery'[foreground] = taken'
    <3>1. c.moved /\ c.listed BY <1>6, <2>2, <2>5
    <3>2. taken'.moved = c.moved BY <1>7, <2>1
    <3>3. taken'.moved BY <3>1, <3>2, Zenon
    <3>4. gallery' = [gallery EXCEPT ![foreground] = page(c.moved)] BY <1>5, <3>1
    <3> QED BY <1>10, <2>1, <3>3, <3>4
  <2> QED BY <2>3, <2>4, <2>5
<1>15. PageKept'
  <2>1. loopAt' # "move" /\ staged' = 0 /\ armed' = 0 BY <1>1, <1>3, <1>5
  <2>2. UNCHANGED <<trouble, foreground>> BY <1>1
  <2>3. (loopAt' = "arm" => /\ PrefixOf(taken'.file, taken'.push)
                            /\ ~taken'.moved => File' = taken'.file
                            /\ "card" \notin trouble => taken'.moved /\ gallery'[foreground] = taken')
    BY <1>14
  <2>4. shown'.push # 0 /\ ("card" \in trouble' => armed' # 0) => Readable' BY <1>13, <2>1, <2>2
  <2> QED BY <1>12, <2>1, <2>2, <2>3, <2>4 DEF PageKept, PrefixOf
<1>16. Asked' BY <1>0, <1>1, AskedKept DEF Orderly
<1>17. Apart' => PanelKept'
  <2> SUFFICES ASSUME Apart PROVE PanelKept' BY <1>1 DEF Apart
  <2>1. PanelKept BY <1>0 DEF Orderly
  <2>2. CASE "card" \in trouble
    <3>1. ~drawing BY <1>3, <2>1, <2>2 DEF PanelKept
    <3> QED BY <1>0, <1>1, <3>1, PanelKeptOn DEF Apart
  <2>3. CASE "card" \notin trouble
    <3>1. shown' = shown BY <1>5, <2>3
    <3>2. ASSUME drawing PROVE shown.moved
      <4>1. shown.push # 0 BY <1>0, <3>2 DEF TInv, LoopOK
      <4> QED BY <1>0, <2>3, <4>1 DEF Orderly, PageKept, Readable
    <3>3. drawing => Picture' = Picture BY <3>1, <3>2 DEF Picture
    <3>4. drawing' <=> drawing BY <1>1, Zenon
    <3>5. armed' = armed /\ panel' = panel /\ trouble' = trouble BY <1>1
    <3>6. drawing' => /\ panel'.push = shown'.push /\ Picture' = panel'.base
                      /\ "card" \in trouble' => armed' # 0
      BY <2>1, <3>1, <3>3, <3>4, <3>5 DEF PanelKept
    <3>7. panel'.push # 0 => panel'.base = Whole(panel'.push) /\ (drawing' \/ panel'.grey = panel'.base)
      BY <2>1, <3>4, <3>5 DEF PanelKept, Whole
    <3> QED BY <3>6, <3>7 DEF PanelKept
  <2> QED BY <2>2, <2>3
<1>18. Linked' /\ OneStager' /\ OneOut' /\ Behind' /\ Stream(queue)' /\ Tip'
  <2>1. loopAt' # "apply" BY <1>5
  <2> QED BY <1>0, <1>1, <1>2, <1>9, <1>10, <2>1, RestKept
<1> QED BY <1>15, <1>16, <1>17, <1>18 DEF Orderly

LEMMA ArmPageOrderly == ASSUME PInv, Patient, ArmPage PROVE Orderly'
<1>0. TInv /\ Orderly BY DEF PInv, AInv
<1>1. /\ loopAt = "arm" /\ ~drawing /\ armed' = taken.push /\ shown' \in Refreshed(taken)
      /\ loopAt' = "drain" /\ taken'.push = 0
      /\ UNCHANGED <<trouble, linkUp, connected, foreground, owner, begun, wire, owed, active, what,
                     seq, gap, failed, queue, open, staging, incoming, staged, drawing, panel,
                     handed, holder, gallery>>
  BY DEF ArmPage, NoPage, appVars, hostVars, writerVars
<1>2. Later' \subseteq Later /\ (Beyond' => Beyond)
  BY <1>1, KeptEnds DEF Later, Beyond
<1>3. holder = foreground /\ foreground \in Apps /\ taken \in Pages /\ taken.push # 0
      /\ (gallery[foreground].push = 0 => gallery[foreground] = NoPage)
  BY <1>0, <1>1 DEF Orderly, Linked, OneStager, TInv, LoopOK, ScreenOK
<1>4. /\ shown' = taken \/ shown' = gallery[foreground]
      /\ "card" \notin trouble /\ gallery[foreground] # NoPage => shown' = gallery[foreground]
  BY <1>0, <1>1, <1>3, RefreshedType
<1>5. /\ PrefixOf(taken.file, taken.push) /\ (~taken.moved => File = taken.file)
      /\ "card" \notin trouble => taken.moved /\ gallery[foreground] = taken
      /\ gallery[foreground].push # 0 =>
           gallery[foreground].moved /\ PrefixOf(gallery[foreground].file, gallery[foreground].push)
  BY <1>0, <1>1 DEF Orderly, PageKept
<1>6. ASSUME shown'.push # 0 PROVE Readable'
  <2>1. CASE shown' = taken
    <3>1. taken.moved \/ "card" \in trouble BY <1>5
    <3>2. File' = File BY <1>1 DEF File
    <3>3. Picture' = taken.file BY <1>5, <2>1, <3>2 DEF Picture
    <3> QED BY <1>1, <1>5, <2>1, <3>1, <3>3 DEF Readable, PrefixOf
  <2>2. CASE shown' = gallery[foreground]
    <3>1. shown'.moved /\ PrefixOf(shown'.file, shown'.push) BY <1>5, <1>6, <2>2
    <3> QED BY <3>1 DEF Readable, Picture, PrefixOf
  <2> QED BY <1>4, <2>1, <2>2
<1>7. ASSUME "card" \notin trouble PROVE armed' = shown'.push
  <2>1. gallery[foreground] = taken /\ gallery[foreground] # NoPage
    BY <1>3, <1>5, <1>7 DEF NoPage
  <2> QED BY <1>1, <1>4, <1>7, <2>1
<1>8. staged' = 0 \/ PrefixOf(File', staged')
  BY <1>0, <1>1 DEF Orderly, PageKept, File
<1>9. PageKept'
  <2>1. UNCHANGED <<trouble, foreground, gallery>> /\ loopAt' = "drain" BY <1>1
  <2> QED BY <1>5, <1>6, <1>7, <1>8, <2>1 DEF PageKept, PrefixOf
<1>10. Asked' BY <1>1, <1>3, NotAsked
<1>11. Apart' => PanelKept' BY <1>0, <1>1, PanelKeptOn
<1>12. Linked' /\ OneStager' /\ OneOut' /\ Behind' /\ Stream(queue)' /\ Tip'
  BY <1>0, <1>1, <1>2, RestKept
<1> QED BY <1>9, <1>10, <1>11, <1>12 DEF Orderly

LEMMA TagOrPromptOrderly == ASSUME PInv, Patient, ChangeTag \/ Prompt PROVE Orderly'
<1>0. TInv /\ Orderly BY DEF PInv, AInv
<1>1. /\ ~drawing /\ loopAt = "drain"
      /\ UNCHANGED <<trouble, linkUp, connected, foreground, owner, begun, wire, owed, active, what,
                     seq, gap, failed, queue, open, staging, incoming, staged, drawing, panel,
                     handed, holder, gallery, loopAt, taken, shown, armed>>
      /\ screen' # "image" \/ tagsOnly' = TRUE
  BY DEF ChangeTag, Prompt, appVars, hostVars, writerVars, loopVars
<1>2. Later' \subseteq Later /\ (Beyond' => Beyond) BY <1>1, KeptEnds DEF Later, Beyond
<1>3. PageKept' BY <1>0, <1>1, PageStays DEF Orderly
<1>4. Asked' BY <1>1, NotAsked
<1>5. Apart' => PanelKept' BY <1>0, <1>1, PanelKeptOn
<1>6. Linked' /\ OneStager' /\ OneOut' /\ Behind' /\ Stream(queue)' /\ Tip'
  BY <1>0, <1>1, <1>2, RestKept
<1> QED BY <1>3, <1>4, <1>5, <1>6 DEF Orderly

(* The file that is read for the page is the one the page says.            *)
LEMMA PageIsPicture ==
  ASSUME TInv, Orderly, shown.push # 0 PROVE PageFile = Picture
<1>1. owner[shown.push] = foreground
  BY Bounds DEF TInv, LoopOK, AppOK, Orderly, OneStager, Pages
<1> QED BY <1>1 DEF PageFile, Picture, File

LEMMA RenderKeeps ==
  ASSUME PInv, Patient, Render
  PROVE  /\ TInv /\ Orderly /\ trouble' = trouble
         /\ Linked' /\ OneStager' /\ OneOut' /\ Behind' /\ Stream(queue)' /\ Tip' /\ PageKept' /\ Asked'
<1>0. TInv /\ Orderly BY DEF PInv, AInv
<1>2. UNCHANGED <<trouble, linkUp, connected, foreground, owner, begun, wire, owed, active, what,
                  seq, gap, failed, queue, open, staging, incoming, staged, taken, loopAt,
                  handed, holder, gallery>>
  BY DEF Render, DrawBase, DrawGrey, DrawOther, appVars, hostVars, writerVars, screenVars
<1>5. armed' \in {0, armed} /\ (shown' = shown \/ (shown' = NoPage /\ armed' = 0))
  <2>1. CASE DrawBase
    <3>1. CASE Decodes(PageFile) BY <2>1, <3>1 DEF DrawBase
    <3>2. CASE ~Decodes(PageFile) BY <2>1, <3>2 DEF DrawBase
    <3> QED BY <3>1, <3>2
  <2>2. CASE DrawGrey BY <2>2 DEF DrawGrey, Disarm
  <2>3. CASE DrawOther BY <2>3 DEF DrawOther, Disarm
  <2> QED BY <2>1, <2>2, <2>3 DEF Render
<1>3. Later' \subseteq Later /\ (Beyond' => Beyond)
  BY <1>2, <1>5, KeptEnds DEF Later, Beyond
<1>4. PageKept'
  <2>1. CASE shown' = shown
    BY <1>0, <1>2, <1>5, <2>1 DEF Orderly, PageKept, Readable, Picture, PrefixOf, File
  <2>2. CASE shown' = NoPage /\ armed' = 0
    <3>1. shown'.push = 0 BY <2>2 DEF NoPage
    <3> QED BY <1>0, <1>2, <2>2, <3>1 DEF Orderly, PageKept, Readable, Picture, PrefixOf, File
  <2> QED BY <1>5, <2>1, <2>2
<1>6. Asked'
  <2>1. CASE DrawBase \/ DrawOther
    <3>1. due' = FALSE BY <2>1 DEF DrawBase, DrawOther, Renders
    <3> QED BY <3>1 DEF Asked
  <2>2. CASE DrawGrey
    <3>1. ~due BY <1>0, <2>2 DEF DrawGrey, Orderly, Asked
    <3>2. due' = due BY <2>2 DEF DrawGrey, screenVars
    <3>3. ~due' BY <3>1, <3>2, Zenon
    <3> QED BY <3>3 DEF Asked
  <2> QED BY <2>1, <2>2 DEF Render
<1>7. loopAt' # "apply" BY <1>0, <1>2 DEF Orderly, OneStager
<1>8. Linked' /\ OneStager' /\ OneOut' /\ Behind' /\ Stream(queue)' /\ Tip'
  BY <1>0, <1>2, <1>3, <1>7, RestKept
<1> QED BY <1>0, <1>2, <1>4, <1>6, <1>8

LEMMA DrawBaseOrderly == ASSUME PInv, Patient, DrawBase PROVE Orderly'
<1>0. TInv /\ Orderly /\ trouble' = trouble BY RenderKeeps DEF Render
<1>1. Apart' => PanelKept'
  <2> SUFFICES ASSUME Apart PROVE PanelKept' BY <1>0 DEF Apart
  <2>0. shown.push # 0 BY <1>0 DEF DrawBase, TInv, LoopOK
  <2>1. "card" \in trouble => armed # 0
    <3> SUFFICES ASSUME "card" \in trouble PROVE armed # 0 OBVIOUS
    <3>1. "redraw" \notin trouble BY DEF Apart
    <3>2. screen = "image" /\ ~tagsOnly /\ due BY <3>1 DEF DrawBase, Renders
    <3> QED BY <1>0, <3>1, <3>2 DEF Orderly, Asked
  <2>2. CASE Decodes(PageFile)
    <3>1. drawing' = TRUE /\ UNCHANGED <<shown, armed>> /\ panel'.push = shown.push
          /\ panel'.base = PageFile /\ UNCHANGED <<incoming, foreground>>
      BY <2>2 DEF DrawBase, writerVars, appVars
    <3>2. drawing' BY <3>1
    <3>3. PageFile = Picture BY <1>0, <2>0, PageIsPicture
    <3>4. PrefixOf(Picture, shown.push) BY <1>0, <2>0, <2>1 DEF Orderly, PageKept, Readable
    <3>5. PageFile = Whole(shown.push) BY <2>2, <3>3, <3>4, WholePrefix
    <3>6. Picture' = Picture BY <3>1 DEF Picture, File
    <3> QED BY <1>0, <2>1, <3>1, <3>2, <3>3, <3>5, <3>6 DEF PanelKept, Whole
  <2>3. CASE ~Decodes(PageFile)
    <3>1. panel' = NoPanel /\ drawing' = drawing BY <2>3 DEF DrawBase
    <3>2. panel'.push = 0 BY <3>1 DEF NoPanel
    <3>3. ~drawing BY DEF DrawBase, Renders
    <3>4. ~drawing' BY <3>1, <3>3, Zenon
    <3> QED BY <3>2, <3>4 DEF PanelKept
  <2> QED BY <2>2, <2>3
<1> QED BY <1>1, RenderKeeps DEF Orderly, Render

LEMMA DrawOtherOrderly == ASSUME PInv, Patient, DrawOther PROVE Orderly'
<1>0. TInv /\ Orderly /\ trouble' = trouble BY RenderKeeps DEF Render
<1>1. Apart' => PanelKept'
  <2> SUFFICES ASSUME Apart PROVE PanelKept' BY <1>0 DEF Apart
  <2>1. ~drawing /\ drawing' = drawing BY DEF DrawOther, Renders
  <2>2. ~drawing' BY <2>1, Zenon
  <2>3. PanelKept BY <1>0 DEF Orderly
  <2>4. panel' = panel \/ panel'.push = 0 BY DEF DrawOther, NoPanel
  <2> QED BY <2>1, <2>2, <2>3, <2>4 DEF PanelKept, Whole
<1> QED BY <1>1, RenderKeeps DEF Orderly, Render

LEMMA DrawGreyOrderly == ASSUME PInv, Patient, DrawGrey PROVE Orderly'
<1>0. TInv /\ Orderly /\ trouble' = trouble BY RenderKeeps DEF Render
<1>1. Apart' => PanelKept'
  <2> SUFFICES ASSUME Apart PROVE PanelKept' BY <1>0 DEF Apart
  <2>1. PanelKept /\ drawing BY <1>0 DEF Orderly, DrawGrey
  <2>2. shown.push # 0 BY <1>0, <2>1 DEF TInv, LoopOK
  <2>3. PageFile = panel.base
    BY <1>0, <2>1, <2>2, PageIsPicture DEF PanelKept
  <2>4. panel \in [push : 0 .. MaxPush, base : Files, grey : Files] BY <1>0 DEF TInv, LoopOK
  <2>5. panel' = [panel EXCEPT !.grey = PageFile] /\ drawing' = FALSE BY DEF DrawGrey
  <2>6. panel'.grey = PageFile /\ panel'.base = panel.base /\ panel'.push = panel.push
    BY <2>4, <2>5
  <2>7. ~drawing' BY <2>5
  <2> QED BY <2>1, <2>3, <2>6, <2>7 DEF PanelKept, Whole
<1> QED BY <1>1, RenderKeeps DEF Orderly, Render

----------------------------------------------------------------------------

LEMMA PInit == Init => PInv
<1> SUFFICES ASSUME Init PROVE PInv OBVIOUS
<1>1. AInv BY AInit
<1>2. EndsOf(queue) = {} BY DEF Init, EndsOf
<1>3. active = 0 /\ wire.push = 0 /\ staged = 0 /\ taken.push = 0 /\ armed = 0 /\ shown.push = 0
      /\ panel.push = 0 /\ what = "none" /\ queue = << >> /\ loopAt = "drain" /\ open = "no"
  BY DEF Init, NoWire, NoPage, NoPanel
<1>4. Later = {} /\ ~Beyond BY <1>2, <1>3 DEF Later, Beyond
<1>5. Linked
  <2>1. linkUp = TRUE /\ connected = TRUE /\ holder = foreground BY DEF Init
  <2> QED BY <2>1 DEF Linked
<1>6. OneStager
  <2>1. ~handed BY Zenon DEF Init
  <2> QED BY <2>1 DEF Init, OneStager
<1>7. OneOut BY <1>3, <1>4 DEF OneOut
<1>8. Behind /\ Tip BY <1>3, <1>4 DEF Behind, Tip
<1>9. Stream(queue) BY <1>3, <1>4 DEF Stream, InOrder, EndIsLast
<1>10. PanelKept
  <2>1. drawing = FALSE BY DEF Init
  <2> QED BY <1>3, <2>1 DEF PanelKept
<1>11. PageKept
  <2>1. gallery[foreground].push = 0 BY DEF Init, NoPage
  <2> QED BY <1>3, <2>1 DEF PageKept
<1>12. Asked
  <2>1. drawing = FALSE /\ due = FALSE BY DEF Init
  <2> QED BY <2>1 DEF Asked
<1> QED BY <1>1, <1>5, <1>6, <1>7, <1>8, <1>9, <1>10, <1>11, <1>12 DEF PInv, Orderly

LEMMA PNext == ASSUME PInv, [Next]_vars PROVE PInv'
<1>0. AInv' BY ANext DEF PInv
<1>1. trouble' = trouble BY TroubleKept
<1>2. SUFFICES ASSUME Patient PROVE Orderly' BY <1>0, <1>1 DEF PInv, Patient, Without
<1>3. TInv /\ Orderly BY <1>2 DEF PInv, AInv
<1>4. CASE Handover \/ Release \/ LinkLoss \/ Reconnect \/ NoticeLink \/ ApplyForeground
  BY <1>2, <1>3, <1>4, AppsAssumption
  DEF Handover, Release, LinkLoss, Reconnect, NoticeLink, ApplyForeground, Patient, Without, Orderly,
      OneStager, Linked
<1>5. CASE UNCHANGED vars
  <2>1. UNCHANGED <<trouble, linkUp, connected, foreground, owner, begun, wire, owed, active, what,
                    seq, gap, failed, queue, open, staging, incoming>>
        /\ UNCHANGED <<staged, taken, armed, shown, loopAt, drawing, panel>>
        /\ UNCHANGED <<handed, holder, screen, due, tagsOnly, gallery>>
    BY <1>5 DEF vars, appVars, hostVars, writerVars, loopVars, screenVars
  <2>2. Later' \subseteq Later /\ (Beyond' => Beyond) BY <2>1, KeptEnds DEF Later, Beyond
  <2>3. PageKept' BY <1>3, <2>1, PageStays DEF Orderly
  <2>4. Asked' BY <1>3, <2>1, AskedKept DEF Orderly
  <2>5. Apart' => PanelKept' BY <1>3, <2>1, PanelWritten
  <2>6. loopAt' # "apply" BY <1>3, <2>1 DEF Orderly, OneStager
  <2>7. Linked' /\ OneStager' /\ OneOut' /\ Behind' /\ Stream(queue)' /\ Tip'
    BY <1>3, <2>1, <2>2, <2>6, RestKept
  <2> QED BY <2>3, <2>4, <2>5, <2>7 DEF Orderly
<1> QED BY <1>2, <1>4, <1>5, StartPushOrderly, LoseChunkOrderly, ChunkOrderly, EndPushOrderly,
           PushAssetOrderly, WriterOpenOrderly, WriterChunkOrderly, WriterEndOrderly,
           WriterAbortOrderly, DrainOrderly, MoveStagedOrderly, ArmPageOrderly, TagOrPromptOrderly,
           DrawBaseOrderly, DrawOtherOrderly, DrawGreyOrderly
        DEF Next, Phone, Writer, MainLoop, Render, Done

LEMMA WholeIsShown == PInv => ShownIsWhole
<1> SUFFICES ASSUME PInv, Patient, Apart PROVE
      /\ panel.push # 0 => panel.base = Whole(panel.push) /\ (drawing \/ panel.grey = panel.base)
      /\ Without({"card"}) /\ drawing /\ armed # 0 => panel.push = armed
  BY DEF ShownIsWhole, Patient, Apart
<1>1. PageKept /\ PanelKept BY DEF PInv, Orderly
<1> QED BY <1>1 DEF PageKept, PanelKept, Without

(* What the panel shows of a push is that push, whole, in its base and in  *)
(* its grey planes, although the gallery may list parts of pictures and    *)
(* its newest one takes the page; and while the card works, the push that  *)
(* is answered for a picture is the one that was drawn.                    *)
THEOREM OnlyWholePictures == Spec => []ShownIsWhole
<1>1. Init => PInv BY PInit
<1>2. PInv /\ [Next]_vars => PInv' BY PNext
<1>3. PInv => ShownIsWhole BY WholeIsShown
<1> QED BY <1>1, <1>2, <1>3, PTL DEF Spec
=============================================================================
