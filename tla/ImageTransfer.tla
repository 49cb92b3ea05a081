--------------------------- MODULE ImageTransfer ---------------------------
(***************************************************************************)
(* One push on the content characteristic, from START to its RENDER_STATUS *)
(* (src/CompanionBle.cpp, CompanionModeActivity::handlePendingImage):      *)
(* the host task reassembles, the image writer task stages to the SD card  *)
(* through a bounded queue, the main loop moves the staged file and arms   *)
(* the answer, the render task gives it.                                   *)
(*                                                                         *)
(* A chunk is <<push, k>>, a file the sequence of chunks written to it.    *)
(***************************************************************************)
EXTENDS Naturals, Sequences, FiniteSets

CONSTANTS Apps, NoApp,
          ListApps,    \* the apps that declared a list for their page
          Missing,     \* no file at the path
          Kinds,       \* what the apps push: images, text fields or both
          MaxPush,     \* bound: pushes begun
          Chunks,      \* CHUNKs of a whole push
          QueueLen,    \* kImageWriteQueueLen
          Environments \* which troubles may come together, see Troubles

(* loss: a CHUNK is lost (Write Without Response); card: the SD card fails;*)
(* stall: the writer is too slow and a send times out; pipeline: an app    *)
(* does not wait for its answer; handover: the screen changes hands;       *)
(* asset: an app pushes an icon or a declaration meanwhile; refused: a push*)
(* has the wrong size or shape; redraw: the page is drawn again; drop: the *)
(* link is lost; tags: a tag changes over a picture; prompt: an unknown app*)
(* asks to be paired.                                                      *)
Troubles == {"loss", "card", "stall", "pipeline", "handover", "asset", "refused", "redraw",
              "drop", "tags", "prompt"}

ASSUME BoundsAssumption == {MaxPush, Chunks, QueueLen} \subseteq Nat \ {0}
ASSUME KindAssumption   == Kinds \subseteq {"image", "text"}
ASSUME TroubleAssumption == Environments \subseteq SUBSET Troubles
ASSUME AppsAssumption   == NoApp \notin Apps /\ ListApps \subseteq Apps

VARIABLES trouble,                           \* what may happen in this behaviour
          linkUp, foreground,                \* the link and the screen
          owner, begun,                      \* who pushed what
          wire,                              \* the push on the air and its next frame
          owed,                              \* pushes whose client awaits an answer
          active, what, seq, gap, failed, buffer,  \* the host task's reassembly
          queue,                             \* to the writer task
          open, staging, incoming,           \* its file: where it is, whose, contents
          staged, loopAt, taken, connected,  \* g_pendingImage*; the main loop
          shown, armed,                      \* the page; the answer it still owes
          drawing, panel,                    \* the render task; what it drew last
          handed, holder,                    \* g_pendingForeground*, foregroundPeerKey
          screen, due, tagsOnly,             \* which page; requestUpdate(), tagOnlyRedraw
          gallery,                           \* each app's newest picture, by its index
          answers,                           \* who was sent each push's answers
          texts                              \* text fields handed to the batch model

appVars    == <<trouble, linkUp, foreground, owner, begun, wire, owed>>
hostVars   == <<active, what, seq, gap, failed, buffer>>
writerVars == <<open, staging, incoming>>
loopVars   == <<staged, loopAt, taken, connected, shown, armed, drawing, panel>>
pageVars   == <<holder, screen, due, tagsOnly, gallery>>
screenVars == <<handed, holder, screen, due, tagsOnly, gallery>>
vars == <<appVars, hostVars, queue, writerVars, loopVars, screenVars, answers, texts>>

Pushes  == 1 .. MaxPush
End     == Chunks + 1
Whole(p) == [k \in 1 .. Chunks |-> <<p, k>>]
Files   == Seq(Pushes \X (1 .. Chunks)) \cup {Missing}
NoWire  == [push |-> 0, next |-> 1, kind |-> "none"]
NoPage  == [push |-> 0, file |-> Missing, moved |-> FALSE]
Pages   == [push : 0 .. MaxPush, file : Files, moved : BOOLEAN]
NoPanel == [push |-> 0, base |-> Missing, grey |-> Missing]

Messages == [type : {"open", "chunk", "end", "abort"}, push : Pushes, chunk : 0 .. Chunks]

TypeOK ==
  /\ trouble \in Environments /\ linkUp \in BOOLEAN /\ connected \in BOOLEAN
  /\ foreground \in Apps \cup {NoApp} /\ owner \in [Pushes -> Apps \cup {NoApp}]
  /\ begun \in 0 .. MaxPush
  /\ wire \in [push : 0 .. MaxPush, next : 1 .. End, kind : Kinds \cup {"none"}]
  /\ owed \subseteq Pushes
  /\ active \in 0 .. MaxPush /\ what \in Kinds \cup {"none"} /\ seq \in 0 .. Chunks
  /\ gap \in BOOLEAN /\ failed \in BOOLEAN
  /\ buffer \in Seq(1 .. Chunks) /\ Len(buffer) <= Chunks
  /\ queue \in Seq(Messages) /\ Len(queue) <= QueueLen
  /\ open \in {"no", "staging", "adrift"} /\ staging \in Apps \cup {NoApp}
  /\ incoming \in [Apps -> Files]
  /\ staged \in 0 .. MaxPush /\ loopAt \in {"drain", "apply", "move", "arm"}
  /\ taken \in Pages /\ shown \in Pages /\ armed \in 0 .. MaxPush
  /\ drawing \in BOOLEAN /\ panel \in [push : 0 .. MaxPush, base : Files, grey : Files]
  /\ handed \in BOOLEAN /\ holder \in Apps \cup {NoApp} /\ screen \in {"image", "text", "other"}
  /\ due \in BOOLEAN /\ tagsOnly \in BOOLEAN /\ gallery \in [Apps -> Pages]
  /\ answers \in [Pushes -> Seq(Apps)]
  /\ \A t \in texts : t \in [push : Pushes, chunks : Seq(1 .. Chunks)]

Init ==
  /\ trouble \in Environments /\ linkUp = TRUE /\ connected = TRUE
  /\ foreground \in Apps /\ owner = [p \in Pushes |-> NoApp] /\ begun = 0
  /\ wire = NoWire /\ owed = {}
  /\ active = 0 /\ what = "none" /\ seq = 0 /\ gap = FALSE /\ failed = FALSE /\ buffer = << >>
  /\ queue = << >>
  /\ open = "no" /\ staging = NoApp /\ incoming = [a \in Apps |-> Missing]
  /\ staged = 0 /\ loopAt = "drain" /\ taken = NoPage
  /\ shown = NoPage /\ armed = 0 /\ drawing = FALSE /\ panel = NoPanel
  /\ handed = FALSE /\ holder = foreground /\ screen = "text" /\ due = FALSE /\ tagsOnly = FALSE
  /\ gallery = [a \in Apps |-> NoPage]
  /\ answers = [p \in Pushes |-> << >>] /\ texts = {}

----------------------------------------------------------------------------
(* Answers and the writer's queue. *)

(* notifyRenderStatus(): to the session in the foreground, if there is one.*)
Answered(ans, p) ==
  IF p = 0 \/ foreground = NoApp THEN ans ELSE [ans EXCEPT ![p] = Append(@, foreground)]

(* enqueueImageWork() of the messages in turn: the outcomes of xQueueSend, *)
(* which waits for room (no outcome yet) and may give up.                  *)
(* Mutant: the queue is taken to have room. *)
Send_Overfills(q, m) == {[queue |-> Append(q, m), sent |-> TRUE]}

Msg(type, p, k) == [type |-> type, push |-> p, chunk |-> k]
Send(q, m) ==
  IF Len(q) < QueueLen THEN {[queue |-> Append(q, m), sent |-> TRUE]}
  ELSE IF "stall" \in trouble THEN {[queue |-> q, sent |-> FALSE]} ELSE {}

Abort(q) ==
  IF what # "image" THEN {[queue |-> q, sent |-> TRUE]}
  ELSE Send(q, Msg("abort", active, 0))

(* resetReassembly(), the abort apart. *)
ResetHost ==
  /\ active' = 0 /\ what' = "none"
  /\ seq' = 0 /\ gap' = FALSE /\ failed' = FALSE /\ buffer' = << >>

----------------------------------------------------------------------------
(* The apps, through the host task. *)

Waiting == {p \in owed : answers[p] = << >>}

(* START of the next push: whatever was in reassembly is dropped. *)
StartPush ==
  /\ foreground # NoApp /\ wire.push = 0 /\ begun < MaxPush
  /\ "pipeline" \in trouble \/ Waiting = {}
  /\ begun' = begun + 1 /\ owner' = [owner EXCEPT ![begun + 1] = foreground]
  /\ active' = begun + 1 /\ seq' = 0 /\ gap' = FALSE /\ buffer' = << >>
  /\ \E kind \in Kinds, a \in Abort(queue) :
       /\ wire' = [push |-> begun + 1, next |-> 1, kind |-> kind] /\ what' = kind
       /\ \/ /\ kind = "image"
             /\ \E o \in Send(a.queue, Msg("open", begun + 1, 0)) :
                  queue' = o.queue /\ failed' = ~o.sent
          \/ kind = "text" /\ queue' = a.queue /\ failed' = FALSE
          \/ "refused" \in trouble /\ queue' = a.queue /\ failed' = TRUE
  /\ UNCHANGED <<trouble, linkUp, foreground, owed, writerVars,
                 loopVars, screenVars, answers, texts>>

FrameSent == wire' = [wire EXCEPT !.next = @ + 1]

LoseChunk ==
  /\ "loss" \in trouble /\ wire.push # 0 /\ wire.next < End
  /\ FrameSent
  /\ UNCHANGED <<trouble, linkUp, foreground, owner, begun, owed, hostVars, queue, writerVars,
                 loopVars, screenVars, answers, texts>>

(* Mutant: the sequence number is not compared. *)
OutOfSequence_Never(k) == FALSE

OutOfSequence(k) == k - 1 # seq

(* CHUNK: ignored outside the transfer it belongs to or once that failed;  *)
(* checked against the expected number; handed to the writer.              *)
Chunk ==
  /\ wire.push # 0 /\ wire.next < End /\ FrameSent
  /\ IF active # wire.push \/ gap \/ failed
     THEN UNCHANGED <<hostVars, queue>>
     ELSE /\ UNCHANGED <<active, what>>
          /\ IF OutOfSequence(wire.next)
             THEN /\ gap' = TRUE /\ \E a \in Abort(queue) : queue' = a.queue
                  /\ UNCHANGED <<seq, failed, buffer>>
             ELSE IF what = "text"
             THEN seq' = seq + 1 /\ buffer' = Append(buffer, wire.next) /\ UNCHANGED <<gap, failed, queue>>
             ELSE \E s \in Send(queue, Msg("chunk", active, wire.next)) :
                    /\ failed' = ~s.sent
                    /\ seq' = IF s.sent THEN seq + 1 ELSE seq
                    /\ \E a \in (IF s.sent THEN {s} ELSE Abort(s.queue)) : queue' = a.queue
                    /\ UNCHANGED <<gap, buffer>>
  /\ UNCHANGED <<trouble, linkUp, foreground, owner, begun, owed, writerVars,
                 loopVars, screenVars, answers, texts>>

(* END of a text field: answered if it was refused, else to the batch model*)
(* unless a gap was seen.                                                  *)
EndText ==
  /\ texts' = IF gap \/ failed THEN texts ELSE texts \cup {[push |-> active, chunks |-> buffer]}
  /\ answers' = IF failed THEN Answered(answers, active) ELSE answers
  /\ UNCHANGED queue

(* Mutant: a failed transfer is not answered at END. *)
EndImage_FailsSilently ==
  /\ UNCHANGED texts
  /\ IF gap \/ failed
     THEN /\ UNCHANGED answers
          /\ \E a \in Abort(queue) : queue' = a.queue
     ELSE \E e \in Send(queue, Msg("end", active, 0)) : \E a \in Abort(e.queue) :
            queue' = a.queue /\ UNCHANGED answers

(* END of an image: answered at once when it already failed, else the      *)
(* writer finishes it.                                                     *)
EndImage ==
  /\ UNCHANGED texts
  /\ IF gap \/ failed
     THEN /\ answers' = Answered(answers, active)
          /\ \E a \in Abort(queue) : queue' = a.queue
     ELSE \E e \in Send(queue, Msg("end", active, 0)) :
            \E t \in (IF e.sent THEN {e} ELSE Abort(e.queue)) : \E a \in Abort(t.queue) :
              /\ answers' = IF e.sent THEN answers ELSE Answered(answers, active)
              /\ queue' = a.queue

EndPush ==
  /\ wire.push # 0 /\ wire.next = End
  /\ wire' = NoWire
  /\ owed' = IF wire.kind = "image" THEN owed \cup {wire.push} ELSE owed
  /\ IF active = wire.push
     THEN ResetHost /\ IF what = "text" THEN EndText ELSE EndImage
     ELSE UNCHANGED <<hostVars, queue, answers, texts>>
  /\ UNCHANGED <<trouble, linkUp, foreground, owner, begun, writerVars, loopVars, screenVars>>

(* An asset from any session, START to ASSET_ACK. *)
PushAsset ==
  /\ "asset" \in trouble /\ active # 0
  /\ ResetHost
  /\ \E a \in Abort(queue) : queue' = a.queue
  /\ UNCHANGED <<appVars, writerVars, loopVars, screenVars, answers, texts>>

(* setForeground(): the preempted app gives its push up. *)
Handover ==
  /\ linkUp
  /\ "handover" \in trouble \/ foreground = NoApp
  /\ \E a \in Apps \ {foreground} : foreground' = a /\ handed' = TRUE
  /\ wire' = NoWire /\ owed' = {}
  /\ ResetHost
  /\ \E a \in Abort(queue) : queue' = a.queue
  /\ UNCHANGED <<trouble, linkUp, owner, begun, writerVars, loopVars, pageVars, answers, texts>>

(* RELEASE or BYE: nobody holds the screen, the reassembly is left alone.  *)
Release ==
  /\ "handover" \in trouble /\ foreground # NoApp
  /\ foreground' = NoApp /\ handed' = TRUE /\ wire' = NoWire /\ owed' = {}
  /\ UNCHANGED <<trouble, linkUp, owner, begun, hostVars, queue, writerVars,
                 loopVars, pageVars, answers, texts>>

(* onDisconnect(). *)
LinkLoss ==
  /\ "drop" \in trouble /\ linkUp /\ linkUp' = FALSE
  /\ foreground' = NoApp /\ handed' = TRUE /\ wire' = NoWire /\ owed' = {}
  /\ ResetHost
  /\ \E a \in Abort(queue) : queue' = a.queue
  /\ UNCHANGED <<trouble, owner, begun, writerVars, loopVars, pageVars, answers, texts>>

Reconnect ==
  /\ ~linkUp /\ linkUp' = TRUE
  /\ UNCHANGED <<trouble, foreground, owner, begun, wire, owed, hostVars, queue, writerVars,
                 loopVars, screenVars, answers, texts>>

----------------------------------------------------------------------------
(* The writer task: imageWriteTaskLoop(). *)

(* writerDiscardStagedImage(), of the files. *)
Discarded == IF staging = NoApp THEN incoming ELSE [incoming EXCEPT ![staging] = Missing]

Receive(type) == queue # << >> /\ Head(queue).type = type /\ queue' = Tail(queue)

WriterOpen ==
  /\ Receive("open")
  /\ LET app == owner[Head(queue).push]
         old == IF open # "no" THEN Discarded ELSE incoming
     IN \/ /\ open' = "staging" /\ staging' = app
           /\ incoming' = [old EXCEPT ![app] = << >>]
        \/ /\ "card" \in trouble
           /\ open' = "no" /\ staging' = NoApp /\ incoming' = old
  /\ UNCHANGED <<appVars, hostVars, loopVars, screenVars, answers, texts>>

WriterChunk ==
  /\ Receive("chunk")
  /\ \/ /\ open = "no" /\ UNCHANGED writerVars
     \/ /\ open # "no"
        /\ incoming' = IF open = "adrift" THEN incoming
             ELSE [incoming EXCEPT ![staging] = Append(@, <<Head(queue).push, Head(queue).chunk>>)]
        /\ UNCHANGED <<open, staging>>
     \/ /\ open # "no" /\ "card" \in trouble
        /\ open' = "no" /\ staging' = NoApp /\ incoming' = Discarded
  /\ UNCHANGED <<appVars, hostVars, loopVars, screenVars, answers, texts>>

WriterEnd ==
  /\ Receive("end")
  /\ IF open = "no"
     THEN /\ answers' = Answered(answers, Head(queue).push)
          /\ UNCHANGED <<open, staging, staged>>
     ELSE /\ staged' = Head(queue).push
          /\ open' = "no" /\ staging' = NoApp
          /\ UNCHANGED answers
  /\ UNCHANGED <<appVars, hostVars, incoming, loopAt, taken, connected, shown, armed,
                 drawing, panel, screenVars, texts>>

(* Mutant: an abort leaves the file open. *)
WriterAbort_KeepsFile ==
  /\ Receive("abort")
  /\ UNCHANGED <<appVars, hostVars, writerVars, loopVars, screenVars, answers, texts>>

WriterAbort ==
  /\ Receive("abort")
  /\ open' = "no" /\ staging' = NoApp /\ incoming' = Discarded
  /\ UNCHANGED <<appVars, hostVars, loopVars, screenVars, answers, texts>>

----------------------------------------------------------------------------
(* The main loop and the render task. *)

(* loop() sees the link change, under the render lock: what the departing  *)
(* app was owed goes with the link; with nothing of its own on the page its*)
(* gallery is shown, or the screen falls back to another one.              *)
NoticeLink ==
  /\ loopAt = "drain" /\ ~drawing /\ connected # linkUp
  /\ connected' = linkUp
  /\ \/ linkUp /\ UNCHANGED <<armed, holder, shown, screen>>
     \/ /\ ~linkUp /\ armed' = 0 /\ holder' = NoApp
        /\ \/ UNCHANGED <<shown, screen>>
           \/ /\ holder # NoApp /\ shown = NoPage /\ shown' = gallery[holder]
              /\ screen' = IF gallery[holder] = NoPage THEN "other" ELSE "image"
  /\ due' = (due \/ linkUp \/ screen' # "image")
  /\ UNCHANGED <<appVars, hostVars, queue, writerVars, staged, loopAt, taken, drawing, panel,
                 handed, tagsOnly, gallery, answers, texts>>

(* loop() takes what the host and writer tasks have left for it.           *)
Drain ==
  /\ loopAt = "drain" /\ (handed \/ staged # 0)
  /\ taken' = [NoPage EXCEPT !.push = staged] /\ staged' = 0 /\ handed' = FALSE
  /\ IF handed THEN holder' = foreground /\ loopAt' = "apply"
     ELSE loopAt' = "move" /\ UNCHANGED holder
  /\ UNCHANGED <<appVars, hostVars, queue, writerVars, connected, shown, armed, drawing, panel,
                 screen, due, tagsOnly, gallery, answers, texts>>

(* applyForegroundChange(): a new app gets an empty page, of text or of its*)
(* list; with no app the page stays.  Neither touches the answer due.      *)
ApplyForeground ==
  /\ loopAt = "apply" /\ ~drawing /\ due' = TRUE
  /\ IF holder = NoApp
     THEN screen' \in (IF screen = "image" THEN {screen} ELSE {screen, "other"}) /\ UNCHANGED shown
     ELSE shown' = NoPage /\ screen' = IF holder \in ListApps THEN "other" ELSE "text"
  /\ loopAt' = IF taken.push = 0 THEN "drain" ELSE "move"
  /\ UNCHANGED <<appVars, hostVars, queue, writerVars, staged, taken, connected, armed, drawing,
                 panel, handed, holder, tagsOnly, gallery, answers, texts>>

(* Mutant: the size is not checked. *)
Decodes_Anything(file) == TRUE

(* getDimensions(), decodeToFramebuffer(): exactly the expected size. *)
Decodes(file) == file # Missing /\ Len(file) = Chunks

Superseded(ans) == Answered(ans, armed)

(* commitImage() of a file to the gallery of an app: moved and listed, or  *)
(* moved with the index as it was or lost, or not moved.                   *)
Commits(file) ==
  IF file = Missing THEN {[moved |-> FALSE, listed |-> FALSE, lost |-> FALSE]}
  ELSE {[moved |-> TRUE, listed |-> TRUE, lost |-> FALSE]}
       \cup (IF "card" \in trouble
             THEN [moved : {TRUE}, listed : {FALSE}, lost : BOOLEAN]
                  \cup [moved : {FALSE}, listed : {FALSE}, lost : {FALSE}]
             ELSE {})

(* handlePendingImage(), before its lock: commitImage() moves the file into*)
(* the gallery, or leaves it where the next push will be staged; only then *)
(* its size is checked.  A file moved from under the writer is not written *)
(* to.  A slot that no index names is the next one to be moved into.       *)
MoveStaged ==
  LET app == owner[taken.push]  file == incoming[app] IN
  /\ loopAt = "move"
  /\ \E c \in Commits(file) :
       LET page == [push |-> taken.push, file |-> file, moved |-> c.moved] IN
       /\ incoming' = IF c.moved THEN [incoming EXCEPT ![app] = Missing] ELSE incoming
       /\ open' = IF c.moved /\ open = "staging" /\ staging = app THEN "adrift" ELSE open
       /\ gallery' = IF c.listed THEN [gallery EXCEPT ![app] = page]
                     ELSE IF c.lost THEN [gallery EXCEPT ![app] = NoPage] ELSE gallery
       /\ \/ UNCHANGED shown
          \/ /\ "card" \in trouble /\ shown.moved /\ owner[shown.push] = app
             /\ shown' = [shown EXCEPT !.file = IF c.moved THEN file ELSE Missing]
       /\ IF Decodes(file)
          THEN taken' = page /\ loopAt' = "arm" /\ UNCHANGED answers
          ELSE taken' = NoPage /\ loopAt' = "drain" /\ answers' = Answered(answers, taken.push)
  /\ UNCHANGED <<appVars, hostVars, queue, staging, staged, connected, armed, drawing, panel,
                 handed, holder, screen, due, tagsOnly, texts>>

(* refreshGalleryForForeground(): the newest picture listed for the app    *)
(* that holds the screen takes the place of the page just set.             *)
Refreshed(page) ==
  {IF holder # NoApp /\ gallery[holder] # NoPage THEN gallery[holder] ELSE page}
  \cup (IF "card" \in trouble THEN {page} ELSE {})

(* ... under the render lock: the page changes, its answer is armed, the   *)
(* one still armed is told that it was overtaken.                          *)
ArmPage ==
  /\ loopAt = "arm" /\ ~drawing
  /\ answers' = Superseded(answers) /\ armed' = taken.push /\ shown' \in Refreshed(taken)
  /\ screen' = "image" /\ due' = TRUE
  /\ loopAt' = "drain" /\ taken' = NoPage
  /\ UNCHANGED <<appVars, hostVars, queue, writerVars, staged, connected, drawing, panel,
                 handed, holder, tagsOnly, gallery, texts>>

(* A tag changes while a picture is on the page: only the tags are drawn.  *)
ChangeTag ==
  /\ "tags" \in trouble /\ loopAt = "drain" /\ ~drawing /\ screen = "image"
  /\ tagsOnly' = TRUE /\ due' = TRUE
  /\ UNCHANGED <<appVars, hostVars, queue, writerVars, loopVars, handed, holder, screen, gallery,
                 answers, texts>>

(* The pairing prompt takes the screen; Confirm leaves it for text, Back   *)
(* for the idle screen.                                                    *)
Prompt ==
  /\ "prompt" \in trouble /\ loopAt = "drain" /\ ~drawing /\ due' = TRUE
  /\ screen' = "other" \/ (screen = "other" /\ screen' = "text")
  /\ UNCHANGED <<appVars, hostVars, queue, writerVars, loopVars, handed, holder, tagsOnly, gallery,
                 answers, texts>>

(* The file of the page, now. *)
PageFile == IF shown.moved THEN shown.file ELSE incoming[owner[shown.push]]

(* render() begins: one was requested, or something else asks for it.      *)
Renders == ~drawing /\ (due \/ "redraw" \in trouble) /\ due' = FALSE /\ tagsOnly' = FALSE

(* renderImage(), the base: or "image failed", and the page is given up. *)
DrawBase ==
  /\ Renders /\ screen = "image" /\ shown # NoPage /\ ~tagsOnly
  /\ IF Decodes(PageFile)
     THEN /\ drawing' = TRUE
          /\ panel' = [push |-> shown.push, base |-> PageFile, grey |-> Missing]
          /\ UNCHANGED <<shown, armed, answers>>
     ELSE /\ shown' = NoPage /\ armed' = 0 /\ panel' = NoPanel
          /\ answers' = Answered(answers, armed)
          /\ UNCHANGED drawing
  /\ UNCHANGED <<appVars, hostVars, queue, writerVars, staged, loopAt, taken, connected,
                 handed, holder, screen, gallery, texts>>

(* Mutant: the expectation is not consumed. *)
Disarm_Never == UNCHANGED armed

Disarm == armed' = 0

(* render(), the branches that draw no picture: the tags over the one that *)
(* is there, a page given up and the other screens, none with an answer;   *)
(* the text page answers what is armed, whatever it was.                   *)
DrawOther ==
  /\ Renders
  /\ \/ screen = "image" /\ shown # NoPage /\ tagsOnly /\ UNCHANGED <<panel, armed, answers>>
     \/ screen = "image" /\ shown = NoPage /\ panel' = NoPanel /\ armed' = 0 /\ UNCHANGED answers
     \/ screen = "other" /\ panel' = NoPanel /\ UNCHANGED <<armed, answers>>
     \/ screen = "text" /\ panel' = NoPanel /\ answers' = Answered(answers, armed) /\ Disarm
  /\ UNCHANGED <<appVars, hostVars, queue, writerVars, staged, loopAt, taken, connected, shown,
                 drawing, handed, holder, screen, gallery, texts>>

(* renderImage(), the grey planes, decoded again with no look at the       *)
(* outcome; then the answer.                                               *)
DrawGrey ==
  /\ drawing /\ drawing' = FALSE
  /\ panel' = [panel EXCEPT !.grey = PageFile]
  /\ answers' = Answered(answers, armed) /\ Disarm
  /\ UNCHANGED <<appVars, hostVars, queue, writerVars, staged, loopAt, taken, connected, shown,
                 screenVars, texts>>

Phone    == StartPush \/ LoseChunk \/ Chunk \/ EndPush \/ PushAsset
            \/ Handover \/ Release \/ LinkLoss \/ Reconnect
Writer   == WriterOpen \/ WriterChunk \/ WriterEnd \/ WriterAbort
MainLoop == NoticeLink \/ Drain \/ ApplyForeground \/ MoveStaged \/ ArmPage
Render   == DrawBase \/ DrawGrey \/ DrawOther

(* Every push begun, or the app waits for an answer it will never get. *)
Done == wire.push = 0 /\ (begun = MaxPush \/ Waiting # {}) /\ UNCHANGED vars

Next == Phone \/ Writer \/ MainLoop \/ ChangeTag \/ Prompt \/ Render \/ Done

Spec == Init /\ [][Next]_vars
        /\ WF_vars(Writer) /\ SF_vars(MainLoop) /\ WF_vars(Render)

----------------------------------------------------------------------------
(* Properties. *)

(* No push is answered twice, whichever of the four tasks gets to it. *)
AnsweredOnce == \A p \in Pushes : Len(answers[p]) <= 1

(* The environments without any of these troubles. *)
Without(these) == trouble \cap these = {}

(* A picture is drawn whole, its base and its grey planes, no chunk lost   *)
(* and none of another push mixed in; and while the card works it is the   *)
(* one its answer is for.  Pushes that overlap share the staging file, and *)
(* so do a push and the page drawn again from it after a failed move; a    *)
(* failed move or index lets the newest picture listed take its place.     *)
ShownIsWhole ==
  Without({"pipeline", "handover", "drop"}) /\ ~({"card", "redraw"} \subseteq trouble) =>
    /\ panel.push # 0 => panel.base = Whole(panel.push) /\ (drawing \/ panel.grey = panel.base)
    /\ Without({"card"}) /\ drawing /\ armed # 0 => panel.push = armed

(* The device owes one answer to each push that asked for one.             *)
EveryPushIsAnswered == \A p \in Pushes : p \in Waiting ~> p \notin Waiting

(* An app that waits for its answer while it keeps link and screen gets it,*)
(* whatever else fails - chunks, the card, the queue, the decoder - and    *)
(* whatever an earlier owner of the screen has left on its way; unless an  *)
(* asset resets its transfer, or a tag or a prompt is drawn instead.  (An  *)
(* app that waits has one push to wait for.)                               *)
OwedIsAnswered ==
  Without({"pipeline", "asset", "tags", "prompt"}) => (Waiting # {} ~> Waiting = {})

(* A text field reaches the page whole or not at all: a lost CHUNK is      *)
(* noticed.  Does not hold: README, section 3.                             *)
TextIsWhole == \A t \in texts : Len(t.chunks) = Chunks

(* What reaches the page has no hole in it, whatever was lost, reset or    *)
(* overtaken meanwhile.                                                    *)
TextHasNoHole == \A t \in texts : t.chunks = [k \in 1 .. Len(t.chunks) |-> k]

(* The staging file is released: when writer and loop are idle and no push *)
(* is on the air, no file is open and nothing lies at the staging paths,   *)
(* unless an abort found no room, a move failed, or pushes overlapped over *)
(* a change of screen or link.  (A picture that lacks its last CHUNKs is   *)
(* moved to the gallery like a whole one: README, section 3.)              *)
NothingLeftBehind ==
  Without({"card", "stall", "handover", "drop"})
  /\ queue = << >> /\ wire.push = 0 /\ active = 0 /\ staged = 0 /\ loopAt = "drain"
    => open = "no" /\ \A a \in Apps : incoming[a] = Missing
=============================================================================
