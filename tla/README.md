# Verification of the companion display firmware

This directory models the companion mode of the firmware: phone apps connect over
Bluetooth LE, take the one e-ink screen in turns, and push text, tags and pictures
to it. The models are translated from `src/CompanionBle.cpp`,
`src/CompanionBatchModel.cpp`, `src/CompanionConnPolicy.cpp`, `src/CompanionPeerStore.cpp`,
`src/CompanionTodoDiff.cpp` and `src/activities/companion/CompanionModeActivity.cpp` (paths from the repository's
root); the documents under `docs/` are read for what the code is meant to do, and
where code and document disagree the model follows the code and a run shows the
disagreement.

## 1. Inventory

Four tasks run the companion mode.

| task | code | what it does |
|---|---|---|
| BLE host task | `CompanionBle.cpp`: `SessionCharCallbacks`, `ContentCharCallbacks`, `ServerCallbacks` | sessions, screen ownership, reassembly of fields, link procedures |
| image writer task | `imageWriteTaskLoop()` | stages an image on the SD card, from a bounded queue |
| main loop | `CompanionModeActivity::loop()` | notices the link, drains the handoff slots, timers, buttons, `resolvePairing()`, `tick()` |
| render task | `CompanionModeActivity::render()` | draws under the render lock, answers `RENDER_STATUS` |

They meet in the handoff slots guarded by `g_mux` (one slot of each kind, the last
value wins), in the writer's queue, in the render lock - and, unguarded, in the
session table, which `resolvePairing()` writes from the main loop, and in the link
policy, which `tick()` steps from the main loop, and in the files of the SD card, which
the host task and the main loop read and rewrite with no lock that spans two file
operations.

| component | state | operations | what makes it correct |
|---|---|---|---|
| batch model (`CompanionBatchModel`) | title, body, tag state, poison, final flag, push id, clock of the last field | `onField`, `poll`, `resetOnDisconnect` | a page is one batch; a batch with a lost field is discarded whole; one answer for each push that asks; nothing stays buffered |
| content push (host task, loop) | the batch model between `onContentField()` and `loop()`; page, armed answer | START/CHUNK/END of text, drain, commit, discard | as above, across link loss, timeout, preemption |
| sessions and screen (`CompanionBle.cpp`) | `g_sessions`, `g_foreground` | HELLO, BYE, ACQUIRE, RELEASE, disconnect | one owner of the screen and everybody concerned is told; no session outlives its link; one session per install |
| pairing | `g_pendingPairing`, `pairingAppName`, prompt and deadline | HELLO of a stranger, confirm, refuse, time out, token | the app accepted is the app named; every request is resolved |
| screen of the activity | `screen`, `foregroundPeerKey`, idle clock, page | link edge, `applyForegroundChange`, `handlePendingImage`, commit, timers | the page belongs to the app that holds the screen; a driven screen does not doze off |
| link policy (`CompanionConnPolicy`, `ServerCallbacks`) | wanted, requested, confirmed profile; request in flight; one-shot flags of PHY and data length | connect, update, PHY, disconnect, tick | one link procedure at a time; the policy knows what the link is; fast while driven, relaxed after the holdoff |
| image transfer | reassembly, queue, staging file, one staged-image slot, armed answer | START/CHUNK/END, open/write/close/abort, commit to the gallery, draw, answer | pictures are drawn whole or not at all, exactly one answer; the staging file is cleaned up |
| who is enrolled (`CompanionPeerStore`) | `peers.json`, a token file per peer | HELLO's `isEnrolled`, `tokenMatches`, `ensurePeer`, `touch`; `issueToken`; eviction; the console's forgetting | nobody connects silently whom the user did not accept; a pairing lasts; no token is left behind |
| a peer's files (`CompanionPeerStore`) | list document and check-offs with their temporary files, gallery slots and index | `storeListDocument`, `writeListState`, `clearListState`, `commitImage` | nothing torn under a final name; a failure costs no stored document; the gallery repairs itself |
| to-do list (activity, `CompanionTodoDiff`, LIST_STATE) | document, check-offs as deviations from it, the loaded copy, the phone's walk | toggle, load, store, clear, paging, merge and push | check-offs are neither lost nor applied to another document |
| button policy, UI declaration | pure functions | routing of a press; shape of a declaration | agree with the protocol's tables |
| reader, fonts, network, settings, HAL, vendored code | - | - | outside the subject; see "components" in `PROJECT.json` |

What is hard here: the four tasks interleave freely and hand over single slots that
are overwritten; the link drops anywhere, and comes back; CHUNKs are sent without
response and get lost; the screen changes hands inside a push; the answer is given
seconds after the push, by another task; prompts, batches, requests and pages all
carry timeouts; a store of several file operations is cut short by a fault or by the
power, or meets the other task halfway; and a millisecond counter wraps. The "hazards" of
`PROJECT.json` list where each of these bites, with the properties that watch it.

## 2. Modules

| module | models | composes |
|---|---|---|
| `BatchModel` | `CompanionBatchModel`, operation by operation | - |
| `ContentPush` | phone, host task, main loop around the batch model | extends `BatchModel` |
| `ContentPushProofs` | theorems about `ContentPush` | extends `ContentPush`, TLAPS |
| `SessionLayer` | sessions, screen, pairing; the activity's screen | - |
| `SessionLayerProofs` | theorems about `SessionLayer` | extends `SessionLayer`, TLAPS |
| `ConnPolicy` | link policy, chain of link procedures, the central | - |
| `ConnPolicyProofs` | theorems about `ConnPolicy` | extends `ConnPolicy`, TLAPS |
| `ImageTransfer` | a push from START to `RENDER_STATUS` | - |
| `ImageTransferProofs` | theorems about `ImageTransfer` | extends `ImageTransfer`, TLAPS |
| `ImageWholeProofs` | the theorem that a picture is whole | extends `ImageTransferProofs` |
| `CheckList` | abstract: a to-do list as its user knows it | - |
| `TodoSync` | document, check-offs, list screen, the phone that pulls and pushes | implements `CheckList` |
| `TodoSyncProofs` | theorems about `TodoSync`, the refinement among them | extends `TodoSync`, TLAPS |
| `PeerFiles` | the file operations of one peer's directory, faults and power cuts | - |
| `PeerFilesProofs` | theorems about `PeerFiles` | extends `PeerFiles`, TLAPS |
| `PeerIndex` | `peers.json` and the tokens, between two tasks and the console | - |
| `PeerIndexProofs` | theorems about `PeerIndex` | extends `PeerIndex`, TLAPS |
| `MC...` | values of the constants for TLC | extends each |

What the surroundings of a component may do - how disciplined the phone is, what the
central grants, what fails - is a constant set, of which `Init` picks one member that
then stays for the whole behaviour (`SessionLayer`, whose state is the largest, takes
its `Races` from the run instead, the three modules of the store their `Faults`). One run therefore covers many surroundings, and a
property says itself in which of them it holds.

### BatchModel and ContentPush

The variables are those of the class: the three buffers (which hold the number of
the push they came from, instead of its bytes), `poisoned_`, `commitReady_`,
`batchPushId_`, `lastFieldMs_`. The clock counts modulo `ClockSpan`, because
`millis()` wraps and the subtraction in `poll()` relies on it; 0 is also the
"no field yet" of the code. `Poll` returns a record of the same shape as
`PollResult` in the variable `result`; `Together` in the type invariant says which of its
fields and of the buffers go together. `ContentPush` adds the client - a batch is a
`Plan`, a sequence of fields with or without the final flag and the wish for an
answer - and the loop in the two steps that matter, the look at the link and the
drain. A text field is `Complete` or `Dropped` (its reassembly found a gap).
`client` says whether the phone waits for its answer (`pipelined`), pushes a batch
within the timeout (`prompt`), may be preempted inside a batch (`preempted`) and
whether the link may change twice between two passes of the loop (`flaps`).

### SessionLayer

Host task: one action per opcode and connection event. Main loop: `NoticeLink`,
`Drain`, then one of timer, button or nothing (`EndPass`). `resolvePairing()` is
four steps (`Enrol`, `Admit`, `Fill`, `Answer`), since its SD writes take long and
the host task runs meanwhile. `told` and `hasScreen` are what the apps know: the
session id of their HELLO_OK and the last FOREGROUND/BACKGROUND. `keyed` is all
that survives `Restart` (power off, deep sleep or crash). A push is one handoff;
its inside is the subject of the other two modules. `Races` names the coincidences
a run admits; each is described at the head of the module.

### ConnPolicy

`desired`, `current`, `requested`, `inFlight`, `matched`, `logged` are fields of the
policy, `asked` the four units of its last request. Timestamps are replaced by the time
since then, saturating one past the threshold they are compared with. A parameter set is
the name of the profile that asks for it, or "Other". `procedure` is the link procedure
pending at the controller, `clash` remembers that one was started on top of another.
`tick()` is taken apart where the host task can interrupt it: it looks who holds the
screen (`TickLooks`), concludes what it wants (`TickDesires`), decides whether to ask
(`TickTests`), and stores the request field by field, in whatever order the compiler gives
the stores (`TickStores`), before it goes out (`TickSends`). With `setting.preempted`
`onConnect()`, `onDisconnect()`, `onGrant()` and the change of foreground may fall
between any two of them, as they may on the device. `vacant`, `hold` and `torn` are there
for the properties only: how long nobody has really held the screen, whether `tick()` has
noticed the last hold, and whether an event of the link fell among the stores. The
central is external: it opens with parameters of its own, grants, ignores (unless
`obliging`) or `volunteers`.

### ImageTransfer

`active`, `what`, `seq`, `gap`, `failed`, `buffer` are the host task's reassembly, `queue`
the writer's, `open`, `staging`, `incoming` its file, `staged` the handoff slot of a
picture and `handed` that of a change of foreground. The main loop (`loopAt`) takes both in one
pass (`Drain`), applies the foreground (`ApplyForeground`), moves the file into the gallery and
only then checks its size (`MoveStaged`), and takes the render lock for page, answer and
screen (`ArmPage`). There the newest picture of the gallery takes the place of the page
just set (`Refreshed`, the code's `refreshGalleryForForeground()`): the same one unless
the move or its index failed. `gallery` is that newest picture for each app, `shown` and
`armed` the page and the answer it owes, `holder` the app the loop draws for, `screen` which kind of
page is up, `due` and `tagsOnly` the render request. The render task decodes the file once
for the base and again for the grey planes (`DrawBase`, `DrawGrey`); `DrawOther` has its
other branches - the tags alone, an empty page, the prompt and the other screens, which
answer nothing, and the text page, which answers whatever is armed. A file is the sequence
of chunks written to it, so a mixture of two pushes can be told from either. `trouble` is
the set of things that go wrong: lost chunks, the SD card, a stalled writer, hasty clients,
handover and release, assets, refused pushes, redraws, link loss, changing tags, a pairing prompt.
Left out: browsing the gallery by its buttons, the idle timers, and a text batch that
meets a picture. (`SessionLayer` has the foreground as a subject of its own, and there a
picture is only the app it came from.)

### CheckList and TodoSync

`CheckList` is what the user relies on: one document, and boxes that change one at a
time, by the user (`Flip`), or all together with the document (`Replace`, also by no
document at all, between the two steps of its replacement); and, because
the device removes the old check-offs before it has the new ones in place, all together
at once (`Lose`). `TodoSync` has what the code has
instead: `lists` and `listState` are the two files (revision 0: no file), each of which is
replaced by removing it and giving a temporary file its name: `hostAt = "rename"` and
`at = "rename"` are the gaps between the two operations, in which a request of the phone
finds no table. `hostAt = "clear"` is the host task between the rename and
`clearListState()`. `listDocBuf`, `listDiff` are the activity's copies; `rows` what is on
the screen, `live` if boxes can be ticked, `message` the note over the list that the table
is full; `stored` the flag for the loop, which drops it under a message (`missed`).
The table of check-offs holds deviations from a document, so a
box is `Effective(document, table)` and a press that goes back to what the document
says erases the entry (`Toggled`). A press is in memory first, then on the card. The
phone is external and does what the protocol document asks: it is told of check-offs
(`told`), walks them page by page and starts over when total or revision change under
it, merges, and pushes a document with a new revision (`minted`). `late`, `presses` remember what
no client can know: the boxes ticked since its last page, and two presses inside one
gap of a walk; `blurred` a walk with such a gap, or with a page read or a connection made
while the table was being replaced; `lost` a table that was lost at its replacement. Of a push only
its END does anything; one that is refused, reset by an asset or by a change of foreground, or for
which START finds no memory, changes nothing and need not be answered (`Refuse`). The document's
bytes and the cursor are left out.

The mapping to `CheckList` is what can be seen: the rows while the list can be edited,
otherwise what a reader of the card would take the list to be - with a table in the gap
of its replacement counted as the one it still replaces, until it is lost.

### PeerFiles

One action per file operation of `storeListDocument()` (host task), `writeListState()`,
`clearListState()` and `commitImage()` (main loop): remove the temporary file, write,
remove the old file, rename, undo, clear. Contents are numbered; `Torn` is a file whose
write was cut. With `"io"` each operation may fail, with `"power"` the power may go
between any two, and inside a write. The card is assumed to keep single removes and
renames whole. `shelf`, `misread` are there for the properties.

### PeerIndex

`index` is `peers.json` as a set of peers and an order (the code's counter numbers are
used for nothing else), `stored` each peer's token as its phone would find it. Host task
and main loop each run one `job` at a time, in the steps that touch the card: a HELLO is
recognised, matched, loads the index into a copy, evicts, saves, gets its session,
touches, is answered; an accepted pairing does the same with a token in between; the
console's CFORGET, CRESETTEST and CRESET remove directories and then write the index.
`trusted` is what the user decided, `promised` what the phones were told, `seen` the
index as it would be if no save were lost, `excuse` what has gone wrong so far.

## 3. What is checked

### Runs that pass

| run | surroundings | properties |
|---|---|---|
| `content_clients` | four clients, from orderly to undisciplined; lost fields, link drops, timeout | `CommitIsOneOrderlyBatch`: what is applied comes from one push. `OnlyLossyBatchDiscarded`, `LostBatchNeverShown`: poison stays in its batch. `TagsLandWithTheirBatch`. `AnswerOwed`: a resolved push is answered or its answer is still latched. `AnsweredOnce`, whatever the client. `ClockedBufferDrains`: while the clock of the last field runs, the buffer empties |
| `sessions_orderly` | 3 apps, 2 slots, one app without a declaration, no coincidence | `ScreenAnnounced`, `NoGhostSession`, `PageBelongsToForeground`, `ConfirmsWhatIsAsked` |
| `sessions_races` | 2 apps, every coincidence but a shared table write | `OneSessionPerPeer`, `DrivenScreenStaysAwake` |
| `conn_policy` | six of the eight `Surroundings`: every central with `tick()` left alone; with `tick()` interrupted, those that volunteer nothing, for no property speaks of the others | `OneProcedure`, `FastMeansFast`, `ConnectAsksForSession`, `ForegroundGetsFastLink`, `RelaxesAfterHoldoff`, `UnattendedAsksForIdle` |
| `image_transfer` | one app, images and text, four sets of troubles, tags and a prompt among them | `ShownIsWhole`: what is drawn is one whole picture and, while the card works, the one the answer is for. `NothingLeftBehind`: staging file closed and gone. `TextHasNoHole` |
| `todo_sync` | writes, renames and allocations that fail, messages, lost news, link loss, power cuts between any two file operations; loads and stores apart, tables that can be read | `IsACheckList`: the refinement. `EditsAreKept`: check-offs change one at a time and leave only with their document or in the gap of their replacement. `SyncKeepsCheckOffs`: a push by the protocol loses no check-off but the late ones. `CatchesUp`: the screen comes to show the stored document |
| `peer_files` | every operation may fail, power cuts | `DocumentSurvives`: only a rename may cost the document. `GalleryErrsInOneSlot`: the gallery is wrong about no picture but the one the next push replaces |
| `peer_index` | 3 apps, room for 2, both tasks, the console, power cuts | `NoSilentStranger`, whatever overlaps; `PairingSticks`, `TokensAreListed` for one job at a time |
| `image_any` | two apps, one with a list, that preempt each other and lose the link; one hasty app with all other troubles | `AnsweredOnce`; `OwedIsAnswered`: a patient app gets its answer |

Each module has one type invariant, `TypeOK`, in one of these runs.

### Runs that disagree with a document or a comment

Each checks one property, in the smallest surroundings that break it; the quoted
sentence is in "findings" of `PROJECT.json`.

| run | what happens |
|---|---|
| `image_asset` | the icon of a background app resets the foreground app's push, which is never answered |
| `list_overlap` | the list screen loads a new document before the host task has removed the old check-offs; the first box ticked on the new document is removed with them |
| `pairing_sticks` | a HELLO loads `peers.json`, the user accepts another app, the HELLO's save overwrites the new entry: an app that was told HELLO_OK is a stranger at its next connect |

Further disagreements, which have no run of their own. Each can be seen by checking the
property named, which stands in its module, on the instance named:

| property | instance | what happens |
|---|---|---|
| `CommitIsOneBatch` | `MCContentPush`, `PreemptedClient` | a title of the preempted app is committed with the new app's body (`CompanionBle.cpp:435` resets the field on the air, not the batch model; `docs/companion-display-protocol.md:447`: the device "retains **no content for a background session**") |
| `IdleClockFollowsScreen` | `sessions_orderly` | a prompt that is refused with nobody on the screen leaves the idle clock stopped and the device awake for ever (`CompanionModeActivity.cpp:2205`, `CompanionModeActivity.h:335`) |
| `PairingResolves` | `sessions_orderly` | a prompt covered by a push or a handover never times out (`CompanionModeActivity.cpp:1016`) |
| `ReportedBeforeRepeated` | `conn_policy` | a request that failed is repeated before it is reported, and so never reported (`CompanionBle.cpp:2084`) |
| `FastMeansFast`, `ForegroundGetsFastLink` without `torn` | `conn_policy` | a link event between two stores of `pump()` makes the policy credit the idle parameters as the session profile; it never asks again and the foreground stays slow (`CompanionConnPolicy.cpp:42`; its header, line 15, says that a single task calls the class, and `CompanionConnPolicy.cpp:81`: "The link only counts as being in a profile once the central says so") |
| `RelaxesAfterHoldoff` without `hold = "missed"` | `conn_policy` | a hold that begins and ends between two ticks does not restart the holdoff (`CompanionConnPolicy.h:115`: the clock "resets on every reacquisition") |
| `EveryPushIsAnswered` | `image_asset` with `Environments` of `{"tags"}` or of `{"prompt"}` alone | a tag that changes in the pass that arms a picture, or a prompt in front of it, is drawn instead, and nothing draws the picture: the push is answered by a later redraw or never (`CompanionModeActivity.cpp:2633`; `docs/companion-display-protocol.md:1225`: "exactly one `RENDER_STATUS` per push that asked for one") |
| `ShownIsWhole` with the answer though the card fails | `image_transfer` | a failed move, or an index not saved, lets the newest picture of the gallery replace the page: an older picture is drawn and answered as Displayed (`CompanionModeActivity.cpp:1210`; the comment at line 1173 means the scratch file to be displayed) |
| `CatchesUp` without `missed` | `todo_sync` | a document stored while the message over the list is up is not loaded, nor when the message goes: the list stays stale, and can be edited (`CompanionModeActivity.cpp:1611`, `:2219`, `:1026`) |
| `EditsAreKept` without `lost'` | `todo_sync` | `writeListState()` removes the table before the rename: if the rename fails or the power goes, every check-off is gone (`CompanionPeerStore.cpp:584`; `CompanionModeActivity.cpp:1607`: an edit dropped in silence "is the one failure mode this feature cannot have") |
| `SyncKeepsCheckOffs` with the gap not `blurred` | `todo_sync` | a page read, or a connection made, between that remove and that rename finds no check-offs; the phone merges none and its push clears them (`CompanionBle.cpp:1146`) |
| `TextIsWhole` | `MCImageTransfer`, `OnlyLoss`, `OnlyTexts` | a text field that lost its last chunk is shown as complete (`CompanionBle.cpp:1691`) |
| `EditsAreKept`, `IsACheckList` | `list_overlap` with `Faults = {"read"}` | `loadListDiff()` takes a table of check-offs it cannot read, for the card's sake or for want of memory, for an empty one; the list can be edited and the next press overwrites the table (`CompanionModeActivity.cpp:1417`) |

Read off the models, without a property of their own:

- `commitImage()` comes before the check of the size, so a picture that lacks its last
  CHUNKs is answered DecodeFailed and yet stays in the gallery, as its newest one; a redraw then
  finds an image it cannot decode (`CompanionModeActivity.cpp:1171`, `:1187`);
- the text page answers what is armed, also a picture: a prompt that is confirmed over an
  armed picture leaves the text screen, which answers Displayed for a picture nobody saw;
- the push of a list document has no answer if START finds no memory
  (`CompanionBle.cpp:1382`), if an asset (`:1321`) or a handover (`:435`) resets it before
  its END, or if its app releases the screen before the answer (`:2143`);
- a failed rename in `storeListDocument()` loses the old document, although the comment at
  `CompanionPeerStore.cpp:490` says that a push that fails to write leaves the old one
  (`DocumentSurvives` grants exactly this);
- a `commitImage()` whose index is not saved keeps the old counter too: the next push
  takes the same slot, and until then the index lists the new picture under the old
  content id. The comment at `CompanionPeerStore.cpp:398` expects it to last for a round;
- the host task's `clearListState()` may remove the temporary file the main loop is about to
  rename: a check-off then fails to be stored with nothing wrong with the card;
- `forgetAllPeers()` with an index that cannot be read leaves every token on the card,
  though `CompanionPeerStore.h:346` says that every peer directory goes; the three console
  commands answer ok whether or not the index was written;
- an index that cannot be read inside `ensurePeer()` is started over with one peer;
- a HELLO that was matched before its peer was forgotten is admitted once more, and
  lists the peer again - without a token, so the next connect is prompted;
- a document push is not the only thing that clears check-offs: a load that finds those
  of another document does too, after a power cut between the two files.

### The conditions in the properties

A condition is there because TLC finds a counterexample without it. They say what the
code relies on its surroundings for:

| property | condition | without it |
|---|---|---|
| `CommitIsOneOrderlyBatch`, `AnswerOwed` | the client waits for its answer, and is prompt or not interrupted | a batch that is complete but not yet drained is overwritten by the next: mixed page, lost answer |
| `LostBatchNeverShown` | the client waits and is prompt | the timeout takes the poison with it and the late rest of the batch is drawn as a batch of its own |
| `TagsLandWithTheirBatch` | as above; tag state is the batch's last field | tag state in the middle of a batch is drained before the batch resolves |
| plans of `content_clients` | only a batch with text asks for an answer, and the last field carries the flag | tag state alone is never answered; an unflagged field waits for the timeout |
| `ClockedBufferDrains` | no field lands at `millis()` = 0 | the clock's sentinel: the field stays until the next one |
| `NoGhostSession` | the link does not drop inside `resolvePairing()` | a session is admitted after the link is gone |
| `OneSessionPerPeer` | no allocation inside another | both tasks take the same free slot: two apps share a session id |
| `ConfirmsWhatIsAsked` | no prompt waits in its slot over a link drop | Confirm accepts an app other than the one named |
| `PageBelongsToForeground` | no push waits in its slot over a handover | a preempted app's push lands on its successor's page |
| `ScreenAnnounced` | an app does not restart on a live link | it acquires the screen it already holds and is not told |
| `OneProcedure` | an obliging central, `tick()` not interrupted | a request is repeated while PHY or data length is pending |
| `UnattendedAsksForIdle` | the same | the fast profile never granted, the policy takes the central's own parameters for the relaxed ones and asks for nothing |
| `FastMeansFast` | the central volunteers nothing; no event of the link among the stores of a request (`torn`) | an unasked update is taken for no grant, and the slow link for fast; the torn request, above |
| `ForegroundGetsFastLink` | an obliging central that volunteers nothing; not `torn` | the same, and the fast profile is not asked for again |
| `RelaxesAfterHoldoff` | no hold too short for a tick to see | above |
| `ConnectAsksForSession`, `RelaxesAfterHoldoff` | `tick()` not interrupted | `tick()` acts on the link that was there when it looked |
| `ShownIsWhole` | pushes do not overlap, by haste, handover or reconnect; a failed move is not followed by a redraw | the one staging file is rewritten under the page or under the move |
| `ShownIsWhole`, what it says of the answer | the card works | an older picture of the gallery, above |
| `OwedIsAnswered` | the app waits, no assets, tags or prompts | a staged push is overwritten in its one slot; see `image_asset` and above |
| `NothingLeftBehind`, which speaks of the staging paths only | no abort is lost, no move fails, no overlap over a handover or reconnect | the partial file stays until the next push |
| `DocumentSurvives` | not between the two steps of the rename | the old file goes before the new one is renamed |
| `GalleryErrsInOneSlot` | no index was misread since the last save | a commit that cannot read the index starts over at slot 0 |
| `SyncKeepsCheckOffs` | not the boxes ticked after the last page, nor two presses in one gap of the walk | the push deletes what the phone has not seen; the protocol document admits it |
| the same | nothing read, and no connection made, in the gap of a table's replacement; no table lost there | above |
| `EditsAreKept` | not in that gap (`lost'`) | above |
| `CatchesUp` | the list could be loaded; no news under a message or overwritten in its slot (`missed`) | above |
| `todo_sync`: no `"overlap"` | the main loop loads no list while the host task stores one | see `list_overlap` |
| `todo_sync`: no `"read"` | the table of check-offs can be read | see above |
| `NoSilentStranger` | no failed read, save or remove | a directory that is not removed, an index that is lost |
| `PairingSticks`, `TokensAreListed` | nor two jobs at once | see `pairing_sticks`; an entry overwritten leaves its token behind |

An answer goes to whoever holds the screen when it is given: after a handover, or a
reconnect, that is another app than the one that pushed (`answers` records who got
it). A gap in an image is answered at END, not at the gap.

### Bounds

| constant | value | why it is enough |
|---|---|---|
| `MaxBatch`, `MaxPush` | 2; 3 with one app | the code keeps one of everything - batch, reassembly, file, slot, armed answer: the next push finds the debris of the last, a third that of an overtaken one |
| `Chunks` | 2 | a first and a last; a hole and a lost tail |
| `QueueLen` | 2 or 3 | full within one push |
| `MaxSessions` | 2 | three apps fill the table |
| `Timeout`, `Grace` | 1 | times are counted in these units |
| `Holdoff` | 4 | two retries fit inside it |
| `ClockSpan` | 4 | the clock wraps within a run |
| `Items`, `PageSize`, `MaxEntries` | 3, 1, 2 | an entry moves from one page to another, and a third one finds the table full; the theorems hold for any table size. 2 items in `list_overlap` |
| `MaxRev` | 2 | the document and its successor, with a walk that spans both; the theorems hold for any number |
| `MaxImages`, `MaxWrites` | 2, 3 | the ring comes round to a slot in use, after a commit that failed |
| `Peers`, `MaxPeers` | 3, 2 | an eviction, with a peer before and after it in the order |

`peer_index` is symmetric in its peers, which no definition tells apart and of which no
property speaks in turn, and checks no liveness. Its constraint `MCCardWorks` stops the
search at a failed read, save or remove, for all its properties excuse what comes after.
`pairing_sticks` leaves the console out by a constraint, so that the counterexample is
not about forgetting. No other run uses a constraint or symmetry.

### Fairness

`ContentPush`: the loop's two steps and the clock (the loop is never blocked for good,
`millis()` advances - except that time stands still for a prompt client inside a
batch, so `ClockedBufferDrains` speaks of the others). `SessionLayer`: the loop keeps
passing (`WF`), and since every pass looks at the prompt's deadline, a prompt that is
seen in pass after pass is timed out (`SF` on `PromptTimeout`; the passes in between
disable it). `ConnPolicy`: the loop's tick (`WF`); the clock, and the end of a pending
procedure, which the controller's procedure timeout enforces - both `SF`, because they
happen between two ticks, and a tick of several steps disables them again and again.
`ImageTransfer`: writer task and render task are scheduled (`WF`); `SF` on the main loop,
because the render lock is a FreeRTOS mutex, which a redrawing render task gives to the
waiting loop. `TodoSync`: the main loop, and the host task once it has begun to store a document
(`WF`). `PeerFiles` and `PeerIndex` claim safety only. Nothing is
assumed of phones, centrals' good will or users.

### Deadlock

Every run checks for deadlock. `ImageTransfer` names its end (`Done`): every push is
begun, or the app waits for an answer it will not get.

## 4. What is proved

| theorem | states | for every |
|---|---|---|
| `ContentTyping` | `Spec => []TypeOK` of `ContentPush` | payload set, clock span, timeout, plan set, client |
| `NeverAnsweredTwice` | `Spec => []AnsweredOnce` of `ContentPush` | the same |
| `LossNeverShown` | `Spec => LostBatchNeverShown` | the same |
| `OnePushPerPage` | `Spec => []CommitIsOneOrderlyBatch` | the same, if `EndsEveryBatch` |
| `PoisonStaysInItsBatch` | `Spec => []OnlyLossyBatchDiscarded` | the same, if `EndsEveryBatch` |
| `TagsRideTheirBatch` | `Spec => TagsLandWithTheirBatch` | the same, if `EndsEveryBatch` and `TagsComeLast` |
| `AnswersAreOwed` | `Spec => []AnswerOwed` | the same, if `AskersHaveText` |
| `SessionTyping` | `Spec => []TypeOK` of `SessionLayer` | set of apps, number of slots, races |
| `OneSessionEach` | `Spec => []OneSessionPerPeer` | the same, without `"slot"` |
| `NoSessionIsAGhost` | `Spec => []NoGhostSession` | the same, without `"slot"`, `"resolve"`, `"relaunch"` |
| `TheHolderIsAnnounced` | `Spec => []ScreenAnnounced` | the same |
| `DrivenStaysAwake` | `Spec => []DrivenScreenStaysAwake` | the same, without `"slot"` |
| `PageIsTheHolders` | `Spec => []PageBelongsToForeground` | the same, without `"slot"`, `"late"` |
| `ConfirmedIsAsked` | `Spec => ConfirmsWhatIsAsked` | the same, without `"flap"`, `"stale"` |
| `PolicyTyping` | `Spec => []TypeOK` of `ConnPolicy` | grace time and holdoff, central, schedule |
| `FastIsFast` | `Spec => []FastMeansFast` of `ConnPolicy` | the same |
| `NewLinkAsksForSession` | `Spec => ConnectAsksForSession` | the same |
| `RelaxesOnlyUnattended` | `Spec => RelaxesAfterHoldoff` | the same |
| `NeverTwoProcedures` | `Spec => []OneProcedure` | the same, if `3 * Grace < Holdoff` |
| `TypeCorrect` | `Spec => []TypeOK` of `ImageTransfer` | set of apps, number of pushes and CHUNKs, queue length, troubles |
| `TextsAreRuns` | `Spec => []TextHasNoHole` | the same |
| `NeverAnsweredTwice` | `Spec => []AnsweredOnce` of `ImageTransfer` | the same |
| `StagingIsReleased` | `Spec => []NothingLeftBehind` | the same |
| `OnlyWholePictures` | `Spec => []ShownIsWhole` | the same |
| `TodoTyping` | `Spec => []TypeOK` of `TodoSync` | set of items, page size, table size, number of documents, faults |
| `TodoImplementsCheckList` | `Spec => IsACheckList` | the same, without `"overlap"` and `"read"` |
| `TodoKeepsEdits` | `Spec => EditsAreKept` | the same |
| `SyncLosesNothing` | `Spec => SyncKeepsCheckOffs` | the same |
| `NothingTorn` | `Spec => []TypeOK` of `PeerFiles` | gallery size, number of writes, faults |
| `StoredDocumentSurvives` | `Spec => []DocumentSurvives` | the same |
| `GalleryErrsOnlyWhereItHeals` | `Spec => []GalleryErrsInOneSlot` | the same |
| `IndexTyping` | `Spec => []TypeOK` of `PeerIndex` | finite set of peers, `MaxPeers`, faults |
| `NoStrangerIsEnrolled` | `Spec => []NoSilentStranger` | the same |
| `PairingLasts` | `Spec => []PairingSticks` | the same |
| `NoTokenUnlisted` | `Spec => []TokensAreListed` | the same |

So every safety property and every action property of a passing run is a theorem. They
assume the named `ASSUME`s of the modules (`ModelAssumption` and its like), and what
the third column says. Those hypotheses are about the constants and are met by every passing run
that checks the property; conditions inside a property are in the table of section 3.

- `EndsEveryBatch`: the last field of every batch carries the flag. `TagsComeLast`: tag
  state is the last field of a batch that has it. `AskersHaveText`: a batch that asks for
  an answer has a title or a body. The batches of the protocol document, from which
  `content_clients` takes its plans, are so; an unflagged batch and tag state that asks for
  an answer are allowed too, and with a plan of that kind added to the run TLC breaks the
  property (section 3, conditions).
- `3 * Grace < Holdoff`: the three procedures a new link begins with can each be waited
  for, for the whole grace time, before the link is relaxed. `kConnParamsGraceMs` is 3 s and `kIdleHoldoffMs` 10 s
  (`CompanionConnPolicy.h`); with `Holdoff = 3 * Grace` the invariant fails in TLC.
- the races left out are those of `RaceNames`, each a coincidence of two tasks. The
  theorems of `SessionLayer` admit every race the run of their property does, and those of
  `sessions_orderly` more.
- `"overlap"` and `"read"` are shown to cost an edit by `list_overlap` and by section 3.

What a theorem says is its property's words with the conditions of section 3. In particular
`FastIsFast` admits a host task that interrupts `tick()` anywhere but among the stores of a
request; `RelaxesOnlyUnattended` measures the holdoff from the handover itself;
`StagingIsReleased` speaks of the staging paths and not of the gallery; and
`TodoKeepsEdits` and `SyncLosesNothing` grant what the gap between the removal of
`list_state.bin` and its rename costs.

### The arguments

None of the properties is inductive. Each paragraph names the invariant that is; all of
them were checked by TLC on the run of the property before they were proved.

**ContentPush.** Nothing in `AnsweredOnce` says that a push id waiting in the batch
model, or in the phone's hands, has not been answered; `IInv` does. For a client that waits
and is not interrupted, `OInv` adds that text, poison and push id in the batch model are
the last batch's (`OneOwner`), that none of them is left when the next begins
(`GoneBefore`), and that what the last poll reported is one push (`Reported`); `TInv` adds
that tag state which rides a batch makes it ready, so that both leave with the next poll.
For a punctual client, who may be interrupted, the argument is about time instead: while it
is inside a batch the clock of the last field is within the timeout (`Fresh`), so the poison
of a lost field is still there when the rest arrives (`WInv`: `Quiet`, `NoLossHidden`), and
a batch that asks for an answer has text to come or text whose clock has not run out, until
it is ready with its push id latched (`EInv`: `Owes`).

**SessionLayer.** `OneSessionPerPeer` needs to know that the slot `resolvePairing()` has
found and not yet filled is still the right one (`SlotReserved`), which is what the race
for the slot takes away. `NoGhostSession` and `ScreenAnnounced` share `OrderlyInv`: an app
told of a session has it (`TellsTruth`); a session is its app's, or the one whose HELLO_OK
is about to be sent (`Attended`); the app on the foreground session knows (`Foreground`);
the peer being admitted and the one being asked about are on the link, without session and
without token (`Admitting`, `Asking`). For the activity, `DriveInv` says that the screen is
held only on a live link (`NeedsLink`) and that the activity draws for the holder and is
awake, or finds the holder in its handoff slot (`ScreenFollows`). `PageInv` adds that page
and picture are the drawn app's (`Owned`) and that a push in its slot is from the app the
activity draws for or is about to (`PushKnown`); `PromptInv` that the name on the prompt is
the pending one's, or both died with a link whose loss the loop has still to notice
(`Prompted`).

**ConnPolicy.** A grant makes the profile *last requested* the current one, so the profile
requested and the units asked for must go together. `FastInv` says that they do outside the
stores of a request (`AsksWhatIsRequested`) and, as far as it is stored, inside
(`StoredSoFar`), until an event of the link tears it; and that while the link is
taken to be fast the only slow update that can come in is the one asked for, with no request
for the fast profile about to displace it (`SlowUpdateIsAsked`). `RestInv` says that without
a link the policy is as after its reset. `ClockInv` compares the policy's clock, which moves
at ticks, with the time since the last hold really ended: the former is behind, while
no hold was missed (`ClockBehind`), so what `tick()` concludes from it, step by step, holds of
the latter too (`WishesInTime`). `ChainInv` accounts for every procedure: a request in flight is the one
pending at the controller (`AskedIsPending`), it is stored while none is (`AsksAlone`), and
parameters, PHY and data length follow each other once a link, each answered within a tick,
so the chain is through (`ChainOnTime`, `WantsChain`) before the holdoff, or a repetition after the grace
time, could start another.

**ImageTransfer.** A push is in one place at a time - on the air, in the queue as its END,
in the staged slot, in the loop's hands, armed - and a push in one of them has no answer
(`OnePlace`, `NotYetAnswered`); this needs that the queue holds one END per push. A text
buffer is numbered from one (`BInv`). `NothingLeftBehind` rests on the writer's queue: an
`open` in it is followed by its `end` or `abort`, unless it is the push still on the air, and
an open file has such a message coming (`Closing`, `OneStager`, `Cleared`). `ShownIsWhole`
is the longest. Under its conditions one push at a time is past the host task (`OneOut`),
the staging file is not open while one is (`Behind`); the queue is a single stream, each
message the next of its push and the first the next of the file (`Stream`), which ends where
the host's counter is (`Tip`); so a file is always the first CHUNKs of its push, the
gallery may keep such a part, and what passes the check of the size is the whole. It stays
as it is until page and panel have it (`PageKept`, `PanelKept`). That the answer is for what
is drawn needs the loop to draw for the app that pushes (`Linked`), its gallery to list the
picture just moved as the newest (`PageKept`), and, where pages are not redrawn, a picture
that is about to be drawn to be owed an answer (`Asked`).

**TodoSync.** `TodoImplementsCheckList` needs an invariant because a step of the main loop
shows what it has in memory, and `CheckList` speaks of the document. `IInv` says that the
loaded copies belong to the document on the screen, with one press more while it is being
written (`ShownFromMemory`); that this document is the stored one or older, and if it is
the stored one that the card says the same, or has lost the table (`ShownFromCard`); that a load
and a store are never both under way, and that the check-offs waiting to be cleared belong to another
revision (`LoadsApart`, the part the assumption pays for); and that revisions only grow
(`Numbered`). `ToggleFlips` is the lemma about `applyToggle()`: it changes the effective
state of one item. `StepShows` then says of each step that it shows what it did
(`ShowsAsBefore`), flips one box (`OneFlipped`), loses all check-offs (`AllLost`) or replaces
the document (`Replaced`), which are the steps of `CheckList`; `AllLost` comes when a list is
loaded again or left, or the power goes, after a replacement of the table has failed or in it. `TodoKeepsEdits` follows from the
same invariant: in the gap the table counts as the one it replaces, and only a failed rename or
a power cut there sets `lost`. `SyncLosesNothing` is about the walk. A table's entries
have ranks, and a page is the entries of the next `PageSize` ranks; so what the phone has
is an initial segment of the table, a page extends it, and a page that is empty or reaches
the total ends it with the whole table (`PageJoins`, `NothingAfter`). One press changes the
number of entries (`FlipCounts`, because an entry never repeats its document, `Deviate`),
which the phone sees; two presses in one gap of the walk it may not, and `blurred` records that,
as it does a page read while the table was being replaced (`Walking`). At the end of the walk the
phone differs from the table in what was pressed since (`Walked`), a phone that was told nothing
and walked nothing misses nothing (`Untold`), a revision names one document (`Known`), and the
document it merges says what the card says (`PushHolds`).

**PeerFiles.** What is to be proved is almost inductive. `IInv` adds what the two tasks hold
in their hands: past the write the temporary file is whole or gone (`HostHolds`,
`MainHolds`), and a commit's copy of the index is the one on the card or one started over
(`CommitHolds`).

**PeerIndex.** The index may be rewritten from a copy that is as old as the other task's
whole job, so for `NoSilentStranger` the invariant relates the copies, the tokens and the
user's decisions: a peer with a token on the card - or whose token the main loop is about
to write - that the host task's copy has is still listed (`HostKnows`); one that is
listed is in the main loop's copy or about to be removed (`MainKnows`); and all such
peers are trusted (`Trusted`). It rests on the order in the code: the token goes first when a
peer is forgotten or evicted and comes last when it is paired. `PairingSticks` and
`TokensAreListed` share `SInv`, about one job at a time (`Alone`): every index that is
written, in a job's hand or on the card, is within the index as it would be if no save
were lost (`Within`), in peers and in order. So the oldest peer of an index that overflows
has `MaxPeers` others seen after it, and is none of those a promise is still owed to.

Only model-checked is the liveness - `ClockedBufferDrains`, `ForegroundGetsFastLink`,
`UnattendedAsksForIdle`, `OwedIsAnswered`, `CatchesUp` - because it needs `ENABLED` of the
fair actions.

## 5. What is left

In this order:

1. `ButtonPolicy`, `UiDeclaration`, `TodoNav` as operators against reference
   definitions.
2. `supersedePendingRenderStatus()` between text and image: one module for the answers
   of both; the answer of a push that outlived its link.
3. An abstract display - at most one owner, one page, each push answered once - and
   `SessionLayer` and `ImageTransfer` shown to implement it.
4. `storeAsset()`: the declaration and the icon of a peer.

Not modelled for good: the bytes of messages and files, fonts and pixels, the reader,
network services and settings, the injections and reports of the serial test console.
