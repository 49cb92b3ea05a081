------------------------------ MODULE TodoSync ------------------------------
(***************************************************************************)
(* The to-do list of one peer: the document the phone pushes (lists.bin),  *)
(* the check-offs the user makes on the device (list_state.bin, deviations *)
(* from that document), the list screen, and the phone that pulls the      *)
(* deviations page by page, merges them and pushes a new document.         *)
(*                                                                         *)
(* Three actors share the card: the host task stores a document and then   *)
(* removes the check-offs of the one before, the main loop loads both for  *)
(* the screen and rewrites the check-offs at each press, and the phone's   *)
(* requests read them.  Either file is replaced by removing it and giving  *)
(* a temporary file its name, two steps with a gap between them.  Contents *)
(* are whole here; PeerFiles takes the writes apart.                       *)
(***************************************************************************)
EXTENDS Naturals, FiniteSets

CONSTANTS Items,       \* item ids; their order is the order of the entries
          PageSize,    \* kListStateEntriesPerNotify
          MaxEntries,  \* kMaxDiffEntries
          MaxRev,      \* bound: documents the phone pushes
          Edits,       \* bound: the sets of items the phone changes at once
          Faults       \* what may go wrong; see FaultNames

(* write:    the check-offs are not written, and the old file stays        *)
(* table:    the file with the new check-offs does not get its name, and   *)
(*           the old one is gone                                           *)
(* document: the same, of a new document                                   *)
(* memory:   no buffer for a document, or no table for its check-offs      *)
(* read:     list_state.bin is there and cannot be read, for the card's    *)
(*           sake or for want of memory for its bytes                      *)
(* power:    the device loses its power                                    *)
(* slot:     the news of a document is overwritten by another peer's       *)
(* overlap:  the main loop loads the list while the host task stores it    *)
FaultNames == {"write", "table", "document", "memory", "read", "power", "slot", "overlap"}

ASSUME ItemsAssumption == Items \subseteq Nat /\ IsFiniteSet(Items)
ASSUME PageAssumption == PageSize \in Nat \ {0}
ASSUME BoundsAssumption == MaxEntries \in Nat /\ MaxRev \in Nat \ {0}
ASSUME EditsAssumption == Edits \subseteq SUBSET Items
ASSUME FaultsAssumption == Faults \subseteq FaultNames

VARIABLES lists, listState, tempFile,          \* the files; a new table not yet in place
          hostAt, stored,                      \* host task; g_pendingListDocReady
          at, open, message,                   \* the main loop, Screen::List or ::Message
          listDocBuf, listDiff, rows, pressed,
          link, told, base, walk, push,        \* the phone, and what it was told
          minted,                              \* the newest revision stored
          late, presses,                       \* witnesses: pressed since the last page
          missed, lost                         \* news dropped; a table lost at its replacement

cardVars  == <<lists, listState, tempFile, lost>>
hostVars  == <<hostAt, stored>>
mainVars  == <<at, open, message, listDocBuf, listDiff, rows, pressed, missed>>
phoneVars == <<link, told, base, walk, push, minted>>
userVars  == <<late, presses>>
vars == <<cardVars, hostVars, mainVars, phoneVars, userVars>>

(* A document, and the deviations from one: the items the user set and     *)
(* those the user cleared.  Revision 0 stands for no file.                 *)
Docs  == [rev : 0 .. MaxRev, checked : SUBSET Items]
Diffs == {d \in [rev : 0 .. MaxRev, on : SUBSET Items, off : SUBSET Items] : d.on \cap d.off = {}}
NoDoc == [rev |-> 0, checked |-> {}]
Empty(r) == [rev |-> r, on |-> {}, off |-> {}]
NoDiff == Empty(0)

Entries(diff) == diff.on \cup diff.off
Effective(doc, diff) == (doc.checked \ diff.off) \cup diff.on

KeptEntry(diff, doc, i) ==
  IF i \in Effective(doc, diff) THEN [diff EXCEPT !.off = @ \cup {i}]
                                ELSE [diff EXCEPT !.on = @ \cup {i}]

(* Diff::applyToggle: back to what the document says erases the entry.     *)
Toggled(diff, doc, i) ==
  LET after == i \notin Effective(doc, diff)
  IN  [diff EXCEPT !.on  = IF after /\ i \notin doc.checked THEN @ \cup {i} ELSE @ \ {i},
                   !.off = IF ~after /\ i \in doc.checked THEN @ \cup {i} ELSE @ \ {i}]

(* It refuses a new entry when the table is full. *)
Refused(diff, i) == i \notin Entries(diff) /\ Cardinality(Entries(diff)) = MaxEntries

(* What readListState and its like find: a table that cannot be read is    *)
(* taken for none.                                                         *)
Readable == {listState} \cup (IF "read" \in Faults THEN {NoDiff} ELSE {})

(* The check-offs the device keeps: the table on the card or, while it is  *)
(* being replaced, the one the screen still shows.  They are of the stored *)
(* document or of one before it; what the list is with them.               *)
Deviations(doc, boxes) == [rev |-> doc.rev, on |-> boxes \ doc.checked, off |-> doc.checked \ boxes]
Table   == IF at = "rename" THEN Deviations(rows.doc, rows.boxes) ELSE listState
Current == lists # NoDoc /\ Table.rev = lists.rev
OnCard  == IF Current THEN Effective(lists, Table) ELSE lists.checked

NoRows == [doc |-> NoDoc, boxes |-> {}, live |-> FALSE]
NoWalk == [at |-> "none", pos |-> 0, rev |-> 0, total |-> 0, on |-> {}, off |-> {},
           blurred |-> FALSE]
NoPush == [doc |-> NoDoc, from |-> 0, own |-> {}, blurred |-> FALSE]

TypeOK ==
  /\ lists \in Docs /\ listState \in Diffs /\ tempFile \in BOOLEAN
  /\ hostAt \in {"idle", "rename", "clear"} /\ stored \in BOOLEAN
  /\ at \in {"top", "load", "input", "write", "rename"} /\ open \in BOOLEAN /\ message \in BOOLEAN
  /\ listDocBuf \in Docs /\ listDiff \in Diffs
  /\ rows \in [doc : Docs, boxes : SUBSET Items, live : BOOLEAN]
  /\ pressed \in SUBSET Items
  /\ link \in BOOLEAN /\ told \in BOOLEAN /\ base \in Docs
  /\ walk \in [at : {"none", "walking", "done"}, pos : Nat, rev : 0 .. MaxRev, total : Nat,
               on : SUBSET Items, off : SUBSET Items, blurred : BOOLEAN]
  /\ push \in [doc : Docs, from : 0 .. MaxRev, own : SUBSET Items, blurred : BOOLEAN]
  /\ minted \in 0 .. MaxRev
  /\ late \in SUBSET Items /\ presses \in 0 .. 2 /\ missed \in BOOLEAN /\ lost \in BOOLEAN

Init ==
  /\ lists \in {d \in Docs : d.rev = 1 /\ d.checked \in Edits} /\ base = lists /\ minted = 1
  /\ listState = NoDiff /\ tempFile = FALSE /\ lost = FALSE
  /\ hostAt = "idle" /\ stored = FALSE
  /\ at = "top" /\ open = FALSE /\ message = FALSE /\ missed = FALSE
  /\ listDocBuf = NoDoc /\ listDiff = NoDiff /\ rows = NoRows /\ pressed = {}
  /\ link = FALSE /\ told = FALSE /\ walk = NoWalk /\ push = NoPush
  /\ late = {} /\ presses = 0

----------------------------------------------------------------------------
(* The main loop *)

(* loadListDocBuf: the document, or nothing if no buffer for it is left.   *)
BeginLoad ==
  /\ hostAt = "idle" \/ "overlap" \in Faults
  /\ at' = "load" /\ listDiff' = NoDiff /\ missed' = FALSE
  /\ \/ listDocBuf' = lists
     \/ "memory" \in Faults /\ listDocBuf' = NoDoc

(* The drain: a document stored for the list on the screen is loaded; with *)
(* a message over the list, or another peer's key in the slot, the news is *)
(* dropped.                                                                *)
Drain ==
  /\ at = "top" /\ stored' = FALSE
  /\ \/ stored /\ open /\ ~message /\ BeginLoad
     \/ /\ stored /\ open => message \/ "slot" \in Faults
        /\ at' = "input" /\ missed' = (missed \/ (stored /\ open))
        /\ UNCHANGED <<listDocBuf, listDiff>>
  /\ UNCHANGED <<cardVars, hostAt, open, message, rows, pressed, phoneVars, userVars>>

(* enterListDocument, from the picker or at a change of foreground.        *)
EnterList ==
  /\ at = "input" /\ ~open /\ lists # NoDoc
  /\ BeginLoad /\ open' = TRUE
  /\ UNCHANGED <<cardVars, hostVars, message, rows, pressed, phoneVars, userVars>>

(* loadListDiff and reloadListView: check-offs of another revision are     *)
(* removed; without memory for them the list is shown read-only.  A table  *)
(* that cannot be read is an empty one, and the next press overwrites it.  *)
Unchecked == TRUE
NeverSame == FALSE
SameRevision == listState.rev = listDocBuf.rev

FinishLoad ==
  /\ at = "load" /\ at' = "top"
  /\ \/ /\ listDocBuf # NoDoc
        /\ listDiff' = IF SameRevision THEN [listState EXCEPT !.rev = listDocBuf.rev]
                                       ELSE Empty(listDocBuf.rev)
        /\ listState' = IF SameRevision THEN listState ELSE NoDiff
        /\ rows' = [doc |-> listDocBuf, boxes |-> Effective(listDocBuf, listDiff'), live |-> TRUE]
     \/ /\ listDocBuf # NoDoc /\ "read" \in Faults
        /\ listDiff' = Empty(listDocBuf.rev) /\ UNCHANGED listState
        /\ rows' = [doc |-> listDocBuf, boxes |-> listDocBuf.checked, live |-> TRUE]
     \/ /\ listDocBuf = NoDoc \/ "memory" \in Faults
        /\ rows' = [doc |-> listDocBuf, boxes |-> listDocBuf.checked, live |-> FALSE]
        /\ UNCHANGED <<listDiff, listState>>
  /\ UNCHANGED <<lists, tempFile, lost, hostVars, open, message, listDocBuf, pressed, missed,
                 phoneVars, userVars>>

(* By the user, or for another screen at a change of foreground. *)
LeaveList ==
  /\ at = "input" /\ open
  /\ at' = "top" /\ open' = FALSE /\ message' = FALSE /\ missed' = FALSE
  /\ listDocBuf' = NoDoc /\ listDiff' = NoDiff /\ rows' = NoRows
  /\ UNCHANGED <<cardVars, hostVars, pressed, phoneVars, userVars>>

(* handleListNav, the check-off: in memory first. *)
Toggle(i) ==
  /\ at = "input" /\ ~message /\ rows.live /\ ~Refused(listDiff, i)
  /\ at' = "write" /\ pressed' = {i}
  /\ listDiff' = Toggled(listDiff, listDocBuf, i)
  /\ UNCHANGED <<cardVars, hostVars, open, message, listDocBuf, rows, missed, phoneVars, userVars>>

(* A full table: the user is told for a few seconds, and the screen is not *)
(* the list meanwhile.                                                     *)
TooManyEdits(i) ==
  /\ at = "input" /\ ~message /\ rows.live /\ Refused(listDiff, i)
  /\ at' = "top" /\ message' = TRUE
  /\ UNCHANGED <<cardVars, hostVars, open, listDocBuf, listDiff, rows, pressed, missed,
                 phoneVars, userVars>>

(* checkIdleTimers: back to the list, which is not loaded again. *)
MessageOver ==
  /\ at = "input" /\ message
  /\ at' = "top" /\ message' = FALSE
  /\ UNCHANGED <<cardVars, hostVars, open, listDocBuf, listDiff, rows, pressed, missed,
                 phoneVars, userVars>>

(* Then on the card, outside the render lock: the new table goes under a   *)
(* temporary name and the old one is removed,                              *)
RemoveOld ==
  /\ at = "write" /\ at' = "rename"
  /\ listState' = NoDiff /\ tempFile' = TRUE
  /\ UNCHANGED <<lists, lost, hostVars, open, message, listDocBuf, listDiff, rows, pressed, missed,
                 phoneVars, userVars>>

(* the new one gets its name; the phone is told, and the rows drawn again. *)
Rename ==
  /\ at = "rename" /\ tempFile
  /\ at' = "top" /\ pressed' = {}
  /\ listState' = listDiff /\ tempFile' = FALSE
  /\ rows' = [rows EXCEPT !.boxes = Effective(listDocBuf, listDiff)]
  /\ told' \in {told \/ (link /\ Entries(listDiff) # {})}
              \cup (IF "read" \in Faults THEN {told} ELSE {})
  /\ late' = IF walk.at = "none" /\ push = NoPush THEN {} ELSE late \cup pressed
  /\ presses' = IF walk.at # "walking" THEN 0 ELSE IF presses = 2 THEN 2 ELSE presses + 1
  /\ UNCHANGED <<lists, lost, hostVars, open, message, listDocBuf, listDiff, missed,
                 link, base, walk, push, minted>>

(* A write that fails before the removal, and a rename that fails after it *)
(* (or finds that Clear has taken the temporary file): the press is undone *)
(* in memory, and the old table stays or is lost.                          *)
Undone == \E i \in pressed : listDiff' = Toggled(listDiff, listDocBuf, i)

WriteFails ==
  /\ "write" \in Faults
  /\ at = "write" /\ at' = "top" /\ pressed' = {} /\ Undone
  /\ UNCHANGED <<cardVars, hostVars, open, message, listDocBuf, rows, missed, phoneVars, userVars>>

RenameFails ==
  /\ ~tempFile \/ "table" \in Faults
  /\ at = "rename" /\ at' = "top" /\ pressed' = {} /\ Undone
  /\ tempFile' = FALSE /\ lost' = (lost \/ tempFile)
  /\ UNCHANGED <<lists, listState, hostVars, open, message, listDocBuf, rows, missed,
                 phoneVars, userVars>>

(* No press, or one that does nothing: on another screen, or on a read-    *)
(* only list.                                                              *)
NoPress ==
  /\ at = "input" /\ at' = "top"
  /\ UNCHANGED <<cardVars, hostVars, open, message, listDocBuf, listDiff, rows, pressed, missed,
                 phoneVars, userVars>>

----------------------------------------------------------------------------
(* The host task *)

(* HELLO_OK and FOREGROUND: notifyListStateAvail, silent for an empty table *)
(* and, in the gap of its replacement, for none.                           *)
ConnectUntold ==
  /\ ~link /\ hostAt = "idle"
  /\ link' = TRUE /\ told' = FALSE
  /\ walk' = [NoWalk EXCEPT !.blurred = at = "rename"]
  /\ UNCHANGED <<cardVars, hostVars, mainVars, base, push, minted, userVars>>

Connect ==
  /\ ~link /\ hostAt = "idle"
  /\ link' = TRUE /\ told' \in {Entries(table) # {} : table \in Readable}
  /\ walk' = [NoWalk EXCEPT !.blurred = at = "rename"]
  /\ UNCHANGED <<cardVars, hostVars, mainVars, base, push, minted, userVars>>

TakeScreen ==
  /\ link /\ hostAt = "idle" /\ Entries(listState) # {}
  /\ told' = TRUE
  /\ UNCHANGED <<cardVars, hostVars, mainVars, link, base, walk, push, minted, userVars>>

LinkDrop ==
  /\ link /\ hostAt = "idle"
  /\ link' = FALSE /\ told' = FALSE /\ walk' = NoWalk /\ push' = NoPush
  /\ late' = {} /\ presses' = 0
  /\ UNCHANGED <<cardVars, hostVars, mainVars, base, minted>>

(* END of the document field: the new file is written under a temporary    *)
(* name and the old one removed,                                           *)
Store ==
  /\ push # NoPush /\ hostAt = "idle"
  /\ at # "load" \/ "overlap" \in Faults
  /\ lists' = NoDoc /\ hostAt' = "rename"
  /\ UNCHANGED <<listState, tempFile, lost, stored, mainVars, phoneVars, userVars>>

(* the new one gets its name, or does not, and no document is left,        *)
RenameDoc ==
  /\ hostAt = "rename" /\ hostAt' = "clear"
  /\ lists' = push.doc /\ minted' = push.doc.rev
  /\ UNCHANGED <<listState, tempFile, lost, stored, mainVars, link, told, base, walk, push, userVars>>

RenameDocFails ==
  /\ "document" \in Faults
  /\ hostAt = "rename" /\ hostAt' = "idle"
  /\ push' = NoPush
  /\ UNCHANGED <<cardVars, stored, mainVars, link, told, base, walk, minted, userVars>>

(* and then, whatever the revisions, the check-offs go, with the file that *)
(* was to replace them if it is still there; the main loop has its flag,   *)
(* and the phone its answer, unless it wanted none or gave up the screen.  *)
ClearUnseen ==
  /\ hostAt = "clear" /\ hostAt' = "idle" /\ stored' = stored
  /\ listState' = NoDiff /\ tempFile' \in {tempFile, FALSE} /\ lost' = FALSE
  /\ base' \in {push.doc, base} /\ push' = NoPush /\ walk' = NoWalk
  /\ late' = {} /\ presses' = 0
  /\ UNCHANGED <<lists, mainVars, link, told, minted>>

Clear ==
  /\ hostAt = "clear" /\ hostAt' = "idle" /\ stored' = TRUE
  /\ listState' = NoDiff /\ tempFile' \in {tempFile, FALSE} /\ lost' = FALSE
  /\ base' \in {push.doc, base} /\ push' = NoPush /\ walk' = NoWalk
  /\ late' = {} /\ presses' = 0
  /\ UNCHANGED <<lists, mainVars, link, told, minted>>

(* Too long, malformed or not written, and answered; or without a buffer,  *)
(* or reset by an asset or a change of foreground before its END, and the  *)
(* phone gives up on it.  Nothing has changed.                             *)
Refuse ==
  /\ push # NoPush /\ hostAt = "idle"
  /\ push' = NoPush
  /\ UNCHANGED <<cardVars, hostVars, mainVars, link, told, base, walk, minted, userVars>>

----------------------------------------------------------------------------
(* The phone *)

(* LIST_STATE from an offset: the file is opened and sought at each request. *)
Rank(table, i) == Cardinality({j \in Entries(table) : j < i})
Page(table, pos) == {i \in Entries(table) : Rank(table, i) \in pos .. (pos + PageSize - 1)}
Total(table) == Cardinality(Entries(table))

(* What shows a client that the table moved under its walk.                *)
Moved(table) == walk.total # Total(table)
Gone(table)  == walk.rev # table.rev

Continued(table, w) ==
  LET page == Page(table, w.pos)
      next == w.pos + Cardinality(page)
  IN  [w EXCEPT !.at  = IF page = {} \/ next = w.total THEN "done" ELSE "walking",
                !.pos = next,
                !.on  = @ \cup (page \cap table.on),
                !.off = @ \cup (page \cap table.off)]
FirstPage(table) == Continued(table, [NoWalk EXCEPT !.rev = table.rev, !.total = Total(table)])

NextWalk(table) ==
  CASE walk.at # "walking" -> FirstPage(table)
    [] walk.at = "walking" /\ Gone(table) -> NoWalk
    [] walk.at = "walking" /\ ~Gone(table) /\ Moved(table) -> FirstPage(table)
    [] OTHER -> [Continued(table, walk) EXCEPT !.blurred = @ \/ presses = 2]

GetPage ==
  /\ link /\ push = NoPush /\ hostAt = "idle"
  /\ told \/ walk.at = "walking"
  /\ late' = {} /\ presses' = 0
  /\ \E table \in Readable :
       /\ told' = (told /\ walk.at = "walking" /\ Gone(table))   \* news of another table stand
       /\ walk' = [NextWalk(table) EXCEPT !.blurred = @ \/ at = "rename"]
  /\ UNCHANGED <<cardVars, hostVars, mainVars, link, base, push, minted>>

(* The merge: the check-offs pulled for the document the phone knows, and  *)
(* an edit of the phone's own, as a document with a new revision.  START   *)
(* and its CHUNKs; END is Store.                                           *)
Merged == IF walk.rev = base.rev THEN Effective(base, walk) ELSE base.checked

Push(own) ==
  LET checked == (Merged \ own) \cup (own \ Merged)
  IN  /\ link /\ ~told /\ walk.at # "walking" /\ push = NoPush
      /\ minted < MaxRev
      /\ push' = [doc |-> [rev |-> minted + 1, checked |-> checked], from |-> base.rev,
                  own |-> own, blurred |-> walk.blurred]
      /\ UNCHANGED <<cardVars, hostVars, mainVars, link, told, base, walk, minted, userVars>>

(* In the gap of its replacement the table is lost; in that of a document  *)
(* the document is.                                                        *)
PowerLoss ==
  /\ "power" \in Faults
  /\ hostAt' = "idle" /\ stored' = FALSE
  /\ at' = "top" /\ open' = FALSE /\ message' = FALSE /\ missed' = FALSE
  /\ listDocBuf' = NoDoc /\ listDiff' = NoDiff /\ rows' = NoRows /\ pressed' = {}
  /\ link' = FALSE /\ told' = FALSE /\ walk' = NoWalk /\ push' = NoPush
  /\ late' = {} /\ presses' = 0 /\ lost' = (at = "rename")
  /\ UNCHANGED <<lists, listState, tempFile, base, minted>>

----------------------------------------------------------------------------
MainLoop == \/ Drain \/ FinishLoad \/ MessageOver \/ NoPress
            \/ RemoveOld \/ Rename \/ WriteFails \/ RenameFails
User     == EnterList \/ LeaveList \/ \E i \in Items : Toggle(i) \/ TooManyEdits(i)
HostTask == Store \/ RenameDoc \/ RenameDocFails \/ Clear \/ Refuse
Phone    == \/ Connect \/ TakeScreen \/ LinkDrop \/ GetPage
            \/ \E own \in Edits : Push(own)

Next == MainLoop \/ User \/ HostTask \/ Phone \/ PowerLoss

(* The loop runs, and the host task ends a store that it has begun.        *)
Fairness == WF_vars(MainLoop) /\ WF_vars(RenameDoc \/ RenameDocFails \/ Clear)
Spec == Init /\ [][Next]_vars /\ Fairness

----------------------------------------------------------------------------
(* Properties *)

(* The list is a CheckList: what the screen shows (and, while no list is   *)
(* shown, what a reader of the card would show) is always one document     *)
(* with the user's check-offs on that document, or none of them; a new     *)
(* document arrives whole and without the old check-offs.  Over loads,     *)
(* stores, failed writes and renames, and power cuts between any two steps. *)
Abstract == INSTANCE CheckList WITH
  Documents <- Docs,
  document  <- IF rows.live THEN rows.doc ELSE lists,
  boxes     <- IF rows.live THEN rows.boxes ELSE OnCard
IsACheckList == Abstract!Spec

(* A document made by a phone that pulled first and knew the stored        *)
(* document replaces it without losing a check-off: every item keeps its   *)
(* state, except those the phone edits itself and those pressed since the  *)
(* last page (or twice between two pages, which no client can see).  Not   *)
(* so if the phone read, or connected, in the gap of a table's replacement: *)
(* it found no check-offs, and these pushes are blurred too.  Nor once a   *)
(* replacement has lost the table.                                         *)
SyncKeepsCheckOffs ==
  [][lists # NoDoc /\ lists' # lists /\ push.from = lists.rev /\ ~push.blurred /\ ~lost
       => \A i \in Items \ (push.own \cup late) :
            i \in OnCard <=> i \in push.doc.checked]_vars

(* A list left on the screen comes to show the stored document, unless it  *)
(* could not be loaded, or its news came under a message or were           *)
(* overwritten; then the list stays as it was.                             *)
CatchesUp == open /\ lists # NoDoc /\ rows.doc # lists
               ~> ~open \/ lists = NoDoc \/ rows.doc \in {lists, NoDoc} \/ missed

(* CompanionModeActivity.cpp: an edit the user made and the device dropped *)
(* in silence "is the one failure mode this feature cannot have".  So the  *)
(* check-offs of the stored document leave the device only with it, or in  *)
(* the gap of their replacement, and change one at a time.                 *)
EditsAreKept ==
  [][Current /\ lists' = lists /\ ~lost'
       => Current' /\ (OnCard' = OnCard \/ \E i \in Items : OnCard' \ {i} = OnCard \ {i})]_vars
=============================================================================
