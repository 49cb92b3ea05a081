----------------------------- MODULE PeerFiles -----------------------------
(***************************************************************************)
(* One peer's directory on the card, one file operation at a time: the     *)
(* list document (host task), its check-offs and the picture gallery (main *)
(* loop).  Each operation may fail and the power may go between any two.   *)
(*                                                                         *)
(* The card gives single operations: a remove or a rename happens or does  *)
(* not, a write that is cut leaves a torn file, a rename needs its source  *)
(* and a free destination.  Everything else is the code's discipline.      *)
(***************************************************************************)
EXTENDS Integers, FiniteSets

CONSTANTS MaxImages,   \* kMaxImagesPerPeer, the slots of the gallery
          MaxWrites,   \* bound: documents, check-off tables and pictures, each
          Faults       \* "io": an operation fails; "power": the power goes

ASSUME SlotsAssumption == MaxImages \in Nat \ {0} /\ MaxWrites \in Nat
ASSUME FaultsAssumption == Faults \subseteq {"io", "power"}

(* What a file holds: nothing, half of something, or the n-th content.     *)
None == 0
Torn == -1
Whole == 1 .. MaxWrites
File == Whole \cup {None, Torn}

VARIABLES lists, listsTmp, state, stateTmp,   \* the list document and its check-offs
          images, staged, index,              \* the gallery, data/incoming.raw, images.json
          hostAt, document,                   \* storeListDocument
          mainAt, table, doc, cid,            \* writeListState, clearListState, commitImage
          made,                               \* contents made so far, by kind
          shelf, misread                      \* for the properties: was lists.bin ever whole,
                                              \* or lost to a fault; was images.json misread

listVars    == <<lists, listsTmp>>
stateVars   == <<state, stateTmp>>
galleryVars == <<images, staged, index>>
hostVars    == <<hostAt, document>>
mainVars    == <<mainAt, table, doc, cid>>
vars == <<listVars, stateVars, galleryVars, hostVars, mainVars, made, shelf, misread>>

Slots == 0 .. MaxImages - 1
Entry == [slot : Slots, cid : Whole]
Index == [next : Nat, entries : SUBSET Entry]
NoIndex == [next |-> 0, entries |-> {}]      \* no images.json, or one that does not parse

TypeOK ==
  /\ lists \in Whole \cup {None} /\ state \in Whole \cup {None}   \* never torn
  /\ images \in [Slots -> Whole \cup {None}]
  /\ listsTmp \in File /\ stateTmp \in File /\ staged \in Whole \cup {None}
  /\ index \in Index /\ doc \in Index
  /\ hostAt \in {"idle", "unlink", "write", "free", "rename", "undo", "clear", "clearTmp"}
  /\ mainAt \in {"idle", "unlink", "write", "free", "rename", "undo", "clear", "clearTmp",
                 "freeSlot", "move", "save"}
  /\ document \in Whole \cup {None} /\ table \in Whole \cup {None} /\ cid \in Whole \cup {None}
  /\ made \in [{"list", "state", "image"} -> 0 .. MaxWrites]
  /\ shelf \in {"empty", "full", "lost"} /\ misread \in BOOLEAN

Init ==
  /\ lists = None /\ listsTmp = None /\ state = None /\ stateTmp = None
  /\ images = [s \in Slots |-> None] /\ staged = None /\ index = NoIndex
  /\ hostAt = "idle" /\ document = None
  /\ mainAt = "idle" /\ table = None /\ doc = NoIndex /\ cid = None
  /\ made = [k \in {"list", "state", "image"} |-> 0]
  /\ shelf = "empty" /\ misread = FALSE

Fails == "io" \in Faults

(* One more content of a kind. *)
Make(kind) == /\ made[kind] < MaxWrites
              /\ made' = [made EXCEPT ![kind] = @ + 1]

----------------------------------------------------------------------------
(* The host task: storeListDocument, a document that parses *)

StoreBegins ==
  /\ hostAt = "idle" /\ hostAt' = "unlink"
  /\ Make("list") /\ document' = made'["list"]
  /\ UNCHANGED <<listVars, stateVars, galleryVars, mainVars, shelf, misread>>

(* A temporary file left by a push that was cut off. *)
HostFreesFirst ==
  /\ hostAt = "unlink" /\ hostAt' = "write"
  /\ listsTmp' = None /\ lists' = None
  /\ UNCHANGED <<stateVars, galleryVars, document, mainVars, made, shelf, misread>>

HostUnlinks ==
  /\ hostAt = "unlink" /\ hostAt' = "write"
  /\ listsTmp' = None \/ (Fails /\ listsTmp' = listsTmp)
  /\ UNCHANGED <<lists, stateVars, galleryVars, document, mainVars, made, shelf, misread>>

HostWritesBlindly ==
  /\ hostAt = "write" /\ hostAt' = "free"
  /\ listsTmp' \in {document} \cup (IF Fails THEN {listsTmp, Torn} ELSE {})
  /\ UNCHANGED <<lists, stateVars, galleryVars, document, mainVars, made, shelf, misread>>

HostWrites ==
  /\ hostAt = "write"
  /\ \/ hostAt' = "free" /\ listsTmp' = document
     \/ Fails /\ hostAt' = "undo" /\ listsTmp' \in {listsTmp, Torn}
  /\ UNCHANGED <<lists, stateVars, galleryVars, document, mainVars, made, shelf, misread>>

HostFrees ==
  /\ hostAt = "free" /\ hostAt' = "rename"
  /\ lists' = None \/ (Fails /\ lists' = lists)
  /\ UNCHANGED <<listsTmp, stateVars, galleryVars, document, mainVars, made, shelf, misread>>

HostRenames ==
  /\ hostAt = "rename"
  /\ \/ /\ lists = None /\ listsTmp # None
        /\ lists' = listsTmp /\ listsTmp' = None
        /\ hostAt' = "clear" /\ shelf' = "full"
     \/ /\ lists # None \/ listsTmp = None \/ Fails
        /\ hostAt' = "undo" /\ shelf' = IF lists = None THEN "lost" ELSE shelf
        /\ UNCHANGED listVars
  /\ UNCHANGED <<stateVars, galleryVars, document, mainVars, made, misread>>

(* After a failed write or rename; StorageFailed is the answer. *)
HostUndoes ==
  /\ hostAt = "undo" /\ hostAt' = "idle" /\ document' = None
  /\ listsTmp' = None \/ (Fails /\ listsTmp' = listsTmp)
  /\ UNCHANGED <<lists, stateVars, galleryVars, mainVars, made, shelf, misread>>

(* clearListState, both files, whatever the main loop is doing with them.  *)
HostClears ==
  /\ \/ /\ hostAt = "clear" /\ hostAt' = "clearTmp"
        /\ state' = None \/ (Fails /\ state' = state)
        /\ UNCHANGED <<stateTmp, document>>
     \/ /\ hostAt = "clearTmp" /\ hostAt' = "idle" /\ document' = None
        /\ stateTmp' = None \/ (Fails /\ stateTmp' = stateTmp)
        /\ UNCHANGED state
  /\ UNCHANGED <<listVars, galleryVars, mainVars, made, shelf, misread>>

----------------------------------------------------------------------------
(* The main loop: writeListState, with the same discipline *)

StateBegins ==
  /\ mainAt = "idle" /\ mainAt' = "unlink"
  /\ Make("state") /\ table' = made'["state"]
  /\ UNCHANGED <<listVars, stateVars, galleryVars, hostVars, doc, cid, shelf, misread>>

MainUnlinks ==
  /\ mainAt = "unlink" /\ mainAt' = "write"
  /\ stateTmp' = None \/ (Fails /\ stateTmp' = stateTmp)
  /\ UNCHANGED <<listVars, state, galleryVars, hostVars, table, doc, cid, made, shelf, misread>>

MainWrites ==
  /\ mainAt = "write"
  /\ \/ mainAt' = "free" /\ stateTmp' = table
     \/ Fails /\ mainAt' = "undo" /\ stateTmp' \in {stateTmp, Torn}
  /\ UNCHANGED <<listVars, state, galleryVars, hostVars, table, doc, cid, made, shelf, misread>>

MainFrees ==
  /\ mainAt = "free" /\ mainAt' = "rename"
  /\ state' = None \/ (Fails /\ state' = state)
  /\ UNCHANGED <<listVars, stateTmp, galleryVars, hostVars, table, doc, cid, made, shelf, misread>>

(* The host task may have removed the temporary file meanwhile. *)
MainRenames ==
  /\ mainAt = "rename"
  /\ \/ /\ state = None /\ stateTmp # None
        /\ state' = stateTmp /\ stateTmp' = None
        /\ mainAt' = "idle" /\ table' = None
     \/ /\ state # None \/ stateTmp = None \/ Fails
        /\ mainAt' = "undo" /\ UNCHANGED <<stateVars, table>>
  /\ UNCHANGED <<listVars, galleryVars, hostVars, doc, cid, made, shelf, misread>>

MainUndoes ==
  /\ mainAt = "undo" /\ mainAt' = "idle" /\ table' = None
  /\ stateTmp' = None \/ (Fails /\ stateTmp' = stateTmp)
  /\ UNCHANGED <<listVars, state, galleryVars, hostVars, doc, cid, made, shelf, misread>>

(* clearListState, when the list screen finds check-offs of another document. *)
MainClears ==
  /\ \/ /\ mainAt = "idle" /\ mainAt' = "clear" /\ UNCHANGED stateVars
     \/ /\ mainAt = "clear" /\ mainAt' = "clearTmp" /\ UNCHANGED stateTmp
        /\ state' = None \/ (Fails /\ state' = state)
     \/ /\ mainAt = "clearTmp" /\ mainAt' = "idle" /\ UNCHANGED state
        /\ stateTmp' = None \/ (Fails /\ stateTmp' = stateTmp)
  /\ UNCHANGED <<listVars, galleryVars, hostVars, table, doc, cid, made, shelf, misread>>

----------------------------------------------------------------------------
(* The main loop: commitImage.  ImageTransfer has the staging itself.      *)

Stage ==
  /\ mainAt \notin {"freeSlot", "move", "save"}
  /\ Make("image") /\ staged' = made'["image"] /\ cid' = staged'
  /\ UNCHANGED <<listVars, stateVars, images, index, hostVars, mainAt, table, doc, shelf, misread>>

(* nextSeq is in the copy of the index from here on, on the card only once *)
(* it is saved; an entry of the slot's last picture is dropped likewise.   *)
Kept(entries, slot) == entries
Without(entries, slot) == {e \in entries : e.slot # slot}

SlotOf(idx) == idx.next % MaxImages

CommitBegins ==
  /\ mainAt = "idle" /\ cid # None
  /\ mainAt' = "freeSlot"
  /\ \/ doc' = index /\ misread' = misread
     \/ Fails /\ index # NoIndex /\ doc' = NoIndex /\ misread' = TRUE
  /\ UNCHANGED <<listVars, stateVars, galleryVars, hostVars, table, cid, made, shelf>>

MainFreesSlot ==
  /\ mainAt = "freeSlot" /\ mainAt' = "move"
  /\ \/ images' = [images EXCEPT ![SlotOf(doc)] = None]
     \/ Fails /\ images' = images
  /\ UNCHANGED <<listVars, stateVars, staged, index, hostVars, table, doc, cid, made, shelf, misread>>

MainMoves ==
  /\ mainAt = "move"
  /\ \/ /\ images[SlotOf(doc)] = None
        /\ images' = [images EXCEPT ![SlotOf(doc)] = staged] /\ staged' = None
        /\ mainAt' = "save" /\ UNCHANGED <<doc, cid>>
     \/ /\ images[SlotOf(doc)] # None \/ Fails
        /\ mainAt' = "idle" /\ doc' = NoIndex /\ cid' = None
        /\ UNCHANGED <<images, staged>>
  /\ UNCHANGED <<listVars, stateVars, index, hostVars, table, made, shelf, misread>>

Committed(idx) ==
  [next    |-> idx.next + 1,
   entries |-> Without(idx.entries, SlotOf(idx)) \cup {[slot |-> SlotOf(idx), cid |-> cid]}]

(* images.json is written in place: a save that fails leaves the old one   *)
(* or none that parses, and is logged only.                                *)
MainSaves ==
  /\ mainAt = "save" /\ mainAt' = "idle" /\ doc' = NoIndex /\ cid' = None
  /\ \/ index' = Committed(doc) /\ misread' = (misread /\ doc # NoIndex)
     \/ Fails /\ index' \in {index, NoIndex} /\ misread' = misread
  /\ UNCHANGED <<listVars, stateVars, images, staged, hostVars, table, made, shelf>>

----------------------------------------------------------------------------
(* A file being written when the power goes is torn. *)
PowerLoss ==
  /\ "power" \in Faults
  /\ hostAt' = "idle" /\ document' = None
  /\ mainAt' = "idle" /\ table' = None /\ doc' = NoIndex /\ cid' = None
  /\ listsTmp' \in {listsTmp} \cup (IF hostAt = "write" THEN {Torn} ELSE {})
  /\ stateTmp' \in {stateTmp} \cup (IF mainAt = "write" THEN {Torn} ELSE {})
  /\ index' \in {index} \cup (IF mainAt = "save" THEN {NoIndex} ELSE {})
  /\ shelf' = IF hostAt = "rename" /\ lists = None THEN "lost" ELSE shelf
  /\ UNCHANGED <<lists, state, images, staged, made, misread>>

HostTask == \/ StoreBegins \/ HostUnlinks \/ HostWrites \/ HostFrees \/ HostRenames
            \/ HostUndoes \/ HostClears
MainLoop == \/ StateBegins \/ MainUnlinks \/ MainWrites \/ MainFrees \/ MainRenames
            \/ MainUndoes \/ MainClears
            \/ CommitBegins \/ MainFreesSlot \/ MainMoves \/ MainSaves
Next == HostTask \/ MainLoop \/ Stage \/ PowerLoss

Spec == Init /\ [][Next]_vars

----------------------------------------------------------------------------
(* Properties *)

(* A peer that was pushed a document has one on the card, whole, except    *)
(* while the old one makes room for the new, or when the rename failed or  *)
(* the power went right there.  No other failure of storeListDocument and  *)
(* no temporary file left by an earlier one costs the document.            *)
DocumentSurvives == shelf = "full" => lists # None \/ hostAt = "rename"

(* However commits fail or are cut off, the gallery is wrong about no      *)
(* picture but the one in the slot the next commit takes, so the next      *)
(* commit repairs it; and it has no two entries for a slot.  (A commit     *)
(* that could not read the index starts over at slot 0, until it saves.)   *)
GalleryErrsInOneSlot ==
  /\ \A e, f \in index.entries : e.slot = f.slot => e = f
  /\ \A e \in index.entries :
       images[e.slot] # e.cid => e.slot = SlotOf(index) \/ misread
=============================================================================
