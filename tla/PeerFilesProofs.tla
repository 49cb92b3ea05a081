-------------------------- MODULE PeerFilesProofs --------------------------
(***************************************************************************)
(* TLAPS proofs about PeerFiles, for every size of the gallery and every   *)
(* number of writes, whatever operations fail and whenever the power goes: *)
(* no file of the list is ever torn, a document outlives every failure but *)
(* that of its replacement's rename, the gallery errs in one slot.         *)
(***************************************************************************)
EXTENDS PeerFiles, TLAPS

LEMMA SlotIsASlot == ASSUME NEW idx \in Index PROVE SlotOf(idx) \in Slots
<1>1. idx.next \in Nat
  BY DEF Index
<1> QED
  BY <1>1, SlotsAssumption, SMT DEF SlotOf, Slots

(* What the three programs hold between their steps. *)
HostHolds ==
  /\ hostAt \in {"unlink", "write", "free", "rename"} => document \in Whole
  /\ hostAt \in {"free", "rename"} => listsTmp = document
MainHolds ==
  /\ mainAt \in {"unlink", "write", "free", "rename"} => table \in Whole
  /\ mainAt \in {"free", "rename"} => stateTmp \in {table, None}
CommitHolds ==
  /\ mainAt \in {"freeSlot", "move", "save"} => cid \in Whole /\ (doc = index \/ (doc = NoIndex /\ misread))
  /\ cid # None /\ mainAt # "save" => staged = cid
  /\ mainAt = "save" => images[SlotOf(doc)] = cid

IInv == TypeOK /\ HostHolds /\ MainHolds /\ CommitHolds /\ DocumentSurvives /\ GalleryErrsInOneSlot

LEMMA NumberedContents ==
  /\ None \notin Whole /\ Torn \notin Whole /\ None # Torn
  /\ NoIndex \in Index
BY SlotsAssumption DEF None, Torn, Whole, NoIndex, Index

LEMMA MakeType ==
  ASSUME TypeOK, NEW kind \in {"list", "state", "image"}, Make(kind)
  PROVE  made' \in [{"list", "state", "image"} -> 0 .. MaxWrites] /\ made'[kind] \in Whole
BY SlotsAssumption DEF Make, TypeOK, Whole

LEMMA InitIInv == Init => IInv
<1> SUFFICES ASSUME Init PROVE IInv
  OBVIOUS
<1> USE NumberedContents, SlotsAssumption
<1>1. /\ images \in [Slots -> Whole \cup {None}]
      /\ made \in [{"list", "state", "image"} -> 0 .. MaxWrites]
  BY DEF Init
<1>2. misread \in BOOLEAN
  BY Zenon DEF Init
<1>3. TypeOK
  BY <1>1, <1>2 DEF Init, TypeOK, File
<1> QED
  BY <1>3 DEF Init, IInv, HostHolds, MainHolds, CommitHolds, DocumentSurvives, GalleryErrsInOneSlot,
              NoIndex

LEMMA HostStep == ASSUME IInv, HostTask PROVE IInv'
<1> USE NumberedContents DEF IInv, TypeOK, HostHolds, MainHolds, CommitHolds,
        DocumentSurvives, GalleryErrsInOneSlot, File, listVars, stateVars, galleryVars, hostVars, mainVars
<1>1. CASE StoreBegins
  BY <1>1, MakeType DEF StoreBegins
<1>2. CASE HostUnlinks
  BY <1>2 DEF HostUnlinks
<1>3. CASE HostWrites
  BY <1>3 DEF HostWrites
<1>4. CASE HostFrees
  BY <1>4 DEF HostFrees
<1>5. CASE HostRenames
  BY <1>5 DEF HostRenames
<1>6. CASE HostUndoes
  BY <1>6 DEF HostUndoes
<1>7. CASE HostClears
  BY <1>7 DEF HostClears
<1> QED
  BY <1>1, <1>2, <1>3, <1>4, <1>5, <1>6, <1>7 DEF HostTask

LEMMA StateStep ==
  ASSUME IInv, StateBegins \/ MainUnlinks \/ MainWrites \/ MainFrees \/ MainRenames \/ MainUndoes \/ MainClears
  PROVE  IInv'
<1> USE NumberedContents DEF IInv, TypeOK, HostHolds, MainHolds, CommitHolds,
        DocumentSurvives, GalleryErrsInOneSlot, File, listVars, stateVars, galleryVars, hostVars, mainVars
<1>1. CASE StateBegins
  BY <1>1, MakeType DEF StateBegins
<1>2. CASE MainUnlinks
  BY <1>2 DEF MainUnlinks
<1>3. CASE MainWrites
  BY <1>3 DEF MainWrites
<1>4. CASE MainFrees
  BY <1>4 DEF MainFrees
<1>5. CASE MainRenames
  BY <1>5 DEF MainRenames
<1>6. CASE MainUndoes
  BY <1>6 DEF MainUndoes
<1>7. CASE MainClears
  BY <1>7 DEF MainClears
<1> QED
  BY <1>1, <1>2, <1>3, <1>4, <1>5, <1>6, <1>7

(* A commit changes the picture of the slot the saved index takes next and *)
(* no other, and with the entry saved the index is right about that one.   *)
LEMMA CommitStep ==
  ASSUME IInv, Stage \/ CommitBegins \/ MainFreesSlot \/ MainMoves \/ MainSaves
  PROVE  IInv'
<1> USE NumberedContents DEF IInv, TypeOK, HostHolds, MainHolds, CommitHolds,
        DocumentSurvives, GalleryErrsInOneSlot, File, listVars, stateVars, galleryVars, hostVars, mainVars
<1>0. SlotOf(doc) \in Slots /\ SlotOf(index) \in Slots
  BY SlotIsASlot
<1>1. CASE Stage
  BY <1>1, MakeType DEF Stage
<1>2. CASE CommitBegins
  <2>1. misread' \in BOOLEAN /\ (misread => misread')
    <3>1. CASE misread' = misread
      BY ONLY <3>1, TypeOK, Zenon DEF TypeOK
    <3>2. CASE misread' = TRUE
      BY ONLY <3>2, Zenon
    <3> QED
      BY <1>2, <3>1, <3>2 DEF CommitBegins
  <2>2. doc' = index \/ (doc' = NoIndex /\ misread')
    BY <1>2 DEF CommitBegins
  <2>3. TypeOK'
    BY <1>2, <2>1, <2>2 DEF CommitBegins
  <2> QED
    BY <1>2, <2>1, <2>2, <2>3 DEF CommitBegins
<1>3. CASE MainFreesSlot
  <2>1. images' \in [Slots -> Whole \cup {None}]
    BY <1>0, <1>3 DEF MainFreesSlot
  <2>2. \A s \in Slots : s # SlotOf(doc) => images'[s] = images[s]
    BY <1>0, <1>3 DEF MainFreesSlot
  <2>3. TypeOK' /\ HostHolds' /\ MainHolds' /\ CommitHolds' /\ DocumentSurvives'
    BY <1>3, <2>1 DEF MainFreesSlot
  <2>4. GalleryErrsInOneSlot'
    BY <1>3, <2>2 DEF MainFreesSlot, Index, Entry
  <2> QED
    BY <2>3, <2>4
<1>4. CASE MainMoves
  <2>1. images' \in [Slots -> Whole \cup {None}]
    BY <1>0, <1>4 DEF MainMoves
  <2>2. \A s \in Slots : s # SlotOf(doc) => images'[s] = images[s]
    BY <1>0, <1>4 DEF MainMoves
  <2>3. TypeOK' /\ HostHolds' /\ MainHolds' /\ DocumentSurvives'
    BY <1>4, <2>1 DEF MainMoves
  <2>4. CommitHolds'
    BY <1>0, <1>4 DEF MainMoves
  <2>5. GalleryErrsInOneSlot'
    BY <1>4, <2>2 DEF MainMoves, Index, Entry
  <2> QED
    BY <2>3, <2>4, <2>5
<1>5. CASE MainSaves
  <2>1. CASE index' = Committed(doc) /\ misread' = (misread /\ doc # NoIndex)
    <3> DEFINE new == [slot |-> SlotOf(doc), cid |-> cid]
    <3>1. index'.next = doc.next + 1 /\ index'.entries = Without(doc.entries, SlotOf(doc)) \cup {new}
      BY <2>1 DEF Committed
    <3>2. new \in Entry /\ new.slot = SlotOf(doc) /\ new.cid = cid
      BY <1>0, <1>5 DEF Entry, MainSaves
    <3>3. Without(doc.entries, SlotOf(doc)) \subseteq doc.entries /\ doc.entries \subseteq Entry
      BY DEF Without, Index
    <3>4. index' \in Index
      BY <2>1, <3>2, <3>3 DEF Committed, Index
    <3>5. \A e, f \in index'.entries : e.slot = f.slot => e = f
      <4>1. \A e, f \in doc.entries : e.slot = f.slot => e = f
        BY <1>5 DEF MainSaves, NoIndex
      <4>2. \A e \in Without(doc.entries, SlotOf(doc)) : e.slot # SlotOf(doc)
        BY DEF Without
      <4> QED
        BY <3>1, <3>2, <3>3, <4>1, <4>2
    <3>6. \A e \in index'.entries : images[e.slot] = e.cid \/ misread'
      <4>1. images[new.slot] = new.cid
        BY <3>2, <1>5 DEF MainSaves
      <4>2. CASE doc = NoIndex
        BY <4>1, <4>2, <3>1, <3>3 DEF NoIndex
      <4>3. CASE doc # NoIndex
        BY <1>5, <2>1, <4>1, <4>3, <3>1 DEF MainSaves, Without
      <4> QED
        BY <4>2, <4>3
    <3>7. misread' \in BOOLEAN
      BY <2>1, Zenon
    <3>8. TypeOK' /\ HostHolds' /\ MainHolds' /\ CommitHolds' /\ DocumentSurvives'
      BY <1>5, <3>4, <3>7 DEF MainSaves
    <3>9. GalleryErrsInOneSlot'
      BY <1>5, <3>5, <3>6 DEF MainSaves
    <3> QED
      BY ONLY <3>8, <3>9, Zenon DEF IInv
  <2>2. CASE index' \in {index, NoIndex} /\ misread' = misread
    <3>1. index' \in Index /\ misread' \in BOOLEAN
      <4>1. index' \in Index
        BY <2>2
      <4>2. misread' \in BOOLEAN
        BY <2>2, Zenon
      <4> QED
        BY <4>1, <4>2
    <3>2. TypeOK' /\ HostHolds' /\ MainHolds' /\ CommitHolds' /\ DocumentSurvives'
      BY <1>5, <3>1 DEF MainSaves
    <3>3. GalleryErrsInOneSlot'
      BY <1>5, <2>2 DEF MainSaves, NoIndex
    <3> QED
      BY ONLY <3>2, <3>3, Zenon DEF IInv
  <2> QED
    BY <1>5, <2>1, <2>2 DEF MainSaves
<1> QED
  BY <1>1, <1>2, <1>3, <1>4, <1>5

LEMMA PowerStep == ASSUME IInv, PowerLoss PROVE IInv'
<1> USE NumberedContents DEF PowerLoss, IInv, TypeOK, HostHolds, MainHolds, CommitHolds,
                             DocumentSurvives, GalleryErrsInOneSlot, File
<1>1. TypeOK'
  BY DEF NoIndex
<1>2. HostHolds' /\ MainHolds' /\ CommitHolds' /\ DocumentSurvives'
  OBVIOUS
<1>3. GalleryErrsInOneSlot'
  BY DEF NoIndex
<1> QED
  BY <1>1, <1>2, <1>3

LEMMA StepIInv == IInv /\ [Next]_vars => IInv'
<1> SUFFICES ASSUME IInv, [Next]_vars PROVE IInv'
  OBVIOUS
<1>1. CASE UNCHANGED vars
  BY <1>1 DEF vars, listVars, stateVars, galleryVars, hostVars, mainVars, IInv, TypeOK, HostHolds,
              MainHolds, CommitHolds, DocumentSurvives, GalleryErrsInOneSlot
<1> QED
  BY <1>1, HostStep, StateStep, CommitStep, PowerStep DEF Next, MainLoop

(* No failure and no power cut leaves half a document, half a table of     *)
(* check-offs or half a picture under its final name.                      *)
THEOREM NothingTorn == Spec => []TypeOK
<1>1. IInv => TypeOK
  BY DEF IInv
<1> QED
  BY InitIInv, StepIInv, <1>1, PTL DEF Spec

(* A stored document outlives every failure of storeListDocument except    *)
(* that of the rename, after the old file is gone.                         *)
THEOREM StoredDocumentSurvives == Spec => []DocumentSurvives
<1>1. IInv => DocumentSurvives
  BY DEF IInv
<1> QED
  BY InitIInv, StepIInv, <1>1, PTL DEF Spec

(* Whatever happens to commits, at most the picture of the next slot is    *)
(* listed wrongly, for every size of the gallery.                          *)
THEOREM GalleryErrsOnlyWhereItHeals == Spec => []GalleryErrsInOneSlot
<1>1. IInv => GalleryErrsInOneSlot
  BY DEF IInv
<1> QED
  BY InitIInv, StepIInv, <1>1, PTL DEF Spec
=============================================================================
