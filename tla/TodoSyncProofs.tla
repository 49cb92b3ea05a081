--------------------------- MODULE TodoSyncProofs ---------------------------
(***************************************************************************)
(* TLAPS proofs about TodoSync: its type invariant, and, whenever loads    *)
(* and stores of the list do not overlap and the table can be read, that   *)
(* it implements CheckList, that the device drops no edit but in the gap   *)
(* of a table's replacement, and that a phone which pulls, merges and      *)
(* pushes outside that gap loses none.  For every set of items, page size, *)
(* table size and number of documents, and with failing writes, renames    *)
(* and allocations and power cuts.                                         *)
(***************************************************************************)
EXTENDS TodoSync, FiniteSetTheorems, WellFoundedInduction, TLAPS

Assumptions == /\ Items \subseteq Nat /\ IsFiniteSet(Items)
               /\ PageSize \in Nat \ {0} /\ MaxEntries \in Nat /\ MaxRev \in Nat \ {0}
               /\ Edits \subseteq SUBSET Items

LEMMA Constants == Assumptions
BY ItemsAssumption, PageAssumption, BoundsAssumption, EditsAssumption DEF Assumptions

Flipped(S, i) == (S \ {i}) \cup ({i} \ S)

(* A toggle changes the item under the cursor and no other.                *)
LEMMA ToggleFlips ==
  ASSUME NEW doc \in Docs, NEW diff \in Diffs, NEW i \in Items
  PROVE  /\ Toggled(diff, doc, i) \in Diffs
         /\ Toggled(diff, doc, i).rev = diff.rev
         /\ Effective(doc, Toggled(diff, doc, i)) = Flipped(Effective(doc, diff), i)
<1> DEFINE after == i \notin Effective(doc, diff)
           on2 == IF after /\ i \notin doc.checked THEN diff.on \cup {i} ELSE diff.on \ {i}
           off2 == IF ~after /\ i \in doc.checked THEN diff.off \cup {i} ELSE diff.off \ {i}
<1>1. diff \in [rev : 0 .. MaxRev, on : SUBSET Items, off : SUBSET Items] /\ diff.on \cap diff.off = {}
  BY DEF Diffs
<1>2. Toggled(diff, doc, i) = [diff EXCEPT !.on = on2, !.off = off2]
  BY Zenon DEF Toggled
<1>3. on2 \in SUBSET Items /\ off2 \in SUBSET Items /\ on2 \cap off2 = {}
  BY <1>1 DEF Effective
<1>4. (doc.checked \ off2) \cup on2 = Flipped(Effective(doc, diff), i)
  BY <1>1 DEF Effective, Flipped
<1> HIDE DEF on2, off2
<1>5. /\ Toggled(diff, doc, i).on = on2 /\ Toggled(diff, doc, i).off = off2
      /\ Toggled(diff, doc, i).rev = diff.rev
      /\ Toggled(diff, doc, i) \in [rev : 0 .. MaxRev, on : SUBSET Items, off : SUBSET Items]
  BY <1>1, <1>2, <1>3
<1> QED
  BY <1>3, <1>4, <1>5 DEF Diffs, Effective

(* Undoing a toggle the card refused restores what the rows show. *)
LEMMA FlipTwice ==
  ASSUME NEW S, NEW i
  PROVE  Flipped(Flipped(S, i), i) = S
BY DEF Flipped

LEMMA Initial ==
  /\ NoDoc \in Docs /\ NoDiff \in Diffs /\ NoDiff.rev = 0 /\ NoDoc.rev = 0
  /\ \A d \in Docs : Empty(d.rev) \in Diffs /\ Empty(d.rev).rev = d.rev
  /\ \A d \in Docs : Effective(d, Empty(d.rev)) = d.checked
BY BoundsAssumption DEF NoDoc, NoDiff, Empty, Docs, Diffs, Effective

----------------------------------------------------------------------------
(* Types *)

LEMMA ReadableType == TypeOK => Readable \subseteq Diffs
BY Initial DEF TypeOK, Readable

(* A page of a walk is a set of entries, and the walk stays well typed.    *)
LEMMA ContinuedType ==
  ASSUME TypeOK, NEW table \in Readable,
         NEW w \in [at : {"none", "walking", "done"}, pos : Nat, rev : 0 .. MaxRev, total : Nat,
                    on : SUBSET Items, off : SUBSET Items, blurred : BOOLEAN]
  PROVE  Continued(table, w) \in [at : {"none", "walking", "done"}, pos : Nat, rev : 0 .. MaxRev, total : Nat,
                                  on : SUBSET Items, off : SUBSET Items, blurred : BOOLEAN]
<1> DEFINE page == Page(table, w.pos)
<1>1. IsFiniteSet(page) /\ page \subseteq Items
  <2>1. page \subseteq Items
    BY ReadableType DEF Diffs, Page, Entries
  <2> QED
    BY <2>1, ItemsAssumption, FS_Subset
<1>2. w.pos + Cardinality(page) \in Nat
  BY <1>1, FS_CardinalityType
<1>3. Continued(table, w) = [w EXCEPT !.at  = IF page = {} \/ w.pos + Cardinality(page) = w.total
                                        THEN "done" ELSE "walking",
                               !.pos = w.pos + Cardinality(page),
                               !.on  = w.on \cup (page \cap table.on),
                               !.off = w.off \cup (page \cap table.off)]
  BY DEF Continued
<1> QED
  BY <1>1, <1>2, <1>3, ZenonT(30)

LEMMA TotalType == ASSUME TypeOK, NEW table \in Readable PROVE Total(table) \in Nat
<1>1. Entries(table) \subseteq Items
  BY ReadableType DEF Diffs, Entries
<1> QED
  BY <1>1, ItemsAssumption, FS_Subset, FS_CardinalityType DEF Total

LEMMA InitType == Init => TypeOK
<1> SUFFICES ASSUME Init PROVE TypeOK
  OBVIOUS
<1>1. NoDoc \in Docs /\ NoDiff \in Diffs /\ 0 \in 0 .. MaxRev /\ lists \in Docs
  BY Initial, BoundsAssumption DEF Init
<1>2. NoRows \in [doc : Docs, boxes : SUBSET Items, live : BOOLEAN]
  BY <1>1 DEF NoRows
<1>3. NoWalk \in [at : {"none", "walking", "done"}, pos : Nat, rev : 0 .. MaxRev, total : Nat,
                  on : SUBSET Items, off : SUBSET Items, blurred : BOOLEAN]
  BY <1>1 DEF NoWalk
<1>4. NoPush \in [doc : Docs, from : 0 .. MaxRev, own : SUBSET Items, blurred : BOOLEAN]
  BY <1>1 DEF NoPush
<1>5. /\ lists \in Docs /\ base \in Docs /\ listState \in Diffs
      /\ listDocBuf \in Docs /\ listDiff \in Diffs
  BY <1>1 DEF Init
<1>6. /\ rows \in [doc : Docs, boxes : SUBSET Items, live : BOOLEAN]
      /\ walk \in [at : {"none", "walking", "done"}, pos : Nat, rev : 0 .. MaxRev, total : Nat,
                   on : SUBSET Items, off : SUBSET Items, blurred : BOOLEAN]
      /\ push \in [doc : Docs, from : 0 .. MaxRev, own : SUBSET Items, blurred : BOOLEAN]
  BY <1>2, <1>3, <1>4, Zenon DEF Init
<1>7. /\ hostAt = "idle" /\ stored = FALSE /\ at = "top" /\ open = FALSE /\ pressed = {}
      /\ message = FALSE /\ missed = FALSE /\ lost = FALSE /\ tempFile = FALSE
      /\ link = FALSE /\ told = FALSE /\ late = {} /\ presses = 0 /\ minted = 1
  BY DEF Init
<1>8. /\ hostAt \in {"idle", "rename", "clear"} /\ stored \in BOOLEAN
      /\ at \in {"top", "load", "input", "write", "rename"} /\ open \in BOOLEAN
      /\ message \in BOOLEAN /\ missed \in BOOLEAN /\ lost \in BOOLEAN /\ tempFile \in BOOLEAN
      /\ pressed \in SUBSET Items /\ link \in BOOLEAN /\ told \in BOOLEAN
      /\ late \in SUBSET Items /\ presses \in 0 .. 2 /\ minted \in 0 .. MaxRev
  <2>1. 0 \in 0 .. 2 /\ 1 \in 0 .. MaxRev
    BY BoundsAssumption
  <2> QED
    BY <2>1, <1>7, Zenon
<1> QED
  BY <1>5, <1>6, <1>8, Zenon DEF TypeOK

Walks == [at : {"none", "walking", "done"}, pos : Nat, rev : 0 .. MaxRev, total : Nat,
          on : SUBSET Items, off : SUBSET Items, blurred : BOOLEAN]

LEMMA NothingInFlight ==
  /\ NoWalk \in Walks
  /\ NoPush \in [doc : Docs, from : 0 .. MaxRev, own : SUBSET Items, blurred : BOOLEAN]
  /\ NoRows \in [doc : Docs, boxes : SUBSET Items, live : BOOLEAN]
<1>1. NoDoc \in Docs /\ 0 \in 0 .. MaxRev
  BY Initial, BoundsAssumption
<1> QED
  BY <1>1 DEF NoWalk, NoPush, NoRows, Walks

(* TypeOK, by the tuples of variables. *)
Rows == [doc : Docs, boxes : SUBSET Items, live : BOOLEAN]
Pushes == [doc : Docs, from : 0 .. MaxRev, own : SUBSET Items, blurred : BOOLEAN]
CardTyped  == lists \in Docs /\ listState \in Diffs /\ tempFile \in BOOLEAN /\ lost \in BOOLEAN
HostTyped  == hostAt \in {"idle", "rename", "clear"} /\ stored \in BOOLEAN
LoopTyped  == /\ at \in {"top", "load", "input", "write", "rename"}
              /\ open \in BOOLEAN /\ message \in BOOLEAN /\ missed \in BOOLEAN
ListTyped  == listDocBuf \in Docs /\ listDiff \in Diffs /\ rows \in Rows /\ pressed \in SUBSET Items
PhoneTyped == /\ link \in BOOLEAN /\ told \in BOOLEAN /\ base \in Docs /\ walk \in Walks
              /\ push \in Pushes /\ minted \in 0 .. MaxRev
UserTyped  == late \in SUBSET Items /\ presses \in 0 .. 2

LEMMA TypesApart == TypeOK <=> /\ CardTyped /\ HostTyped /\ LoopTyped /\ ListTyped
                               /\ PhoneTyped /\ UserTyped
BY Zenon DEF TypeOK, CardTyped, HostTyped, LoopTyped, ListTyped, PhoneTyped, UserTyped, Rows, Pushes, Walks

LEMMA TypesMeet ==
  CardTyped' /\ HostTyped' /\ LoopTyped' /\ ListTyped' /\ PhoneTyped' /\ UserTyped' => TypeOK'
BY Zenon DEF TypeOK, CardTyped, HostTyped, LoopTyped, ListTyped, PhoneTyped, UserTyped, Rows, Pushes, Walks

LEMMA TypesStay ==
  /\ CardTyped /\ UNCHANGED cardVars => CardTyped'
  /\ HostTyped /\ UNCHANGED hostVars => HostTyped'
  /\ LoopTyped /\ ListTyped /\ UNCHANGED mainVars => LoopTyped' /\ ListTyped'
  /\ PhoneTyped /\ UNCHANGED phoneVars => PhoneTyped'
  /\ UserTyped /\ UNCHANGED userVars => UserTyped'
<1>1. CardTyped /\ UNCHANGED cardVars => CardTyped'
  BY DEF CardTyped, cardVars
<1>2. HostTyped /\ UNCHANGED hostVars => HostTyped'
  BY DEF HostTyped, hostVars
<1>3. LoopTyped /\ ListTyped /\ UNCHANGED mainVars => LoopTyped' /\ ListTyped'
  BY DEF LoopTyped, ListTyped, mainVars
<1>4. PhoneTyped /\ UNCHANGED phoneVars => PhoneTyped'
  BY DEF PhoneTyped, phoneVars, Walks, Pushes
<1>5. UserTyped /\ UNCHANGED userVars => UserTyped'
  BY DEF UserTyped, userVars
<1> QED
  BY <1>1, <1>2, <1>3, <1>4, <1>5

LEMMA FinishType ==
  ASSUME TypeOK, FinishLoad
  PROVE  listDiff' \in Diffs /\ listState' \in Diffs /\ rows' \in Rows
<1> USE Initial
<1>1. listDiff' \in Diffs /\ listState' \in Diffs
  BY DEF FinishLoad, SameRevision, TypeOK, Diffs, Docs, Empty, NoDiff
<1>2. Effective(listDocBuf, listDiff') \in SUBSET Items /\ listDocBuf.checked \in SUBSET Items
  BY <1>1 DEF Effective, TypeOK, Docs, Diffs
<1> HIDE DEF TypeOK
<1>3. listDocBuf \in Docs
  BY DEF TypeOK
<1>4. \/ rows' = [doc |-> listDocBuf, boxes |-> Effective(listDocBuf, listDiff'), live |-> TRUE]
      \/ \E live \in BOOLEAN :
           rows' = [doc |-> listDocBuf, boxes |-> listDocBuf.checked, live |-> live]
  BY DEF FinishLoad
<1> DEFINE checks == Effective(listDocBuf, listDiff')
<1> HIDE DEF checks
<1>5. CASE rows' = [doc |-> listDocBuf, boxes |-> checks, live |-> TRUE]
  <2>1. checks \in SUBSET Items
    BY <1>2 DEF checks
  <2>2. rows' \in Rows
    BY ONLY <2>1, <1>3, <1>5 DEF Rows
  <2> QED
    BY <1>1, <2>2
<1>6. CASE \E live \in BOOLEAN :
             rows' = [doc |-> listDocBuf, boxes |-> listDocBuf.checked, live |-> live]
  <2>1. rows' \in Rows
    BY ONLY <1>2, <1>3, <1>6 DEF Rows
  <2> QED
    BY <1>1, <2>1
<1> QED
  BY <1>4, <1>5, <1>6 DEF checks

LEMMA MainType ==
  ASSUME TypeOK, MainLoop \/ User
  PROVE  TypeOK'
<1> USE Initial
<1>0. /\ CardTyped /\ HostTyped /\ LoopTyped /\ ListTyped /\ PhoneTyped /\ UserTyped
      /\ NoRows \in Rows
  BY TypesApart, NothingInFlight DEF Rows
<1>1. CASE Drain
  <2>1. LoopTyped'
    BY <1>0, <1>1 DEF Drain, BeginLoad, LoopTyped
  <2>2. ListTyped'
    BY <1>0, <1>1 DEF Drain, BeginLoad, ListTyped, CardTyped
  <2>3. HostTyped'
    BY <1>0, <1>1 DEF Drain, HostTyped
  <2>9. UNCHANGED cardVars /\ UNCHANGED phoneVars /\ UNCHANGED userVars
    BY <1>1 DEF Drain
  <2> QED
    BY <1>0, <2>1, <2>2, <2>3, <2>9, TypesStay, TypesMeet, Zenon
<1>2. CASE EnterList
  <2>1. LoopTyped'
    BY <1>0, <1>2 DEF EnterList, BeginLoad, LoopTyped
  <2>2. ListTyped'
    BY <1>0, <1>2 DEF EnterList, BeginLoad, ListTyped, CardTyped
  <2>9. UNCHANGED cardVars /\ UNCHANGED hostVars /\ UNCHANGED phoneVars /\ UNCHANGED userVars
    BY <1>2 DEF EnterList
  <2> QED
    BY <1>0, <2>1, <2>2, <2>9, TypesStay, TypesMeet, Zenon
<1>3. CASE FinishLoad
  <2>1. listDiff' \in Diffs /\ listState' \in Diffs /\ rows' \in Rows
    BY <1>3, FinishType
  <2>2. LoopTyped'
    BY <1>0, <1>3 DEF FinishLoad, LoopTyped
  <2>3. CardTyped' /\ ListTyped'
    BY <1>0, <1>3, <2>1 DEF FinishLoad, CardTyped, ListTyped
  <2>9. UNCHANGED hostVars /\ UNCHANGED phoneVars /\ UNCHANGED userVars
    BY <1>3 DEF FinishLoad
  <2> QED
    BY <1>0, <2>2, <2>3, <2>9, TypesStay, TypesMeet, Zenon
<1>4. CASE LeaveList
  <2>1. LoopTyped' /\ ListTyped'
    BY <1>0, <1>4 DEF LeaveList, LoopTyped, ListTyped
  <2>9. UNCHANGED cardVars /\ UNCHANGED hostVars /\ UNCHANGED phoneVars /\ UNCHANGED userVars
    BY <1>4 DEF LeaveList
  <2> QED
    BY <1>0, <2>1, <2>9, TypesStay, TypesMeet, Zenon
<1>5. ASSUME NEW i \in Items, Toggle(i) PROVE TypeOK'
  <2>1. LoopTyped'
    BY <1>0, <1>5 DEF Toggle, LoopTyped
  <2>2. ListTyped'
    BY <1>0, <1>5, ToggleFlips DEF Toggle, ListTyped
  <2>9. UNCHANGED cardVars /\ UNCHANGED hostVars /\ UNCHANGED phoneVars /\ UNCHANGED userVars
    BY <1>5 DEF Toggle
  <2> QED
    BY <1>0, <2>1, <2>2, <2>9, TypesStay, TypesMeet, Zenon
<1>6. CASE MessageOver \/ NoPress \/ \E i \in Items : TooManyEdits(i)
  <2>1. LoopTyped' /\ ListTyped'
    BY <1>0, <1>6 DEF MessageOver, NoPress, TooManyEdits, LoopTyped, ListTyped
  <2>9. UNCHANGED cardVars /\ UNCHANGED hostVars /\ UNCHANGED phoneVars /\ UNCHANGED userVars
    BY <1>6 DEF MessageOver, NoPress, TooManyEdits
  <2> QED
    BY <1>0, <2>1, <2>9, TypesStay, TypesMeet, Zenon
<1>7. CASE RemoveOld
  <2>1. LoopTyped' /\ ListTyped'
    BY <1>0, <1>7 DEF RemoveOld, LoopTyped, ListTyped
  <2>2. CardTyped'
    BY <1>0, <1>7 DEF RemoveOld, CardTyped
  <2>9. UNCHANGED hostVars /\ UNCHANGED phoneVars /\ UNCHANGED userVars
    BY <1>7 DEF RemoveOld
  <2> QED
    BY <1>0, <2>1, <2>2, <2>9, TypesStay, TypesMeet, Zenon
<1>8. CASE Rename
  <2>1. Effective(listDocBuf, listDiff) \in SUBSET Items
    BY DEF Effective, TypeOK, Docs, Diffs
  <2>2. told' \in BOOLEAN
    BY <1>8, Zenon DEF Rename, TypeOK
  <2>3. rows' \in Rows
    BY <1>0, <1>8, <2>1 DEF Rename, ListTyped, Rows
  <2>4. UserTyped'
    BY <1>0, <1>8 DEF Rename, UserTyped, ListTyped
  <2>5. LoopTyped' /\ ListTyped'
    BY <1>0, <1>8, <2>3 DEF Rename, LoopTyped, ListTyped
  <2>6. CardTyped' /\ PhoneTyped'
    BY <1>0, <1>8, <2>2 DEF Rename, CardTyped, ListTyped, PhoneTyped
  <2>9. UNCHANGED hostVars
    BY <1>8 DEF Rename
  <2> QED
    BY <1>0, <2>4, <2>5, <2>6, <2>9, TypesStay, TypesMeet, Zenon
<1>9. CASE WriteFails \/ RenameFails
  <2>1. listDiff' \in Diffs
    BY <1>0, <1>9, ToggleFlips DEF WriteFails, RenameFails, Undone, ListTyped
  <2>2. lost' \in BOOLEAN
    BY <1>0, <1>9, Zenon DEF WriteFails, RenameFails, CardTyped, cardVars
  <2>3. CardTyped'
    BY <1>0, <1>9, <2>2 DEF WriteFails, RenameFails, CardTyped, cardVars
  <2>4. LoopTyped' /\ ListTyped'
    BY <1>0, <1>9, <2>1 DEF WriteFails, RenameFails, LoopTyped, ListTyped
  <2>9. UNCHANGED hostVars /\ UNCHANGED phoneVars /\ UNCHANGED userVars
    BY <1>9 DEF WriteFails, RenameFails
  <2> QED
    BY <1>0, <2>3, <2>4, <2>9, TypesStay, TypesMeet, Zenon
<1> QED
  BY <1>1, <1>2, <1>3, <1>4, <1>5, <1>6, <1>7, <1>8, <1>9 DEF MainLoop, User

LEMMA NextWalkType ==
  ASSUME TypeOK, NEW table \in Readable
  PROVE  NextWalk(table) \in Walks
<1>1. walk \in Walks
  BY DEF TypeOK, Walks
<1>2. FirstPage(table) \in Walks
  <2>0. table.rev \in 0 .. MaxRev
    BY ReadableType DEF Diffs
  <2>1. [NoWalk EXCEPT !.rev = table.rev, !.total = Total(table)] \in Walks
    BY <2>0, NothingInFlight, TotalType DEF Walks
  <2> QED
    BY <2>1, ContinuedType DEF FirstPage, Walks
<1>3. Continued(table, walk) \in Walks
  BY <1>1, ContinuedType DEF Walks
<1>4. [Continued(table, walk) EXCEPT !.blurred = @ \/ presses = 2] \in Walks
  <2>1. ASSUME NEW w \in Walks PROVE [w EXCEPT !.blurred = w.blurred \/ presses = 2] \in Walks
    <3>1. (w.blurred \/ presses = 2) \in BOOLEAN
      BY Zenon
    <3> QED
      BY <3>1, Zenon DEF Walks
  <2> QED
    BY <1>3, <2>1
<1> QED
  BY <1>2, <1>4, NothingInFlight, Zenon DEF NextWalk

LEMMA WalkType ==
  ASSUME TypeOK, GetPage
  PROVE  walk' \in Walks
<1>1. PICK table \in Readable : walk' = [NextWalk(table) EXCEPT !.blurred = @ \/ at = "rename"]
  BY DEF GetPage
<1> DEFINE w == NextWalk(table)
<1>2. w \in Walks
  BY <1>1, NextWalkType
<1>3. walk' = [w EXCEPT !.blurred = w.blurred \/ at = "rename"]
  BY <1>1
<1> HIDE DEF w
<1>4. (w.blurred \/ at = "rename") \in BOOLEAN
  BY Zenon
<1> QED
  BY <1>2, <1>3, <1>4, Zenon DEF Walks

LEMMA PushType ==
  ASSUME TypeOK, NEW own \in SUBSET Items, Push(own)
  PROVE  /\ push' \in [doc : Docs, from : 0 .. MaxRev, own : SUBSET Items, blurred : BOOLEAN]
         /\ push'.doc.rev = minted + 1
<1> DEFINE checked == (Merged \ own) \cup (own \ Merged)
<1>1. Merged \in SUBSET Items
  BY DEF Merged, Effective, TypeOK, Docs
<1>2. checked \in SUBSET Items /\ minted + 1 \in 0 .. MaxRev
  BY <1>1, BoundsAssumption DEF Push, TypeOK
<1>3. [rev |-> minted + 1, checked |-> checked] \in Docs
  BY <1>2 DEF Docs
<1>4. base.rev \in 0 .. MaxRev /\ walk.blurred \in BOOLEAN
  BY DEF TypeOK, Docs
<1>5. push' = [doc |-> [rev |-> minted + 1, checked |-> checked], from |-> base.rev,
               own |-> own, blurred |-> walk.blurred]
  BY DEF Push
<1> HIDE DEF checked
<1> QED
  BY <1>3, <1>4, <1>5

LEMMA OtherType ==
  ASSUME TypeOK, HostTask \/ Phone \/ PowerLoss
  PROVE  TypeOK'
<1> USE Initial
<1>0. /\ CardTyped /\ HostTyped /\ LoopTyped /\ ListTyped /\ PhoneTyped /\ UserTyped
      /\ NoRows \in Rows /\ NoPush \in Pushes /\ NoWalk \in Walks
      /\ 0 \in 0 .. 2 /\ {} \in SUBSET Items
  BY TypesApart, NothingInFlight DEF Rows, Pushes
<1>1. CASE Connect
  <2>1. told' \in BOOLEAN
    BY <1>1, Zenon DEF Connect
  <2>2. [NoWalk EXCEPT !.blurred = at = "rename"] \in Walks
    <3>1. (at = "rename") \in BOOLEAN
      OBVIOUS
    <3> QED
      BY <1>0, <3>1, Zenon DEF Walks
  <2>3. PhoneTyped'
    BY <1>0, <1>1, <2>1, <2>2 DEF Connect, PhoneTyped
  <2>9. UNCHANGED cardVars /\ UNCHANGED hostVars /\ UNCHANGED mainVars /\ UNCHANGED userVars
    BY <1>1 DEF Connect
  <2> QED
    BY <1>0, <2>3, <2>9, TypesStay, TypesMeet, Zenon
<1>2. CASE TakeScreen
  <2>1. PhoneTyped'
    BY <1>0, <1>2 DEF TakeScreen, PhoneTyped
  <2>9. UNCHANGED cardVars /\ UNCHANGED hostVars /\ UNCHANGED mainVars /\ UNCHANGED userVars
    BY <1>2 DEF TakeScreen
  <2> QED
    BY <1>0, <2>1, <2>9, TypesStay, TypesMeet, Zenon
<1>3. CASE LinkDrop
  <2>1. PhoneTyped' /\ UserTyped'
    BY <1>0, <1>3 DEF LinkDrop, PhoneTyped, UserTyped
  <2>9. UNCHANGED cardVars /\ UNCHANGED hostVars /\ UNCHANGED mainVars
    BY <1>3 DEF LinkDrop
  <2> QED
    BY <1>0, <2>1, <2>9, TypesStay, TypesMeet, Zenon
<1>4. CASE GetPage
  <2>1. told' \in BOOLEAN
    BY <1>4, Zenon DEF GetPage
  <2>2. walk' \in Walks
    BY <1>4, WalkType
  <2>3. PhoneTyped' /\ UserTyped'
    BY <1>0, <1>4, <2>1, <2>2 DEF GetPage, PhoneTyped, UserTyped
  <2>9. UNCHANGED cardVars /\ UNCHANGED hostVars /\ UNCHANGED mainVars
    BY <1>4 DEF GetPage
  <2> QED
    BY <1>0, <2>3, <2>9, TypesStay, TypesMeet, Zenon
<1>5. ASSUME NEW own \in Edits, Push(own) PROVE TypeOK'
  <2>1. own \in SUBSET Items
    BY EditsAssumption
  <2>2. push' \in Pushes
    BY <2>1, <1>5, PushType DEF Pushes
  <2>3. PhoneTyped'
    BY <1>0, <1>5, <2>2 DEF Push, PhoneTyped
  <2>9. UNCHANGED cardVars /\ UNCHANGED hostVars /\ UNCHANGED mainVars /\ UNCHANGED userVars
    BY <1>5 DEF Push
  <2> QED
    BY <1>0, <2>3, <2>9, TypesStay, TypesMeet, Zenon
<1>6. CASE Store
  <2>1. CardTyped' /\ HostTyped'
    BY <1>0, <1>6 DEF Store, CardTyped, HostTyped
  <2>9. UNCHANGED mainVars /\ UNCHANGED phoneVars /\ UNCHANGED userVars
    BY <1>6 DEF Store
  <2> QED
    BY <1>0, <2>1, <2>9, TypesStay, TypesMeet, Zenon
<1>7. CASE RenameDoc
  <2>1. push.doc \in Docs /\ push.doc.rev \in 0 .. MaxRev
    BY <1>0 DEF PhoneTyped, Pushes, Docs
  <2>2. CardTyped' /\ HostTyped'
    BY <1>0, <1>7, <2>1 DEF RenameDoc, CardTyped, HostTyped
  <2>3. PhoneTyped'
    BY <1>0, <1>7, <2>1 DEF RenameDoc, PhoneTyped
  <2>9. UNCHANGED mainVars /\ UNCHANGED userVars
    BY <1>7 DEF RenameDoc
  <2> QED
    BY <1>0, <2>2, <2>3, <2>9, TypesStay, TypesMeet, Zenon
<1>8. CASE RenameDocFails
  <2>1. HostTyped' /\ PhoneTyped'
    BY <1>0, <1>8 DEF RenameDocFails, HostTyped, PhoneTyped
  <2>9. UNCHANGED cardVars /\ UNCHANGED mainVars /\ UNCHANGED userVars
    BY <1>8 DEF RenameDocFails
  <2> QED
    BY <1>0, <2>1, <2>9, TypesStay, TypesMeet, Zenon
<1>9. CASE Clear
  <2>1. base' \in Docs
    BY <1>0, <1>9 DEF Clear, PhoneTyped, Pushes
  <2>2. CardTyped' /\ HostTyped'
    BY <1>0, <1>9 DEF Clear, CardTyped, HostTyped
  <2>3. PhoneTyped' /\ UserTyped'
    BY <1>0, <1>9, <2>1 DEF Clear, PhoneTyped, UserTyped
  <2>9. UNCHANGED mainVars
    BY <1>9 DEF Clear
  <2> QED
    BY <1>0, <2>2, <2>3, <2>9, TypesStay, TypesMeet, Zenon
<1>10. CASE Refuse
  <2>1. PhoneTyped'
    BY <1>0, <1>10 DEF Refuse, PhoneTyped
  <2>9. UNCHANGED cardVars /\ UNCHANGED hostVars /\ UNCHANGED mainVars /\ UNCHANGED userVars
    BY <1>10 DEF Refuse
  <2> QED
    BY <1>0, <2>1, <2>9, TypesStay, TypesMeet, Zenon
<1>11. CASE PowerLoss
  <2>1. CardTyped' /\ HostTyped' /\ UserTyped'
    BY <1>0, <1>11 DEF PowerLoss, CardTyped, HostTyped, UserTyped
  <2>2. LoopTyped' /\ ListTyped'
    BY <1>0, <1>11 DEF PowerLoss, LoopTyped, ListTyped
  <2>3. PhoneTyped'
    BY <1>0, <1>11 DEF PowerLoss, PhoneTyped
  <2> QED
    BY <2>1, <2>2, <2>3, TypesMeet, Zenon
<1> QED
  BY <1>1, <1>2, <1>3, <1>4, <1>5, <1>6, <1>7, <1>8, <1>9, <1>10, <1>11 DEF HostTask, Phone

LEMMA StepType == TypeOK /\ [Next]_vars => TypeOK'
<1> SUFFICES ASSUME TypeOK, [Next]_vars PROVE TypeOK'
  OBVIOUS
<1>1. CASE UNCHANGED vars
  <2>1. /\ UNCHANGED cardVars /\ UNCHANGED hostVars /\ UNCHANGED mainVars
        /\ UNCHANGED phoneVars /\ UNCHANGED userVars
    BY <1>1 DEF vars
  <2> QED
    BY <2>1, TypesApart, TypesStay, TypesMeet, Zenon
<1> QED
  BY <1>1, MainType, OtherType DEF Next

(* Every reachable state of the list, its check-offs and the phone's walk  *)
(* is well typed: no item is ever marked both set and cleared, whatever    *)
(* fails and whatever overlaps.                                            *)
THEOREM TodoTyping == Spec => []TypeOK
BY InitType, StepType, PTL DEF Spec

----------------------------------------------------------------------------
(* The refinement, when loads and stores do not overlap and the check-offs  *)
(* can be read                                                             *)

Apart == "overlap" \notin Faults /\ "read" \notin Faults

(* The editable screen shows one document with the check-offs in memory    *)
(* (but for the press on its way to the card); it shows the stored         *)
(* document or an older one; and the check-offs the device keeps of the    *)
(* stored one are those shown, or none where their table was lost.         *)
ShownFromMemory ==
  /\ rows.live /\ at # "load" => listDocBuf = rows.doc /\ listDiff.rev = rows.doc.rev
  /\ rows.live /\ at \notin {"load", "write", "rename"}
       => rows.boxes = Effective(listDocBuf, listDiff)
  /\ at \in {"write", "rename"} =>
       /\ rows.live
       /\ \E i \in Items : /\ pressed = {i}
                           /\ Effective(listDocBuf, listDiff) = Flipped(rows.boxes, i)
  /\ at = "rename" => listState = NoDiff
ShownFromCard ==
  /\ rows.live => /\ rows.doc # NoDoc /\ rows.doc.rev <= minted
                  /\ lists # NoDoc => rows.doc = lists \/ rows.doc.rev < minted
  /\ rows.live /\ rows.doc = lists => rows.boxes = OnCard \/ (lost /\ OnCard = lists.checked)
  /\ rows.live /\ rows.doc # lists => ~Current
LoadsApart ==
  /\ at = "load" => hostAt = "idle" /\ listDocBuf \in {lists, NoDoc}
  /\ hostAt = "rename" => lists = NoDoc /\ push # NoPush
  /\ hostAt = "clear" => ~Current /\ (rows.live => rows.doc # lists)
  /\ at = "rename" /\ ~tempFile => rows.doc # lists
Numbered ==
  /\ minted # 0 /\ (lists # NoDoc => lists.rev = minted) /\ Table.rev <= minted
  /\ hostAt # "clear" /\ push # NoPush => push.doc.rev > minted

Holds == ShownFromMemory /\ ShownFromCard /\ LoadsApart /\ Numbered
IInv == TypeOK /\ Holds

LEMMA InitIInv == Init => IInv
<1> SUFFICES ASSUME Init PROVE IInv
  OBVIOUS
<1>1. ~rows.live /\ listState = NoDiff /\ at = "top" /\ hostAt = "idle" /\ lists.rev = 1
      /\ minted = 1 /\ push = NoPush
  BY DEF Init, NoRows
<1> QED
  BY <1>1, InitType, Initial DEF IInv, Holds, ShownFromMemory, ShownFromCard, LoadsApart, Numbered, Table

(* What a list shows, as deviations from its document.                     *)
LEMMA DeviationsOf ==
  ASSUME NEW doc \in Docs, NEW boxes \in SUBSET Items
  PROVE  /\ Deviations(doc, boxes) \in Diffs /\ Deviations(doc, boxes).rev = doc.rev
         /\ Effective(doc, Deviations(doc, boxes)) = boxes
BY DEF Deviations, Docs, Diffs, Effective

LEMMA TableType == ASSUME TypeOK PROVE Table \in Diffs
BY DeviationsOf DEF TypeOK, Table

LEMMA Numbers ==
  ASSUME TypeOK
  PROVE  /\ lists.rev \in Nat /\ listState.rev \in Nat /\ rows.doc.rev \in Nat
         /\ push.doc.rev \in Nat /\ Table.rev \in Nat /\ minted \in Nat
BY TableType DEF TypeOK, Docs, Diffs

LEMMA SameTable ==
  ASSUME lists' = lists, Table' = Table
  PROVE  (Current' <=> Current) /\ OnCard' = OnCard
BY DEF Current, OnCard, Effective

(* Out of the gap of its replacement the table is the file. *)
LEMMA TableKept ==
  ASSUME listState' = listState, at # "rename", at' # "rename"
  PROVE  Table' = Table
BY DEF Table

LEMMA TableStays ==
  ASSUME listState' = listState, at' = at, rows' = rows
  PROVE  Table' = Table
BY DEF Table

(* What a load puts on the screen is the stored document as the card has it. *)
LEMMA LoadShowsCard ==
  ASSUME Apart, IInv, FinishLoad
  PROVE  /\ listState' # listState => listState' = NoDiff /\ ~Current
         /\ OnCard' = OnCard /\ (Current' <=> Current)
         /\ Table = listState /\ Table' = listState'
         /\ rows'.live => /\ rows'.doc = lists /\ rows'.boxes = OnCard
                          /\ rows'.boxes = Effective(listDocBuf, listDiff')
                          /\ listDiff'.rev = lists.rev /\ listDocBuf = lists /\ lists # NoDoc
<1>0. /\ lists \in Docs /\ listState \in Diffs /\ at = "load" /\ at' = "top" /\ lists' = lists
      /\ listDocBuf \in {lists, NoDoc} /\ minted # 0 /\ (lists # NoDoc => lists.rev = minted)
  BY DEF IInv, Holds, TypeOK, LoadsApart, Numbered, FinishLoad
<1>1. Table = listState /\ Table' = listState'
  BY <1>0 DEF Table
<1>2. CASE rows'.live
  <2>1. /\ listDocBuf = lists /\ lists # NoDoc /\ rows'.doc = lists
        /\ rows'.boxes = Effective(lists, listDiff')
    BY <1>0, <1>2 DEF FinishLoad, Apart
  <2>2. CASE SameRevision
    <3>1. listDiff' = listState /\ listState' = listState
      BY <1>0, <1>2, <2>2, <2>1 DEF FinishLoad, SameRevision, Diffs, Apart
    <3>2. OnCard = Effective(lists, listState)
      BY <1>1, <2>1, <2>2 DEF SameRevision, OnCard, Current
    <3>3. OnCard' = OnCard /\ (Current' <=> Current)
      BY <1>0, <1>1, <3>1, SameTable
    <3> QED
      BY <1>1, <2>1, <2>2, <3>1, <3>2, <3>3 DEF SameRevision
  <2>3. CASE ~SameRevision
    <3>1. listDiff' = Empty(lists.rev) /\ listState' = NoDiff
      BY <1>2, <2>3, <2>1 DEF FinishLoad, Apart
    <3>2. Effective(lists, Empty(lists.rev)) = lists.checked /\ Empty(lists.rev).rev = lists.rev
      BY <1>0, Initial
    <3>3. ~Current /\ ~Current'
      BY <1>0, <1>1, <2>1, <2>3, <3>1, Initial DEF SameRevision, Current
    <3>4. OnCard = lists.checked /\ OnCard' = lists.checked
      BY <1>0, <3>3 DEF OnCard
    <3> QED
      BY <1>1, <2>1, <3>1, <3>2, <3>3, <3>4
  <2> QED
    BY <2>2, <2>3
<1>3. CASE ~rows'.live
  <2>1. listState' = listState
    BY <1>3 DEF FinishLoad
  <2> QED
    BY <1>0, <1>1, <1>3, <2>1, SameTable
<1> QED
  BY <1>2, <1>3

(* A press or its undoing, in memory. *)
LEMMA UndoneRestores ==
  ASSUME IInv, Undone, at \in {"write", "rename"}
  PROVE  /\ listDiff'.rev = listDiff.rev
         /\ Effective(listDocBuf, listDiff') = rows.boxes
<1>1. PICK i \in Items : pressed = {i} /\ Effective(listDocBuf, listDiff) = Flipped(rows.boxes, i)
  BY DEF IInv, Holds, ShownFromMemory
<1>2. listDiff' = Toggled(listDiff, listDocBuf, i) /\ listDocBuf \in Docs /\ listDiff \in Diffs
  BY <1>1 DEF Undone, IInv, TypeOK
<1> QED
  BY <1>1, <1>2, ToggleFlips, FlipTwice

(* The steps of the loop that leave the card and the rows alone. *)
LEMMA QuietStep ==
  ASSUME Apart, IInv,
         \/ Drain \/ EnterList \/ MessageOver \/ WriteFails \/ NoPress
         \/ \E i \in Items : Toggle(i) \/ TooManyEdits(i)
  PROVE  Holds' /\ Table' = Table
<1>1. /\ UNCHANGED <<lists, listState, tempFile, lost, hostAt, rows, minted, push>>
      /\ at # "rename" /\ at' # "rename" /\ at # "load"
  BY DEF Drain, EnterList, MessageOver, WriteFails, NoPress, Toggle, TooManyEdits, BeginLoad,
         cardVars, hostVars, phoneVars
<1>2. Table' = Table /\ (Current' <=> Current) /\ OnCard' = OnCard
  BY <1>1, TableKept, SameTable
<1>3. ShownFromCard' /\ Numbered'
  BY <1>1, <1>2 DEF IInv, Holds, ShownFromCard, Numbered
<1>4. LoadsApart'
  <2>1. at' = "load" => hostAt = "idle" /\ listDocBuf' \in {lists, NoDoc}
    BY DEF Drain, EnterList, MessageOver, WriteFails, NoPress, Toggle, TooManyEdits, BeginLoad, Apart
  <2> QED
    BY <1>1, <1>2, <2>1 DEF IInv, Holds, LoadsApart
<1>5. ShownFromMemory'
  <2>1. CASE Drain \/ EnterList \/ MessageOver \/ NoPress \/ \E i \in Items : TooManyEdits(i)
    <3>1. /\ at \notin {"load", "write", "rename"} /\ at' \notin {"write", "rename"}
          /\ at' # "load" => UNCHANGED <<listDocBuf, listDiff>>
      BY <2>1 DEF Drain, EnterList, MessageOver, NoPress, TooManyEdits, BeginLoad
    <3> QED
      BY <1>1, <3>1 DEF IInv, Holds, ShownFromMemory
  <2>2. ASSUME NEW i \in Items, Toggle(i) PROVE ShownFromMemory'
    <3>1. /\ at = "input" /\ at' = "write" /\ rows.live /\ pressed' = {i} /\ listDocBuf' = listDocBuf
          /\ listDiff' = Toggled(listDiff, listDocBuf, i)
      BY <2>2 DEF Toggle
    <3>2. listDocBuf \in Docs /\ listDiff \in Diffs
      BY DEF IInv, TypeOK
    <3>3. /\ listDiff'.rev = listDiff.rev
          /\ Effective(listDocBuf, listDiff') = Flipped(Effective(listDocBuf, listDiff), i)
      BY <3>1, <3>2, ToggleFlips
    <3> QED
      BY <1>1, <3>1, <3>3 DEF IInv, Holds, ShownFromMemory
  <2>3. CASE WriteFails
    <3>1. /\ at = "write" /\ at' = "top" /\ listDocBuf' = listDocBuf /\ Undone
      BY <2>3 DEF WriteFails
    <3>2. /\ listDiff'.rev = listDiff.rev
          /\ Effective(listDocBuf, listDiff') = rows.boxes
      BY <3>1, UndoneRestores
    <3> QED
      BY <1>1, <3>1, <3>2 DEF IInv, Holds, ShownFromMemory
  <2> QED
    BY <2>1, <2>2, <2>3
<1> QED
  BY <1>2, <1>3, <1>4, <1>5 DEF Holds

LEMMA LoadStep == ASSUME Apart, IInv, FinishLoad PROVE Holds'
<1>1. /\ UNCHANGED <<lists, tempFile, lost, hostAt, push, minted, listDocBuf>>
      /\ at = "load" /\ at' = "top" /\ hostAt = "idle" /\ minted # 0
  BY DEF FinishLoad, hostVars, phoneVars, IInv, Holds, LoadsApart, Numbered
<1>2. Table'.rev <= minted
  BY LoadShowsCard, Initial, Numbers DEF IInv, Holds, Numbered
<1>3. Numbered'
  BY <1>1, <1>2 DEF IInv, Holds, Numbered
<1>4. LoadsApart'
  BY <1>1 DEF LoadsApart
<1>5. ShownFromMemory'
  BY <1>1, LoadShowsCard DEF ShownFromMemory
<1>6. ShownFromCard'
  <2>1. lists # NoDoc => lists.rev = minted /\ minted \in Nat
    BY Numbers DEF IInv, Holds, Numbered
  <2> QED
    BY <1>1, <2>1, LoadShowsCard DEF ShownFromCard
<1> QED
  BY <1>3, <1>4, <1>5, <1>6 DEF Holds

LEMMA LeaveStep == ASSUME IInv, LeaveList PROVE Holds' /\ Table' = Table /\ ~rows'.live
<1>1. /\ UNCHANGED <<lists, listState, tempFile, lost, hostAt, minted, push>>
      /\ ~rows'.live /\ at = "input" /\ at' = "top"
  BY DEF LeaveList, cardVars, hostVars, phoneVars, NoRows
<1>2. Table' = Table /\ (Current' <=> Current) /\ OnCard' = OnCard
  BY <1>1, TableKept, SameTable
<1> QED
  BY <1>1, <1>2 DEF IInv, Holds, ShownFromMemory, ShownFromCard, LoadsApart, Numbered

(* The old table goes; the screen has what it held, if it was this         *)
(* document's.                                                             *)
LEMMA RemoveShows ==
  ASSUME IInv, RemoveOld
  PROVE  /\ rows.doc = lists => Current' /\ OnCard' = rows.boxes
         /\ rows.doc # lists => ~Current /\ ~Current' /\ OnCard' = OnCard
         /\ Table'.rev = rows.doc.rev
<1>1. lists' = lists /\ rows' = rows /\ at = "write" /\ at' = "rename"
  BY DEF RemoveOld
<1>2. /\ rows.live /\ rows.doc # NoDoc /\ (rows.doc # lists => ~Current)
      /\ lists # NoDoc => lists.rev = minted /\ (rows.doc = lists \/ rows.doc.rev < minted)
  BY <1>1 DEF IInv, Holds, ShownFromMemory, ShownFromCard, Numbered
<1>3. rows.doc \in Docs /\ rows.boxes \in SUBSET Items /\ rows.doc.rev \in Nat /\ minted \in Nat
  BY Numbers DEF IInv, TypeOK
<1>4. Table' = Deviations(rows.doc, rows.boxes)
  BY <1>1 DEF Table, Deviations
<1>5. Table'.rev = rows.doc.rev /\ Effective(rows.doc, Table') = rows.boxes
  BY <1>3, <1>4, DeviationsOf
<1>6. CASE rows.doc = lists
  <2>1. Current' /\ OnCard' = Effective(lists, Table')
    BY <1>1, <1>2, <1>5, <1>6 DEF Current, OnCard, Effective
  <2> QED
    BY <1>5, <1>6, <2>1
<1>7. CASE rows.doc # lists
  <2>1. ~Current'
    BY <1>1, <1>2, <1>3, <1>5, <1>7 DEF Current
  <2> QED
    BY <1>1, <1>2, <1>5, <1>7, <2>1 DEF OnCard
<1> QED
  BY <1>6, <1>7

LEMMA RemoveStep == ASSUME IInv, RemoveOld PROVE Holds'
<1>1. /\ UNCHANGED <<lists, lost, hostAt, minted, push, rows, listDocBuf, listDiff, pressed>>
      /\ at = "write" /\ at' = "rename" /\ listState' = NoDiff /\ tempFile'
  BY DEF RemoveOld, hostVars, phoneVars
<1>2. rows.live /\ rows.doc.rev <= minted
  BY <1>1 DEF IInv, Holds, ShownFromMemory, ShownFromCard
<1>3. ShownFromMemory'
  BY <1>1 DEF IInv, Holds, ShownFromMemory
<1>4. ShownFromCard'
  BY <1>1, RemoveShows DEF IInv, Holds, ShownFromCard
<1>5. LoadsApart'
  BY <1>1, <1>2, RemoveShows DEF IInv, Holds, LoadsApart
<1>6. Numbered'
  BY <1>1, <1>2, RemoveShows DEF IInv, Holds, Numbered
<1> QED
  BY <1>3, <1>4, <1>5, <1>6 DEF Holds

(* The new table has its name, and the press is on the card as on the      *)
(* screen, if it was of the stored document.                               *)
LEMMA RenameShows ==
  ASSUME IInv, Rename
  PROVE  /\ rows'.live /\ rows'.doc = rows.doc /\ rows'.boxes = Effective(listDocBuf, listDiff)
         /\ Table' = listDiff /\ listDiff.rev = rows.doc.rev /\ listDocBuf = rows.doc
         /\ rows.doc = lists => /\ Current /\ Current' /\ OnCard = rows.boxes
                                /\ OnCard' = rows'.boxes
         /\ rows.doc # lists => ~Current /\ ~Current' /\ OnCard' = OnCard
<1>1. /\ lists' = lists /\ at = "rename" /\ at' = "top" /\ listState' = listDiff
      /\ rows' = [rows EXCEPT !.boxes = Effective(listDocBuf, listDiff)]
  BY DEF Rename
<1>2. /\ rows.live /\ rows.doc # NoDoc /\ (rows.doc # lists => ~Current)
      /\ listDocBuf = rows.doc /\ listDiff.rev = rows.doc.rev
      /\ lists # NoDoc => lists.rev = minted /\ (rows.doc = lists \/ rows.doc.rev < minted)
  BY <1>1 DEF IInv, Holds, ShownFromMemory, ShownFromCard, Numbered
<1>3. /\ rows.doc \in Docs /\ rows.boxes \in SUBSET Items /\ rows.doc.rev \in Nat /\ minted \in Nat
      /\ rows \in [doc : Docs, boxes : SUBSET Items, live : BOOLEAN]
  BY Numbers DEF IInv, TypeOK
<1>4. Table' = listDiff /\ Table = Deviations(rows.doc, rows.boxes)
  BY <1>1 DEF Table
<1>5. Table.rev = rows.doc.rev /\ Effective(rows.doc, Table) = rows.boxes
  BY <1>3, <1>4, DeviationsOf
<1>6. rows'.live /\ rows'.doc = rows.doc /\ rows'.boxes = Effective(listDocBuf, listDiff)
  <2> DEFINE boxes == Effective(listDocBuf, listDiff)
  <2> HIDE DEF boxes
  <2>1. rows' = [rows EXCEPT !.boxes = boxes]
    BY <1>1 DEF boxes
  <2>2. rows'.live /\ rows'.doc = rows.doc /\ rows'.boxes = boxes
    BY <1>2, <1>3, <2>1
  <2> QED
    BY <2>2 DEF boxes
<1>7. CASE rows.doc = lists
  <2>1. Current /\ OnCard = Effective(lists, Table)
    BY <1>2, <1>5, <1>7 DEF Current, OnCard
  <2>2. Current' /\ OnCard' = Effective(lists, listDiff)
    BY <1>1, <1>2, <1>4, <1>7 DEF Current, OnCard, Effective
  <2> QED
    BY <1>2, <1>4, <1>5, <1>6, <1>7, <2>1, <2>2
<1>8. CASE rows.doc # lists
  <2>1. ~Current'
    BY <1>1, <1>2, <1>3, <1>4, <1>8 DEF Current
  <2> QED
    BY <1>1, <1>2, <1>4, <1>6, <1>8, <2>1 DEF OnCard
<1> QED
  BY <1>7, <1>8

LEMMA RenameStep == ASSUME IInv, Rename PROVE Holds'
<1>1. /\ UNCHANGED <<lists, lost, hostAt, minted, push, listDocBuf, listDiff>>
      /\ at = "rename" /\ at' = "top"
  BY DEF Rename, hostVars
<1>2. rows.live
  BY <1>1 DEF IInv, Holds, ShownFromMemory
<1>3. ShownFromMemory'
  BY <1>1, RenameShows DEF ShownFromMemory
<1>4. ShownFromCard'
  BY <1>1, <1>2, RenameShows DEF IInv, Holds, ShownFromCard
<1>5. LoadsApart'
  BY <1>1, <1>2, RenameShows DEF IInv, Holds, LoadsApart
<1>6. Numbered'
  BY <1>1, <1>2, RenameShows DEF IInv, Holds, ShownFromCard, Numbered
<1> QED
  BY <1>3, <1>4, <1>5, <1>6 DEF Holds

(* A table whose replacement does not get its name is lost. *)
LEMMA LoseShows ==
  ASSUME IInv, at = "rename", lists' = lists, listState' = listState, at' = "top"
  PROVE  Table' = NoDiff /\ ~Current' /\ OnCard' = lists.checked
<1>1. listState = NoDiff /\ minted # 0 /\ (lists # NoDoc => lists.rev = minted)
  BY DEF IInv, Holds, ShownFromMemory, Numbered
<1>2. Table' = NoDiff
  BY <1>1 DEF Table
<1>3. ~Current'
  BY <1>1, <1>2, Initial DEF Current
<1> QED
  BY <1>2, <1>3 DEF OnCard

LEMMA RenameFailsStep ==
  ASSUME IInv, RenameFails
  PROVE  Holds' /\ rows' = rows /\ (rows.doc = lists => lost')
<1>1. /\ UNCHANGED <<lists, listState, hostAt, minted, push, listDocBuf, rows>>
      /\ at = "rename" /\ at' = "top" /\ lost' = (lost \/ tempFile) /\ Undone
  BY DEF RenameFails, hostVars, phoneVars
<1>2. /\ rows.live /\ (rows.doc = lists => tempFile) /\ listDocBuf = rows.doc
      /\ listDiff.rev = rows.doc.rev /\ (rows.doc # lists => ~Current)
  BY <1>1 DEF IInv, Holds, ShownFromMemory, ShownFromCard, LoadsApart
<1>3. Table' = NoDiff /\ ~Current' /\ OnCard' = lists.checked
  BY <1>1, LoseShows
<1>4. rows.doc = lists => lost'
  BY <1>1, <1>2
<1>5. ShownFromMemory'
  BY <1>1, <1>2, UndoneRestores DEF ShownFromMemory
<1>6. ShownFromCard'
  BY <1>1, <1>2, <1>3, <1>4 DEF IInv, Holds, ShownFromCard
<1>7. LoadsApart'
  BY <1>1, <1>3 DEF IInv, Holds, LoadsApart
<1>8. Numbered'
  BY <1>1, <1>3, Initial, Numbers DEF IInv, Holds, Numbered
<1> QED
  BY <1>1, <1>4, <1>5, <1>6, <1>7, <1>8 DEF Holds

LEMMA LoopStep == ASSUME Apart, IInv, MainLoop \/ User PROVE Holds'
BY QuietStep, LoadStep, LeaveStep, RemoveStep, RenameStep, RenameFailsStep DEF MainLoop, User

(* The host task and the phone. *)
LEMMA PhoneStep ==
  ASSUME IInv, Phone \/ Refuse
  PROVE  Holds' /\ UNCHANGED <<lists, rows>> /\ Table' = Table
<1>1. /\ UNCHANGED <<lists, listState, tempFile, lost, hostAt, at, rows, listDocBuf, listDiff,
                     pressed, minted>>
      /\ hostAt = "rename" => push' = push
      /\ push' # NoPush => push' = push \/ push'.doc.rev > minted
  <2>1. CASE Connect \/ TakeScreen \/ LinkDrop \/ GetPage \/ Refuse
    BY <2>1 DEF Connect, TakeScreen, LinkDrop, GetPage, Refuse, cardVars, hostVars, mainVars
  <2>2. ASSUME NEW own \in Edits, Push(own)
        PROVE  /\ UNCHANGED <<lists, listState, tempFile, lost, hostAt, at, rows, listDocBuf,
                              listDiff, pressed, minted>>
               /\ hostAt # "rename" /\ push'.doc.rev > minted
    <3>1. push'.doc.rev = minted + 1 /\ minted \in Nat
      BY <2>2, PushType, EditsAssumption, Numbers DEF IInv
    <3>2. hostAt # "rename"
      BY <2>2 DEF Push, IInv, Holds, LoadsApart
    <3> QED
      BY <2>2, <3>1, <3>2 DEF Push, cardVars, hostVars, mainVars
  <2> QED
    BY <2>1, <2>2 DEF Phone
<1>2. Table' = Table /\ (Current' <=> Current) /\ OnCard' = OnCard
  BY <1>1, TableStays, SameTable
<1>3. ShownFromMemory'
  BY <1>1 DEF IInv, Holds, ShownFromMemory
<1>4. ShownFromCard'
  BY <1>1, <1>2 DEF IInv, Holds, ShownFromCard
<1>5. LoadsApart'
  BY <1>1, <1>2 DEF IInv, Holds, LoadsApart
<1>6. Numbered'
  BY <1>1, <1>2 DEF IInv, Holds, Numbered
<1> QED
  BY <1>1, <1>2, <1>3, <1>4, <1>5, <1>6 DEF Holds

LEMMA StoreStep ==
  ASSUME Apart, IInv, Store
  PROVE  Holds' /\ lists' = NoDoc /\ rows' = rows /\ ~Current' /\ OnCard' = {}
<1>1. /\ UNCHANGED <<listState, tempFile, lost, at, rows, listDocBuf, listDiff, pressed, minted, push>>
      /\ push # NoPush /\ hostAt = "idle" /\ at # "load" /\ lists' = NoDoc /\ hostAt' = "rename"
  BY DEF Store, Apart, mainVars, phoneVars
<1>2. Table' = Table
  BY <1>1, TableStays
<1>3. ~Current' /\ OnCard' = {}
  BY <1>1 DEF Current, OnCard, NoDoc
<1>4. ShownFromMemory'
  BY <1>1 DEF IInv, Holds, ShownFromMemory
<1>5. ShownFromCard'
  BY <1>1, <1>3 DEF IInv, Holds, ShownFromCard
<1>6. LoadsApart'
  BY <1>1, <1>3 DEF IInv, Holds, ShownFromMemory, ShownFromCard, LoadsApart
<1>7. Numbered'
  BY <1>1, <1>2 DEF IInv, Holds, Numbered
<1> QED
  BY <1>1, <1>3, <1>4, <1>5, <1>6, <1>7 DEF Holds

LEMMA RenameDocStep ==
  ASSUME IInv, RenameDoc
  PROVE  /\ Holds' /\ lists = NoDoc /\ lists' = push.doc /\ lists' # lists /\ rows' = rows
         /\ ~Current' /\ OnCard' = lists'.checked
<1>1. /\ UNCHANGED <<listState, tempFile, lost, at, rows, listDocBuf, listDiff, pressed, push>>
      /\ hostAt = "rename" /\ hostAt' = "clear" /\ lists' = push.doc /\ minted' = push.doc.rev
  BY DEF RenameDoc, mainVars
<1>2. Table' = Table
  BY <1>1, TableStays
<1>3. /\ lists = NoDoc /\ at # "load" /\ push.doc.rev > minted /\ Table.rev <= minted /\ minted # 0
      /\ rows.live => rows.doc.rev <= minted
  BY <1>1 DEF IInv, Holds, LoadsApart, Numbered, ShownFromCard
<1>4. /\ lists.rev \in Nat /\ minted \in Nat /\ push.doc.rev \in Nat /\ Table.rev \in Nat
      /\ rows.doc.rev \in Nat
  BY Numbers DEF IInv
<1>5. lists' # NoDoc /\ lists'.rev = minted' /\ ~Current'
  BY <1>1, <1>2, <1>3, <1>4, Initial DEF Current
<1>6. OnCard' = lists'.checked
  BY <1>5 DEF OnCard
<1>7. rows.live => rows.doc.rev < minted' /\ rows.doc # lists'
  BY <1>1, <1>3, <1>4
<1>8. ShownFromMemory'
  BY <1>1 DEF IInv, Holds, ShownFromMemory
<1>9. ShownFromCard'
  <2>1. rows.live => rows.doc # NoDoc /\ rows.doc.rev <= minted'
    BY <1>1, <1>3, <1>4, <1>7 DEF IInv, Holds, ShownFromCard
  <2> QED
    BY <1>1, <1>5, <1>7, <2>1 DEF ShownFromCard
<1>10. LoadsApart'
  <2>1. at = "rename" => rows.live
    BY DEF IInv, Holds, ShownFromMemory
  <2> QED
    BY <1>1, <1>3, <1>5, <1>7, <2>1 DEF LoadsApart
<1>11. Numbered'
  BY <1>1, <1>2, <1>3, <1>4, <1>5 DEF Numbered
<1> QED
  BY <1>1, <1>3, <1>5, <1>6, <1>8, <1>9, <1>10, <1>11 DEF Holds

LEMMA RenameDocFailsStep ==
  ASSUME IInv, RenameDocFails
  PROVE  Holds' /\ UNCHANGED <<lists, rows>> /\ Table' = Table
<1>1. /\ UNCHANGED <<lists, listState, tempFile, lost, at, rows, listDocBuf, listDiff, pressed, minted>>
      /\ hostAt = "rename" /\ hostAt' = "idle" /\ push' = NoPush
  BY DEF RenameDocFails, cardVars, mainVars
<1>2. Table' = Table /\ (Current' <=> Current) /\ OnCard' = OnCard
  BY <1>1, TableStays, SameTable
<1>3. ShownFromMemory' /\ ShownFromCard'
  BY <1>1, <1>2 DEF IInv, Holds, ShownFromMemory, ShownFromCard
<1>4. LoadsApart' /\ Numbered'
  BY <1>1, <1>2 DEF IInv, Holds, LoadsApart, Numbered
<1> QED
  BY <1>1, <1>2, <1>3, <1>4 DEF Holds

LEMMA ClearStep ==
  ASSUME IInv, Clear
  PROVE  Holds' /\ UNCHANGED <<lists, rows>> /\ ~Current /\ ~Current' /\ OnCard' = OnCard
<1>1. /\ UNCHANGED <<lists, at, rows, listDocBuf, listDiff, pressed, minted>>
      /\ hostAt = "clear" /\ hostAt' = "idle" /\ push' = NoPush /\ listState' = NoDiff
  BY DEF Clear, mainVars
<1>2. /\ ~Current /\ (rows.live => rows.doc # lists) /\ at # "load" /\ minted # 0
      /\ lists # NoDoc => lists.rev = minted
  BY <1>1 DEF IInv, Holds, LoadsApart, Numbered
<1>3. Table' = NoDiff \/ Table' = Table
  BY <1>1 DEF Table
<1>4. ~Current'
  BY <1>1, <1>2, <1>3, Initial DEF Current
<1>5. OnCard' = OnCard
  BY <1>1, <1>2, <1>4 DEF OnCard
<1>6. Table'.rev <= minted
  BY <1>3, Initial, Numbers DEF IInv, Holds, Numbered
<1>7. ShownFromMemory'
  BY <1>1 DEF IInv, Holds, ShownFromMemory
<1>8. ShownFromCard'
  BY <1>1, <1>2, <1>4 DEF IInv, Holds, ShownFromCard
<1>9. LoadsApart'
  <2>1. at = "rename" => rows.live
    BY DEF IInv, Holds, ShownFromMemory
  <2> QED
    BY <1>1, <1>2, <2>1 DEF LoadsApart
<1>10. Numbered'
  BY <1>1, <1>2, <1>6 DEF Numbered
<1> QED
  BY <1>1, <1>2, <1>4, <1>5, <1>7, <1>8, <1>9, <1>10 DEF Holds

LEMMA PowerStep ==
  ASSUME IInv, PowerLoss
  PROVE  /\ Holds' /\ lists' = lists /\ ~rows'.live
         /\ at = "rename" => lost' /\ ~Current' /\ OnCard' = lists.checked
         /\ at # "rename" => Table' = Table
<1>1. /\ UNCHANGED <<lists, listState, tempFile, minted>>
      /\ ~rows'.live /\ at' = "top" /\ hostAt' = "idle" /\ push' = NoPush /\ lost' = (at = "rename")
  BY DEF PowerLoss, NoRows
<1>2. at # "rename" => Table' = Table
  BY <1>1, TableKept
<1>3. at = "rename" => Table' = NoDiff /\ ~Current' /\ OnCard' = lists.checked
  BY <1>1, LoseShows
<1>4. Table'.rev <= minted
  BY <1>2, <1>3, Initial, Numbers DEF IInv, Holds, Numbered
<1>5. Holds'
  BY <1>1, <1>4 DEF IInv, Holds, ShownFromMemory, ShownFromCard, LoadsApart, Numbered
<1> QED
  BY <1>1, <1>2, <1>3, <1>5

LEMMA StepIInv == ASSUME Apart PROVE IInv /\ [Next]_vars => IInv'
<1> SUFFICES ASSUME IInv, [Next]_vars PROVE IInv'
  OBVIOUS
<1>1. TypeOK'
  BY StepType DEF IInv
<1>2. CASE UNCHANGED vars
  <2>1. /\ UNCHANGED <<lists, listState, tempFile, lost, at, rows, listDocBuf, listDiff, pressed, minted>>
        /\ UNCHANGED <<hostAt, push>>
    BY <1>2 DEF vars, cardVars, hostVars, mainVars, phoneVars
  <2>2. Table' = Table /\ (Current' <=> Current) /\ OnCard' = OnCard
    BY <2>1, TableStays, SameTable
  <2>3. ShownFromMemory' /\ ShownFromCard'
    BY <2>1, <2>2 DEF IInv, Holds, ShownFromMemory, ShownFromCard
  <2>4. LoadsApart' /\ Numbered'
    BY <2>1, <2>2 DEF IInv, Holds, LoadsApart, Numbered
  <2> QED
    BY <1>1, <2>3, <2>4 DEF IInv, Holds
<1>3. CASE Next
  <2>1. Holds'
    BY <1>3, LoopStep, PhoneStep, StoreStep, RenameDocStep, RenameDocFailsStep, ClearStep, PowerStep
       DEF Next, HostTask
  <2> QED
    BY <1>1, <2>1 DEF IInv
<1> QED
  BY <1>2, <1>3

shownDoc == IF rows.live THEN rows.doc ELSE lists
shownBoxes == IF rows.live THEN rows.boxes ELSE OnCard

(* Between a document and the card, a step shows what was shown, one item  *)
(* flipped, no check-offs at all, or another document with none.           *)
ShowsAsBefore == shownDoc' = shownDoc /\ shownBoxes' = shownBoxes
OneFlipped == /\ shownDoc' = shownDoc
              /\ \E i \in Items : shownBoxes' = Flipped(shownBoxes, i)
AllLost  == shownDoc' = shownDoc /\ shownBoxes' = shownDoc.checked
Replaced == shownDoc' \in Docs /\ shownDoc' # shownDoc /\ shownBoxes' = shownDoc'.checked

(* Showing what the card has, as a list is loaded, left or goes blank.     *)
LEMMA BackToCard ==
  ASSUME IInv, shownDoc' = lists, shownBoxes' = OnCard
  PROVE  ShowsAsBefore \/ AllLost \/ Replaced
<1>1. CASE ~rows.live
  BY <1>1 DEF ShowsAsBefore, shownDoc, shownBoxes
<1>2. CASE rows.live /\ rows.doc = lists
  BY <1>2 DEF IInv, Holds, ShownFromCard, ShowsAsBefore, AllLost, shownDoc, shownBoxes
<1>3. CASE rows.live /\ rows.doc # lists
  <2>1. OnCard = lists.checked /\ shownDoc = rows.doc /\ lists \in Docs
    BY <1>3 DEF IInv, Holds, TypeOK, ShownFromCard, OnCard, shownDoc
  <2> QED
    BY <1>3, <2>1 DEF Replaced
<1> QED
  BY <1>1, <1>2, <1>3

LEMMA StepShows ==
  ASSUME Apart, IInv, [Next]_vars
  PROVE  ShowsAsBefore \/ OneFlipped \/ AllLost \/ Replaced
<1>1. CASE FinishLoad
  <2>1. lists' = lists /\ OnCard' = OnCard
    BY <1>1, LoadShowsCard DEF FinishLoad
  <2>2. shownDoc' = lists /\ shownBoxes' = OnCard
    BY <1>1, <2>1, LoadShowsCard DEF shownDoc, shownBoxes
  <2> QED
    BY <2>2, BackToCard
<1>2. CASE LeaveList
  <2>1. lists' = lists /\ OnCard' = OnCard /\ ~rows'.live
    BY <1>2, LeaveStep, SameTable DEF LeaveList, cardVars
  <2> QED
    BY <2>1, BackToCard DEF shownDoc, shownBoxes
<1>3. CASE PowerLoss
  <2>1. lists' = lists /\ ~rows'.live
    BY <1>3, PowerStep
  <2>2. CASE at # "rename"
    <3>1. OnCard' = OnCard
      BY <1>3, <2>1, <2>2, PowerStep, SameTable
    <3> QED
      BY <2>1, <3>1, BackToCard DEF shownDoc, shownBoxes
  <2>3. CASE at = "rename"
    <3>1. shownDoc' = lists /\ shownBoxes' = lists.checked /\ shownDoc = rows.doc /\ lists \in Docs
      BY <1>3, <2>1, <2>3, PowerStep
         DEF shownDoc, shownBoxes, IInv, Holds, TypeOK, ShownFromMemory
    <3> QED
      BY <3>1 DEF AllLost, Replaced
  <2> QED
    BY <2>2, <2>3
<1>4. CASE Rename
  <2>1. PICK i \in Items : Effective(listDocBuf, listDiff) = Flipped(rows.boxes, i)
    BY <1>4 DEF Rename, IInv, Holds, ShownFromMemory
  <2>2. rows.live
    BY <1>4 DEF Rename, IInv, Holds, ShownFromMemory
  <2>3. rows'.live /\ rows'.doc = rows.doc /\ rows'.boxes = Flipped(rows.boxes, i)
    BY <1>4, <2>1, RenameShows
  <2> QED
    BY <2>2, <2>3 DEF OneFlipped, shownDoc, shownBoxes
<1>5. CASE Store
  <2>1. CASE rows.live
    BY <1>5, <2>1, StoreStep DEF ShowsAsBefore, shownDoc, shownBoxes
  <2>2. CASE ~rows.live
    <3>1. shownDoc' = NoDoc /\ shownBoxes' = {} /\ NoDoc.checked = {} /\ NoDoc \in Docs
      BY <1>5, <2>2, StoreStep, Initial DEF shownDoc, shownBoxes, NoDoc
    <3> QED
      BY <3>1 DEF AllLost, Replaced
  <2> QED
    BY <2>1, <2>2
<1>6. CASE RenameDoc
  <2>1. CASE rows.live
    BY <1>6, <2>1, RenameDocStep DEF ShowsAsBefore, shownDoc, shownBoxes
  <2>2. CASE ~rows.live
    <3>1. push.doc \in Docs
      BY DEF IInv, TypeOK
    <3> QED
      BY <1>6, <2>2, <3>1, RenameDocStep DEF Replaced, shownDoc, shownBoxes
  <2> QED
    BY <2>1, <2>2
<1>7. CASE Clear
  BY <1>7, ClearStep DEF ShowsAsBefore, shownDoc, shownBoxes
<1>8. ASSUME UNCHANGED <<lists, rows>>, rows.live \/ Table' = Table
      PROVE  ShowsAsBefore
  BY <1>8, SameTable DEF ShowsAsBefore, shownDoc, shownBoxes
<1>9. CASE RemoveOld \/ RenameFails
  <2>1. UNCHANGED <<lists, rows>> /\ rows.live
    BY <1>9 DEF RemoveOld, RenameFails, IInv, Holds, ShownFromMemory
  <2> QED
    BY <1>8, <2>1
<1>10. CASE \/ Drain \/ EnterList \/ MessageOver \/ WriteFails \/ NoPress
            \/ \E i \in Items : Toggle(i) \/ TooManyEdits(i)
  <2>1. UNCHANGED <<lists, rows>>
    BY <1>10 DEF Drain, EnterList, MessageOver, WriteFails, NoPress, Toggle, TooManyEdits, cardVars
  <2> QED
    BY <1>8, <1>10, <2>1, QuietStep
<1>11. CASE Phone \/ Refuse \/ RenameDocFails
  BY <1>8, <1>11, PhoneStep, RenameDocFailsStep
<1>12. CASE UNCHANGED vars
  <2>1. UNCHANGED <<lists, rows, listState, at>>
    BY <1>12 DEF vars, cardVars, mainVars
  <2> QED
    BY <1>8, <2>1, TableStays
<1> QED
  BY <1>1, <1>2, <1>3, <1>4, <1>5, <1>6, <1>7, <1>9, <1>10, <1>11, <1>12
     DEF Next, MainLoop, User, HostTask

(* The detailed list implements CheckList: with loads and stores of the    *)
(* list apart and a table that reads, whatever fails and wherever the      *)
(* power goes, the list shows a document with the user's own check-offs on *)
(* that document, or with none: a step loses all of them or nothing.       *)
THEOREM TodoImplementsCheckList == ASSUME Apart PROVE Spec => IsACheckList
<1>1. Init => Abstract!Init
  <2> SUFFICES ASSUME Init PROVE Abstract!Init
    OBVIOUS
  <2>1. ~rows.live /\ listState = NoDiff /\ at = "top" /\ lists.rev = 1 /\ lists \in Docs
    BY DEF Init, NoRows
  <2>2. OnCard = lists.checked
    BY <2>1, Initial DEF OnCard, Current, Table
  <2> QED
    BY <2>1, <2>2 DEF Abstract!Init
<1>2. ASSUME IInv, [Next]_vars PROVE [Abstract!Next]_Abstract!vars
  <2>1. CASE ShowsAsBefore
    BY <2>1 DEF ShowsAsBefore, shownDoc, shownBoxes, Abstract!vars
  <2>2. CASE OneFlipped
    BY <2>2 DEF OneFlipped, shownDoc, shownBoxes, Abstract!Next, Abstract!Flip, Flipped
  <2>3. CASE AllLost
    BY <2>3 DEF AllLost, shownDoc, shownBoxes, Abstract!Next, Abstract!Lose
  <2>4. CASE Replaced
    BY <2>4 DEF Replaced, shownDoc, shownBoxes, Abstract!Next, Abstract!Replace
  <2> QED
    BY <1>2, <2>1, <2>2, <2>3, <2>4, StepShows
<1> QED
  BY <1>1, <1>2, InitIInv, StepIInv, PTL DEF Spec, IsACheckList, Abstract!Spec

(* And then the check-offs of the stored document stay with it, and change *)
(* one at a time: the overlap shown by list_overlap, a table that cannot   *)
(* be read, and a replacement that stops between the removal of the old    *)
(* table and the name of the new one are the only ways to lose one.        *)
THEOREM TodoKeepsEdits == ASSUME Apart PROVE Spec => EditsAreKept
<1> DEFINE Stays == Current' /\ (OnCard' = OnCard \/ \E i \in Items : OnCard' \ {i} = OnCard \ {i})
<1>1. ASSUME IInv, [Next]_vars, Current, lists' = lists, ~lost' PROVE Stays
  <2>0. lists # NoDoc
    BY <1>1 DEF Current
  <2>1. CASE FinishLoad
    BY <1>1, <2>1, LoadShowsCard
  <2>2. CASE RemoveOld
    <3>1. rows.live /\ ~lost
      BY <1>1, <2>2 DEF RemoveOld, IInv, Holds, ShownFromMemory
    <3>2. rows.doc = lists /\ rows.boxes = OnCard
      BY <1>1, <3>1 DEF IInv, Holds, ShownFromCard
    <3> QED
      BY <1>1, <2>2, <3>2, RemoveShows
  <2>3. CASE Rename
    <3>1. rows.live
      BY <1>1, <2>3 DEF Rename, IInv, Holds, ShownFromMemory
    <3>2. rows.doc = lists
      BY <1>1, <3>1 DEF IInv, Holds, ShownFromCard
    <3>3. PICK i \in Items : Effective(listDocBuf, listDiff) = Flipped(rows.boxes, i)
      BY <1>1, <2>3 DEF Rename, IInv, Holds, ShownFromMemory
    <3>4. Current' /\ OnCard' = Flipped(OnCard, i)
      BY <1>1, <2>3, <3>2, <3>3, RenameShows
    <3> QED
      BY <3>4 DEF Flipped
  <2>4. CASE RenameFails
    <3>1. rows.live
      BY <1>1, <2>4 DEF RenameFails, IInv, Holds, ShownFromMemory
    <3>2. rows.doc = lists
      BY <1>1, <3>1 DEF IInv, Holds, ShownFromCard
    <3> QED
      BY <1>1, <2>4, <3>2, RenameFailsStep
  <2>5. CASE Store \/ RenameDoc \/ Clear
    BY <1>1, <2>0, <2>5, StoreStep, RenameDocStep, ClearStep
  <2>6. CASE Table' = Table
    BY <1>1, <2>6, SameTable
  <2>7. CASE PowerLoss
    BY <1>1, <2>6, <2>7, PowerStep
  <2>8. CASE UNCHANGED vars
    <3>1. UNCHANGED <<rows, listState, at>>
      BY <2>8 DEF vars, cardVars, mainVars
    <3> QED
      BY <2>6, <3>1, TableStays
  <2>9. CASE \/ Drain \/ EnterList \/ MessageOver \/ WriteFails \/ NoPress \/ LeaveList
             \/ \E i \in Items : Toggle(i) \/ TooManyEdits(i)
    BY <1>1, <2>6, <2>9, QuietStep, LeaveStep
  <2>10. CASE Phone \/ Refuse \/ RenameDocFails
    BY <1>1, <2>6, <2>10, PhoneStep, RenameDocFailsStep
  <2> QED
    BY <1>1, <2>1, <2>2, <2>3, <2>4, <2>5, <2>7, <2>8, <2>9, <2>10
       DEF Next, MainLoop, User, HostTask
<1>2. IInv /\ [Next]_vars => [Current /\ lists' = lists /\ ~lost' => Stays]_vars
  BY <1>1
<1> QED
  BY <1>2, InitIInv, StepIInv, PTL DEF Spec, EditsAreKept

----------------------------------------------------------------------------
(* What a phone has of a table whose pages it reads                        *)

(* The first entries of a table, as many as there are of them. *)
Segment(C, table) ==
  /\ C \subseteq Entries(table)
  /\ \A i \in C, j \in Entries(table) : j < i => j \in C

Below == {ss \in Nat \X Nat : ss[1] < ss[2]}

LEMMA Smallest ==
  ASSUME NEW S, S \subseteq Nat, S # {}
  PROVE  \E m \in S : \A k \in S : ~(k < m)
<1>1. IsWellFoundedOn(Below, Nat)
  BY NatLessThanWellFounded DEF OpToRel, Below
<1>2. \E m \in S : \A k \in S : <<k, m>> \notin Below
  BY <1>1, WFMin
<1>3. ASSUME NEW m \in Nat, NEW k \in Nat, k < m PROVE <<k, m>> \in Below
  BY <1>3 DEF Below
<1> QED
  BY <1>2, <1>3

LEMMA EntriesFinite ==
  ASSUME NEW table \in Diffs
  PROVE  /\ Entries(table) \subseteq Items /\ Entries(table) \subseteq Nat
         /\ IsFiniteSet(Entries(table)) /\ Total(table) \in Nat
<1>1. Entries(table) \in SUBSET Items
  BY DEF Diffs, Entries
<1>2. IsFiniteSet(Entries(table))
  BY <1>1, ItemsAssumption, FS_Subset
<1> QED
  BY <1>1, <1>2, ItemsAssumption, FS_CardinalityType DEF Total

LEMMA SegmentFinite ==
  ASSUME NEW table \in Diffs, NEW C, Segment(C, table)
  PROVE  IsFiniteSet(C) /\ Cardinality(C) \in Nat /\ Cardinality(C) <= Total(table)
<1>1. C \in SUBSET Entries(table)
  BY DEF Segment
<1>2. IsFiniteSet(C) /\ Cardinality(C) <= Cardinality(Entries(table))
  BY <1>1, EntriesFinite, FS_Subset
<1> QED
  BY <1>2, FS_CardinalityType DEF Total

(* An entry's rank tells whether it is one of the first so many. *)
LEMMA RankInSegment ==
  ASSUME NEW table \in Diffs, NEW C, Segment(C, table), NEW i \in Entries(table)
  PROVE  /\ Rank(table, i) \in Nat
         /\ i \in C <=> Rank(table, i) < Cardinality(C)
<1> DEFINE before == {j \in Entries(table) : j < i}
<1>1. before \in SUBSET Entries(table)
  OBVIOUS
<1>2. IsFiniteSet(before) /\ Cardinality(before) \in Nat
  BY <1>1, EntriesFinite, FS_Subset, FS_CardinalityType
<1>3. Rank(table, i) = Cardinality(before)
  BY DEF Rank
<1>4. IsFiniteSet(C) /\ Cardinality(C) \in Nat
  BY SegmentFinite
<1>5. CASE i \in C
  <2>1. before \in SUBSET (C \ {i})
    BY <1>5, EntriesFinite DEF Segment
  <2>2. IsFiniteSet(C \ {i}) /\ Cardinality(C \ {i}) = Cardinality(C) - 1
    BY <1>4, <1>5, FS_RemoveElement
  <2>3. Cardinality(before) <= Cardinality(C \ {i})
    BY <2>1, <2>2, FS_Subset
  <2> HIDE DEF before
  <2>4. Cardinality(before) < Cardinality(C)
    BY <1>2, <1>4, <2>2, <2>3
  <2> QED
    BY <1>2, <1>3, <1>5, <2>4
<1>6. CASE i \notin C
  <2>1. \A k \in C : k < i
    BY <1>6, EntriesFinite DEF Segment
  <2>2. C \in SUBSET before
    BY <2>1 DEF Segment
  <2>3. Cardinality(C) <= Cardinality(before)
    BY <1>2, <2>2, FS_Subset
  <2> HIDE DEF before
  <2>4. ~(Cardinality(before) < Cardinality(C))
    BY <1>2, <1>4, <2>3
  <2> QED
    BY <1>2, <1>3, <1>6, <2>4
<1> QED
  BY <1>5, <1>6

(* The page at the end of what the phone has joins on without a gap. *)
LEMMA PageJoins ==
  ASSUME NEW table \in Diffs, NEW C, Segment(C, table)
  PROVE  LET page == Page(table, Cardinality(C))
         IN  /\ page \cap C = {} /\ Segment(C \cup page, table)
             /\ Cardinality(C \cup page) = Cardinality(C) + Cardinality(page)
<1> DEFINE n == Cardinality(C)
           page == Page(table, n)
<1>0. IsFiniteSet(C) /\ n \in Nat
  BY SegmentFinite
<1>1. page \in SUBSET Entries(table)
  BY DEF Page
<1>2. IsFiniteSet(page)
  BY <1>1, EntriesFinite, FS_Subset
<1>3. ASSUME NEW i \in page PROVE /\ Rank(table, i) \in Nat /\ ~(Rank(table, i) < n)
                                  /\ Rank(table, i) <= n + PageSize - 1
  <2>1. Rank(table, i) \in n .. (n + PageSize - 1)
    BY DEF Page
  <2> HIDE DEF n
  <2> QED
    BY <1>0, <2>1, PageAssumption
<1>4. page \cap C = {}
  BY <1>1, <1>3, RankInSegment
<1>5. ASSUME NEW i \in page, NEW j \in Entries(table), j < i PROVE j \in C \cup page
  <2>1. {k \in Entries(table) : k < j} \in SUBSET {k \in Entries(table) : k < i}
    BY <1>1, <1>5, EntriesFinite
  <2>2. IsFiniteSet({k \in Entries(table) : k < i})
    BY EntriesFinite, FS_Subset
  <2>3. Rank(table, j) <= Rank(table, i)
    BY <2>1, <2>2, FS_Subset DEF Rank
  <2>4. Rank(table, j) \in Nat /\ (j \in C <=> Rank(table, j) < n)
    BY RankInSegment
  <2>5. CASE Rank(table, j) < n
    BY <2>4, <2>5
  <2>6. CASE ~(Rank(table, j) < n)
    <3> HIDE DEF n
    <3>1. Rank(table, i) \in Nat /\ Rank(table, i) <= n + PageSize - 1
      BY <1>3
    <3>2. Rank(table, j) \in n .. (n + PageSize - 1)
      BY <1>0, <2>3, <2>4, <2>6, <3>1, PageAssumption
    <3> QED
      BY <3>2 DEF Page
  <2> QED
    BY <2>5, <2>6
<1>6. Segment(C \cup page, table)
  BY <1>1, <1>5 DEF Segment
<1>7. Cardinality(C \cup page) = n + Cardinality(page)
  <2>1. Cardinality(C \cup page) = n + Cardinality(page) - Cardinality(C \cap page)
    BY <1>0, <1>2, FS_Union
  <2>2. Cardinality(C \cap page) = 0
    <3>1. C \cap page = {} BY <1>4
    <3> QED BY <3>1, FS_EmptySet
  <2>3. Cardinality(page) \in Nat
    BY <1>2, FS_CardinalityType
  <2> HIDE DEF n, page
  <2> QED
    BY <1>0, <2>1, <2>2, <2>3
<1> QED
  BY <1>4, <1>6, <1>7

(* An empty page, or as many entries as the table has, is the end of it. *)
LEMMA NothingAfter ==
  ASSUME NEW table \in Diffs, NEW C, Segment(C, table),
         Page(table, Cardinality(C)) = {} \/ Cardinality(C) = Total(table)
  PROVE  C = Entries(table)
<1>1. CASE Cardinality(C) = Total(table)
  BY <1>1, EntriesFinite, FS_Subset DEF Segment, Total
<1>2. CASE Page(table, Cardinality(C)) = {} /\ C # Entries(table)
  <2> DEFINE rest == Entries(table) \ C
             n == Cardinality(C)
  <2>1. rest # {} /\ rest \subseteq Nat
    BY <1>2, EntriesFinite DEF Segment
  <2>2. PICK m \in rest : \A k \in rest : ~(k < m)
    BY <2>1, Smallest
  <2>3. {j \in Entries(table) : j < m} = C
    <3>1. \A j \in Entries(table) : j < m => j \in C
      BY <2>2
    <3>2. \A j \in C : j < m
      BY <2>2, EntriesFinite DEF Segment
    <3> QED
      BY <3>1, <3>2 DEF Segment
  <2>4. Rank(table, m) = n
    BY <2>3 DEF Rank
  <2>5. n \in Nat
    BY SegmentFinite
  <2>6. n \in n .. (n + PageSize - 1)
    <3> HIDE DEF n
    <3> QED BY <2>5, PageAssumption
  <2>7. m \in Page(table, n)
    BY <2>4, <2>6 DEF Page
  <2> QED
    BY <1>2, <2>7
<1> QED
  BY <1>1, <1>2

(* One press changes the number of entries. *)
LEMMA FlipCounts ==
  ASSUME NEW S, IsFiniteSet(S), NEW i
  PROVE  Cardinality(Flipped(S, i)) # Cardinality(S)
<1>1. Cardinality(S) \in Nat
  BY FS_CardinalityType
<1>2. CASE i \in S
  <2>1. Flipped(S, i) = S \ {i}
    BY <1>2 DEF Flipped
  <2>2. Cardinality(S \ {i}) = Cardinality(S) - 1
    BY <1>2, FS_RemoveElement
  <2> QED
    BY <1>1, <2>1, <2>2
<1>3. CASE i \notin S
  <2>1. Flipped(S, i) = S \cup {i}
    BY <1>3 DEF Flipped
  <2>2. Cardinality(S \cup {i}) = Cardinality(S) + 1
    BY <1>3, FS_AddElement
  <2> QED
    BY <1>1, <2>1, <2>2
<1> QED
  BY <1>2, <1>3

(* No entry of a table says what its document says already; so the table   *)
(* says no more than what the list comes to.                               *)
Apt(diff, doc) == diff.on \cap doc.checked = {} /\ diff.off \subseteq doc.checked

LEMMA AptEntries ==
  ASSUME NEW doc, NEW diff, Apt(diff, doc)
  PROVE  /\ diff.on = Effective(doc, diff) \ doc.checked
         /\ diff.off = doc.checked \ Effective(doc, diff)
BY DEF Apt, Effective

LEMMA ToggleApt ==
  ASSUME NEW doc \in Docs, NEW diff \in Diffs, NEW i \in Items, Apt(diff, doc)
  PROVE  Apt(Toggled(diff, doc, i), doc)
<1> DEFINE after == i \notin Effective(doc, diff)
           on2 == IF after /\ i \notin doc.checked THEN diff.on \cup {i} ELSE diff.on \ {i}
           off2 == IF ~after /\ i \in doc.checked THEN diff.off \cup {i} ELSE diff.off \ {i}
<1>1. diff \in [rev : 0 .. MaxRev, on : SUBSET Items, off : SUBSET Items]
  BY DEF Diffs
<1>2. Toggled(diff, doc, i) = [diff EXCEPT !.on = on2, !.off = off2]
  BY Zenon DEF Toggled
<1>3. on2 \cap doc.checked = {} /\ off2 \subseteq doc.checked
  BY DEF Apt
<1> HIDE DEF on2, off2
<1>4. Toggled(diff, doc, i).on = on2 /\ Toggled(diff, doc, i).off = off2
  BY <1>1, <1>2
<1> QED
  BY <1>3, <1>4 DEF Apt

(* The list changes by one item, so do the entries of its table. *)
LEMMA EntriesFlip ==
  ASSUME NEW doc, NEW old, NEW new, NEW i, Apt(old, doc), Apt(new, doc),
         Effective(doc, new) = Flipped(Effective(doc, old), i)
  PROVE  /\ Entries(new) = Flipped(Entries(old), i)
         /\ \A j : j # i => (j \in new.on <=> j \in old.on) /\ (j \in new.off <=> j \in old.off)
<1>1. /\ old.on = Effective(doc, old) \ doc.checked /\ old.off = doc.checked \ Effective(doc, old)
      /\ new.on = Effective(doc, new) \ doc.checked /\ new.off = doc.checked \ Effective(doc, new)
  BY AptEntries
<1> QED
  BY <1>1 DEF Entries, Flipped

----------------------------------------------------------------------------
(* The walk of the phone, its push, and what both owe to the card          *)

Deviate ==
  /\ rows.live /\ at # "load" => Apt(listDiff, listDocBuf)
  /\ Current => Apt(Table, lists)

(* A revision names one document. *)
Known ==
  /\ base.rev # 0 /\ base.rev <= minted /\ (base.rev = lists.rev => base = lists)
  /\ hostAt = "clear" => push # NoPush /\ push.doc = lists /\ lists # NoDoc
  /\ walk.at = "none" => walk.rev = 0

(* A phone that was told nothing and has read nothing misses nothing, if   *)
(* it neither connected nor read in the gap of a replacement.              *)
Untold == link /\ ~told /\ (walk.blurred => walk.at = "walking") /\ ~lost /\ walk.rev # lists.rev
            => OnCard = lists.checked

(* A walk has the first entries of a table, as the table has them. *)
Has(w, table) ==
  /\ w.on \subseteq table.on /\ w.off \subseteq table.off
  /\ Segment(w.on \cup w.off, table) /\ w.pos = Cardinality(w.on \cup w.off)

(* Since the last page no press, and the phone has the first entries; or   *)
(* one, and the number of entries is another; or more, and the next page   *)
(* will blur it.                                                           *)
Walking == walk.at = "walking" =>
  /\ presses = 0 => walk.total = Total(Table) /\ (~walk.blurred => Has(walk, Table))
  /\ presses = 1 => walk.total # Total(Table)

(* At the end of its walk it has the table, but for what was pressed since. *)
Walked == walk.at = "done" /\ ~walk.blurred =>
  \A i \in Items \ late : (i \in walk.on <=> i \in Table.on) /\ (i \in walk.off <=> i \in Table.off)

WalkHolds == hostAt = "idle" /\ lists # NoDoc /\ ~lost /\ walk.rev = lists.rev
               => Current /\ Walking /\ Walked

PushHolds ==
  (hostAt = "idle" /\ lists # NoDoc /\ ~lost /\ push # NoPush /\ push.from = lists.rev /\ ~push.blurred)
               => \A i \in Items \ (push.own \cup late) : i \in OnCard <=> i \in push.doc.checked

SHolds == Deviate /\ Known /\ Untold /\ WalkHolds /\ PushHolds
SInv == IInv /\ SHolds

LEMMA InitSInv == Init => SInv
<1> SUFFICES ASSUME Init PROVE SInv
  OBVIOUS
<1>1. IInv
  BY InitIInv
<1>2. /\ ~rows.live /\ listState = NoDiff /\ lists.rev = 1 /\ base = lists /\ hostAt = "idle"
      /\ at = "top" /\ minted = 1 /\ walk.rev = 0 /\ ~link /\ push = NoPush
  BY DEF Init, NoRows, NoWalk
<1>3. ~Current
  BY <1>2, Initial DEF Current, Table
<1>4. Deviate /\ Known /\ Untold /\ WalkHolds /\ PushHolds
  BY <1>2, <1>3 DEF Deviate, Known, Untold, WalkHolds, PushHolds
<1> QED
  BY <1>1, <1>4 DEF SInv, SHolds

(* What the phone owes is of the table, whichever file it is in. *)
LEMMA WalkOfTable ==
  ASSUME Table' = Table, UNCHANGED <<walk, presses, late>>
  PROVE  (Walking' <=> Walking) /\ (Walked' <=> Walked)
<1>1. Total(Table)' = Total(Table) /\ (Has(walk, Table)' <=> Has(walk, Table))
  BY DEF Total, Entries, Has, Segment
<1>2. Walking' <=> Walking
  BY <1>1 DEF Walking
<1>3. Walked' <=> Walked
  BY DEF Walked
<1> QED
  BY <1>2, <1>3

(* A step of the loop that leaves the phone and the document alone, and    *)
(* loses no table that the phone has.                                      *)
LEMMA SamePhone ==
  ASSUME SInv, UNCHANGED <<lists, hostAt, phoneVars, userVars>>, lost => lost',
         ~lost' => OnCard' = OnCard,
         ~lost' /\ Current => Current' /\ Table' = Table
  PROVE  Known' /\ Untold' /\ WalkHolds' /\ PushHolds'
<1>1. UNCHANGED <<lists, hostAt, link, told, base, walk, push, minted, late, presses>>
  BY DEF phoneVars, userVars
<1>2. Known' BY <1>1 DEF SInv, SHolds, Known
<1>3. Untold' BY <1>1 DEF SInv, SHolds, Untold
<1>4. WalkHolds'
  <2>1. ASSUME hostAt = "idle", lists # NoDoc, ~lost', walk.rev = lists.rev
        PROVE  Current' /\ Walking' /\ Walked'
    <3>1. Current /\ Walking /\ Walked
      BY <2>1 DEF SInv, SHolds, WalkHolds
    <3> QED
      BY <1>1, <2>1, <3>1, WalkOfTable
  <2> QED
    BY <1>1, <2>1 DEF WalkHolds
<1>5. PushHolds' BY <1>1 DEF SInv, SHolds, PushHolds
<1> QED
  BY <1>2, <1>3, <1>4, <1>5

LEMMA QuietHolds ==
  ASSUME Apart, SInv,
         \/ Drain \/ EnterList \/ MessageOver \/ WriteFails \/ NoPress \/ LeaveList
         \/ \E i \in Items : Toggle(i) \/ TooManyEdits(i)
  PROVE  SHolds'
<1>0. listDocBuf \in Docs /\ listDiff \in Diffs /\ IInv /\ Deviate
  BY DEF SInv, SHolds, IInv, TypeOK
<1>1. UNCHANGED <<lists, hostAt, phoneVars, userVars>> /\ lost' = lost
  BY DEF Drain, EnterList, MessageOver, LeaveList, WriteFails, NoPress, Toggle, TooManyEdits,
         BeginLoad, cardVars, hostVars
<1>2. Table' = Table /\ (Current' <=> Current) /\ OnCard' = OnCard
  BY <1>0, <1>1, QuietStep, LeaveStep, SameTable
<1>3. Deviate'
  <2>1. CASE Drain \/ EnterList \/ MessageOver \/ NoPress \/ \E i \in Items : TooManyEdits(i)
    <3>1. rows' = rows /\ at # "load" /\ (at' # "load" => UNCHANGED <<listDocBuf, listDiff>>)
      BY <2>1 DEF Drain, EnterList, MessageOver, NoPress, TooManyEdits, BeginLoad
    <3> QED
      BY <1>0, <1>1, <1>2, <3>1 DEF Deviate, Apt
  <2>2. CASE LeaveList
    <3>1. ~rows'.live
      BY <2>2 DEF LeaveList, NoRows
    <3> QED
      BY <1>0, <1>1, <1>2, <3>1 DEF Deviate, Apt
  <2>3. ASSUME NEW i \in Items, Toggle(i) \/ (WriteFails /\ pressed = {i}) PROVE Deviate'
    <3>1. listDiff' = Toggled(listDiff, listDocBuf, i) /\ UNCHANGED <<listDocBuf, rows>>
          /\ rows.live /\ at # "load"
      BY <1>0, <2>3 DEF Toggle, WriteFails, Undone, IInv, Holds, ShownFromMemory
    <3>2. Apt(listDiff, listDocBuf)
      BY <1>0, <3>1 DEF Deviate
    <3>3. Apt(listDiff', listDocBuf)
      BY <1>0, <3>1, <3>2, ToggleApt
    <3> QED
      BY <1>0, <1>1, <1>2, <3>1, <3>3 DEF Deviate, Apt
  <2>4. WriteFails => \E i \in Items : pressed = {i}
    BY <1>0 DEF WriteFails, IInv, Holds, ShownFromMemory
  <2> QED
    BY <2>1, <2>2, <2>3, <2>4
<1> QED
  BY <1>1, <1>2, <1>3, SamePhone DEF SHolds

LEMMA LoadHolds == ASSUME Apart, SInv, FinishLoad PROVE SHolds'
<1>1. UNCHANGED <<lists, hostAt, phoneVars, userVars, listDocBuf>> /\ lost' = lost /\ at' = "top"
  BY DEF FinishLoad, hostVars
<1>2. /\ OnCard' = OnCard /\ (Current' <=> Current)
      /\ Current => Table' = Table /\ Table = listState
      /\ rows'.live => listDocBuf = lists
  BY LoadShowsCard DEF SInv
<1>3. Deviate'
  <2>1. ASSUME rows'.live PROVE Apt(listDiff', lists)
    <3>1. listDiff' = IF SameRevision THEN [listState EXCEPT !.rev = listDocBuf.rev]
                                      ELSE Empty(listDocBuf.rev)
      BY <2>1 DEF FinishLoad, Apart
    <3>2. CASE SameRevision
      <4>1. listState \in Diffs /\ Table = listState /\ lists # NoDoc
        BY <2>1, LoadShowsCard DEF SInv, IInv, TypeOK
      <4>2. listState.rev = lists.rev /\ Apt(listState, lists)
        BY <1>2, <2>1, <3>2, <4>1 DEF SameRevision, SInv, SHolds, Deviate, Current
      <4>3. listDiff'.on = listState.on /\ listDiff'.off = listState.off
        BY <3>1, <3>2, <4>1 DEF Diffs
      <4> QED
        BY <4>2, <4>3 DEF Apt
    <3>3. CASE ~SameRevision
      BY <3>1, <3>3 DEF Empty, Apt
    <3> QED
      BY <3>2, <3>3
  <2> QED
    BY <1>1, <1>2, <2>1 DEF SInv, SHolds, Deviate, Apt
<1> QED
  BY <1>1, <1>2, <1>3, SamePhone DEF SHolds

(* A table without idle entries is what the list shows of it. *)
LEMMA AptIsDeviations ==
  ASSUME NEW doc \in Docs, NEW table \in Diffs, Apt(table, doc), table.rev = doc.rev
  PROVE  table = Deviations(doc, Effective(doc, table))
<1>1. table.on = Effective(doc, table) \ doc.checked /\ table.off = doc.checked \ Effective(doc, table)
  BY AptEntries
<1>2. table \in [rev : 0 .. MaxRev, on : SUBSET Items, off : SUBSET Items]
  BY DEF Diffs
<1>3. table = [rev |-> table.rev, on |-> table.on, off |-> table.off]
  BY <1>2
<1> QED
  BY <1>1, <1>3 DEF Deviations

LEMMA RemoveHolds == ASSUME SInv, RemoveOld PROVE SHolds'
<1>1. /\ UNCHANGED <<lists, hostAt, phoneVars, userVars, listDocBuf, listDiff, rows>>
      /\ lost' = lost /\ at = "write" /\ at' = "rename"
  BY DEF RemoveOld, hostVars
<1>2. /\ IInv /\ Deviate /\ rows.live /\ lists \in Docs /\ Table \in Diffs
      /\ rows.boxes \in SUBSET Items
  BY <1>1, TableType DEF SInv, SHolds, IInv, Holds, TypeOK, ShownFromMemory
<1>3. Table' = Deviations(rows.doc, rows.boxes)
  BY <1>1 DEF Table, Deviations
<1>4. CASE rows.doc = lists
  <2>1. ~lost => OnCard' = OnCard
    BY <1>2, <1>4, RemoveShows DEF IInv, Holds, ShownFromCard
  <2>2. ASSUME ~lost, Current PROVE Current' /\ Table' = Table
    <3>1. Apt(Table, lists) /\ Table.rev = lists.rev /\ rows.boxes = Effective(lists, Table)
      BY <1>2, <1>4, <2>2 DEF Deviate, Current, OnCard, IInv, Holds, ShownFromCard
    <3>2. Table = Deviations(lists, rows.boxes)
      BY <1>2, <3>1, AptIsDeviations
    <3> QED
      BY <1>2, <1>3, <1>4, <3>2, RemoveShows
  <2>3. Deviate'
    <3>1. Apt(Deviations(lists, rows.boxes), lists)
      BY DEF Apt, Deviations
    <3> QED
      BY <1>1, <1>2, <1>3, <1>4, <3>1 DEF Deviate, Apt
  <2> QED
    BY <1>1, <2>1, <2>2, <2>3, SamePhone DEF SHolds
<1>5. CASE rows.doc # lists
  <2>1. ~Current /\ ~Current' /\ OnCard' = OnCard
    BY <1>2, <1>5, RemoveShows
  <2>2. Deviate'
    BY <1>1, <1>2, <2>1 DEF Deviate, Apt
  <2> QED
    BY <1>1, <2>1, <2>2, SamePhone DEF SHolds
<1> QED
  BY <1>4, <1>5

LEMMA RenameFailsHolds == ASSUME SInv, RenameFails PROVE SHolds'
<1>1. /\ UNCHANGED <<lists, listState, hostAt, phoneVars, userVars, listDocBuf, rows>>
      /\ (lost => lost') /\ at = "rename" /\ at' = "top" /\ Undone
  BY DEF RenameFails, hostVars
<1>2. /\ IInv /\ Deviate /\ rows.live /\ listDocBuf \in Docs /\ listDiff \in Diffs
      /\ rows.doc = lists => lost'
      /\ rows.doc # lists => ~Current
  BY <1>1, RenameFailsStep DEF SInv, SHolds, IInv, Holds, TypeOK, ShownFromMemory, ShownFromCard
<1>3. ~Current' /\ OnCard' = lists.checked
  BY <1>1, <1>2, LoseShows
<1>4. PICK i \in Items : listDiff' = Toggled(listDiff, listDocBuf, i)
  BY <1>1, <1>2 DEF Undone, IInv, Holds, ShownFromMemory
<1>5. Apt(listDiff', listDocBuf)
  BY <1>1, <1>2, <1>4, ToggleApt DEF Deviate
<1>6. Deviate'
  BY <1>1, <1>3, <1>5 DEF Deviate, Apt
<1>7. ~lost' => ~Current /\ OnCard = lists.checked
  BY <1>2 DEF OnCard
<1> QED
  BY <1>1, <1>3, <1>6, <1>7, SamePhone DEF SHolds

LEMMA RenameHolds == ASSUME Apart, SInv, Rename PROVE SHolds'
<1>0. IInv /\ Deviate /\ rows.live /\ presses \in 0 .. 2 /\ Table \in Diffs
  BY TableType DEF Rename, SInv, SHolds, IInv, Holds, TypeOK, ShownFromMemory
<1>1. /\ UNCHANGED <<lists, lost, hostAt, listDocBuf, listDiff, link, base, walk, push, minted>>
      /\ at = "rename" /\ at' = "top"
      /\ told' = (told \/ (link /\ Entries(listDiff) # {}))
  BY DEF Rename, hostVars, Apart
<1>2. /\ rows'.live /\ Table' = listDiff /\ listDocBuf = rows.doc
      /\ rows.doc = lists => /\ Current /\ Current' /\ OnCard' = rows'.boxes /\ OnCard = rows.boxes
                             /\ rows'.boxes = Effective(lists, listDiff)
      /\ rows.doc # lists => ~Current /\ ~Current' /\ OnCard' = OnCard
  BY <1>0, RenameShows
<1>3. PICK i \in Items :
        pressed = {i} /\ (rows.doc = lists => OnCard' = Flipped(OnCard, i))
  BY <1>0, <1>1, <1>2, RenameShows DEF IInv, Holds, ShownFromMemory
<1>4. late' = IF walk.at = "none" /\ push = NoPush THEN {} ELSE late \cup {i}
  BY <1>3 DEF Rename
<1>5. presses' = IF walk.at # "walking" THEN 0 ELSE IF presses = 2 THEN 2 ELSE presses + 1
  BY DEF Rename
<1>6. Apt(listDiff, listDocBuf) /\ (Current => Apt(Table, lists))
  BY <1>0, <1>1 DEF Deviate
<1>7. Deviate'
  BY <1>1, <1>2, <1>6 DEF Deviate, Apt
<1>8. Known'
  BY <1>1 DEF SInv, SHolds, Known
<1>9. Untold'
  <2>1. Entries(listDiff) = {} => Effective(lists, listDiff) = lists.checked
    BY DEF Entries, Effective
  <2>2. rows.doc # lists => OnCard' = lists.checked
    BY <1>2 DEF OnCard
  <2> QED
    BY <1>1, <1>2, <2>1, <2>2 DEF Untold
<1>10. ASSUME hostAt = "idle", lists # NoDoc, ~lost, walk.rev = lists.rev
       PROVE  Current' /\ Walking' /\ Walked'
  <2>1. Current /\ Walking /\ Walked
    BY <1>10 DEF SInv, SHolds, WalkHolds
  <2>2. rows.doc = lists /\ Current' /\ Apt(listDiff, lists) /\ Apt(Table, lists)
    BY <1>2, <1>6, <2>1
  <2>3. Effective(lists, listDiff) = Flipped(Effective(lists, Table), i)
    BY <1>2, <1>3, <2>1, <2>2 DEF OnCard
  <2>4. /\ Entries(listDiff) = Flipped(Entries(Table), i)
        /\ \A j : j # i => /\ j \in listDiff.on <=> j \in Table.on
                           /\ j \in listDiff.off <=> j \in Table.off
    BY <2>2, <2>3, EntriesFlip
  <2>5. Total(listDiff) # Total(Table)
    BY <1>0, <2>4, EntriesFinite, FlipCounts DEF Total
  <2>6. Walking'
    <3>1. ASSUME walk.at = "walking", presses' = 1 PROVE walk.total # Total(listDiff)
      <4>1. presses = 0
        BY <1>0, <1>5, <3>1
      <4> QED
        BY <2>1, <2>5, <3>1, <4>1 DEF Walking
    <3>2. walk.at = "walking" => presses' # 0
      BY <1>0, <1>5
    <3>3. Total(Table)' = Total(listDiff)
      BY <1>1, <1>2 DEF Total, Entries
    <3> QED
      BY <1>1, <3>1, <3>2, <3>3 DEF Walking
  <2>7. Walked'
    <3>1. walk.at = "done" => late' = late \cup {i}
      BY <1>4
    <3> QED
      BY <1>1, <1>2, <2>1, <2>4, <3>1 DEF Walked
  <2> QED
    BY <2>2, <2>6, <2>7
<1>11. WalkHolds'
  BY <1>1, <1>10 DEF WalkHolds
<1>12. PushHolds'
  <2>1. push # NoPush => late' = late \cup {i}
    BY <1>4
  <2>2. \A j \in Items \ {i} : j \in OnCard' <=> j \in OnCard
    BY <1>2, <1>3 DEF Flipped
  <2>3. ASSUME hostAt = "idle", lists # NoDoc, ~lost, push # NoPush, push.from = lists.rev,
               ~push.blurred, NEW j \in Items \ (push.own \cup late \cup {i})
        PROVE  j \in OnCard' <=> j \in push.doc.checked
    BY <2>2, <2>3 DEF SInv, SHolds, PushHolds
  <2> QED
    BY <1>1, <2>1, <2>3 DEF PushHolds
<1> QED
  BY <1>7, <1>8, <1>9, <1>11, <1>12 DEF SHolds

LEMMA HostHolds == ASSUME Apart, SInv, HostTask PROVE SHolds'
<1>0. /\ IInv /\ minted # 0 /\ (lists # NoDoc => lists.rev = minted) /\ NoDoc.rev = 0
      /\ minted \in Nat /\ push.doc.rev \in Nat /\ base.rev \in Nat
      /\ base.rev # 0 /\ base.rev <= minted
  BY Initial, Numbers DEF SInv, SHolds, IInv, TypeOK, Docs, Holds, Numbered, Known
<1>1. CASE Store
  <2>1. /\ UNCHANGED <<rows, at, listDiff, listDocBuf, base, walk, minted>>
        /\ hostAt' = "rename" /\ lists' = NoDoc
    BY <1>1 DEF Store, mainVars, phoneVars
  <2>2. ~Current' /\ OnCard' = {} /\ NoDoc.checked = {}
    BY <1>0, <1>1, StoreStep DEF NoDoc
  <2>3. Deviate' BY <2>1, <2>2 DEF SInv, SHolds, Deviate, Apt
  <2>4. Known' BY <1>0, <2>1 DEF SInv, SHolds, Known
  <2>5. Untold' BY <2>1, <2>2 DEF Untold
  <2> QED
    BY <2>1, <2>3, <2>4, <2>5 DEF SHolds, WalkHolds, PushHolds
<1>2. CASE RenameDoc
  <2>1. /\ UNCHANGED <<rows, at, listDiff, listDocBuf, base, walk, push>>
        /\ hostAt = "rename" /\ hostAt' = "clear" /\ lists' = push.doc /\ minted' = push.doc.rev
    BY <1>2 DEF RenameDoc, mainVars
  <2>2. ~Current' /\ OnCard' = lists'.checked
    BY <1>0, <1>2, RenameDocStep
  <2>3. push # NoPush /\ push.doc.rev > minted
    BY <2>1 DEF SInv, IInv, Holds, LoadsApart, Numbered
  <2>4. Deviate' BY <2>1, <2>2 DEF SInv, SHolds, Deviate, Apt
  <2>5. Known' BY <1>0, <2>1, <2>3 DEF SInv, SHolds, Known
  <2>6. Untold' BY <2>1, <2>2 DEF Untold
  <2> QED
    BY <2>1, <2>4, <2>5, <2>6 DEF SHolds, WalkHolds, PushHolds
<1>3. CASE RenameDocFails
  <2>1. /\ UNCHANGED <<lists, rows, at, listDiff, listDocBuf, base, walk, minted, listState>>
        /\ lists = NoDoc /\ hostAt' = "idle" /\ push' = NoPush
    BY <1>3 DEF RenameDocFails, cardVars, mainVars, SInv, IInv, Holds, LoadsApart
  <2>2. ~Current'
    BY <2>1 DEF Current
  <2>3. Deviate' BY <2>1, <2>2 DEF SInv, SHolds, Deviate, Apt
  <2>4. Known' BY <2>1 DEF SInv, SHolds, Known
  <2>5. Untold' BY <2>2 DEF Untold, OnCard
  <2> QED
    BY <2>1, <2>3, <2>4, <2>5 DEF SHolds, WalkHolds, PushHolds
<1>4. CASE Clear
  <2>1. /\ UNCHANGED <<lists, rows, at, listDiff, listDocBuf, minted>> /\ hostAt = "clear"
        /\ base' \in {push.doc, base} /\ push' = NoPush /\ walk' = NoWalk /\ hostAt' = "idle"
    BY <1>4 DEF Clear, mainVars
  <2>2. push.doc = lists /\ lists # NoDoc /\ lists.rev = minted
    BY <1>0, <2>1 DEF SInv, SHolds, Known
  <2>3. walk'.rev = 0 /\ walk'.rev # lists.rev
    BY <1>0, <2>1, <2>2 DEF NoWalk
  <2>4. ~Current' /\ OnCard' = lists'.checked
    BY <1>0, <1>4, ClearStep DEF OnCard
  <2>5. Deviate' BY <2>1, <2>4 DEF SInv, SHolds, Deviate, Apt
  <2>6. Known' BY <1>0, <2>1, <2>2, <2>3 DEF SInv, SHolds, Known
  <2>7. Untold' BY <2>4 DEF Untold
  <2> QED
    BY <2>1, <2>3, <2>5, <2>6, <2>7 DEF SHolds, WalkHolds, PushHolds
<1>5. CASE Refuse
  <2>1. /\ UNCHANGED <<lists, listState, rows, at, listDiff, listDocBuf, link, told, base, walk,
                       hostAt, late, presses, minted, lost>>
        /\ push' = NoPush /\ hostAt = "idle"
    BY <1>5 DEF Refuse, cardVars, hostVars, mainVars, userVars
  <2>2. Table' = Table /\ (Current' <=> Current) /\ OnCard' = OnCard
    BY <2>1, TableStays, SameTable
  <2>3. Deviate' BY <2>1, <2>2 DEF SInv, SHolds, Deviate, Apt
  <2>4. Known' BY <2>1 DEF SInv, SHolds, Known
  <2>5. Untold' BY <2>1, <2>2 DEF SInv, SHolds, Untold
  <2>6. WalkHolds'
    BY <2>1, <2>2, WalkOfTable DEF SInv, SHolds, WalkHolds
  <2> QED
    BY <2>1, <2>3, <2>4, <2>5, <2>6 DEF SHolds, PushHolds
<1> QED
  BY <1>1, <1>2, <1>3, <1>4, <1>5 DEF HostTask

LEMMA LinkHolds ==
  ASSUME Apart, SInv, Connect \/ TakeScreen \/ LinkDrop \/ PowerLoss
  PROVE  SHolds'
<1>0. /\ IInv /\ NoWalk.rev = 0 /\ ~NoRows.live /\ minted # 0
      /\ lists # NoDoc => lists.rev # 0
  BY DEF SInv, IInv, Holds, Numbered, NoWalk, NoRows
<1>1. CASE Connect
  <2>1. /\ UNCHANGED <<lists, listState, rows, at, listDiff, listDocBuf, base, push,
                       hostAt, late, minted, lost>>
        /\ told' = (Entries(listState) # {})
        /\ walk' = [NoWalk EXCEPT !.blurred = at = "rename"]
    BY <1>1 DEF Connect, Readable, Apart, cardVars, hostVars, mainVars, userVars
  <2>2. Table' = Table /\ (Current' <=> Current) /\ OnCard' = OnCard
    BY <2>1, TableStays, SameTable
  <2>3. walk'.rev = 0 /\ walk'.at = "none" /\ (walk'.blurred <=> at = "rename")
    BY <2>1 DEF NoWalk
  <2>4. Deviate' BY <2>1, <2>2 DEF SInv, SHolds, Deviate, Apt
  <2>5. Known' BY <2>1, <2>3 DEF SInv, SHolds, Known
  <2>6. WalkHolds' BY <1>0, <2>1, <2>3 DEF WalkHolds
  <2>7. PushHolds' BY <2>1, <2>2 DEF SInv, SHolds, PushHolds
  <2>8. ASSUME ~told', ~walk'.blurred PROVE OnCard = lists.checked
    <3>1. Entries(Table) = {}
      BY <2>1, <2>3, <2>8 DEF Table
    <3> QED
      BY <3>1 DEF OnCard, Effective, Entries
  <2>9. Untold' BY <2>1, <2>2, <2>3, <2>8 DEF Untold
  <2> QED
    BY <2>4, <2>5, <2>6, <2>7, <2>9 DEF SHolds
<1>2. CASE TakeScreen
  <2>1. /\ UNCHANGED <<lists, listState, rows, at, listDiff, listDocBuf, base, walk, push,
                       hostAt, late, presses, minted, lost>>
        /\ told'
    BY <1>2 DEF TakeScreen, cardVars, hostVars, mainVars, userVars
  <2>2. Table' = Table /\ (Current' <=> Current) /\ OnCard' = OnCard
    BY <2>1, TableStays, SameTable
  <2>3. Deviate' BY <2>1, <2>2 DEF SInv, SHolds, Deviate, Apt
  <2>4. Known' BY <2>1 DEF SInv, SHolds, Known
  <2>5. Untold' BY <2>1 DEF Untold
  <2>6. WalkHolds'
    BY <2>1, <2>2, WalkOfTable DEF SInv, SHolds, WalkHolds
  <2>7. PushHolds' BY <2>1, <2>2 DEF SInv, SHolds, PushHolds
  <2> QED
    BY <2>3, <2>4, <2>5, <2>6, <2>7 DEF SHolds
<1>3. CASE LinkDrop \/ PowerLoss
  <2>1. /\ UNCHANGED <<lists, base, minted>> /\ ~link' /\ push' = NoPush /\ walk' = NoWalk
        /\ hostAt' = "idle"
    BY <1>3 DEF LinkDrop, PowerLoss, cardVars, hostVars, mainVars
  <2>2. Deviate'
    <3>1. CASE LinkDrop
      <4>1. UNCHANGED <<lists, listState, rows, at, listDiff, listDocBuf>>
        BY <3>1 DEF LinkDrop, cardVars, mainVars
      <4>2. Table' = Table /\ (Current' <=> Current)
        BY <4>1, TableStays, SameTable
      <4> QED
        BY <4>1, <4>2 DEF SInv, SHolds, Deviate, Apt
    <3>2. CASE PowerLoss
      <4>1. ~rows'.live /\ (at = "rename" => ~Current') /\ (at # "rename" => Table' = Table)
        BY <1>0, <3>2, PowerStep
      <4>2. Current' => Current /\ Table' = Table
        BY <2>1, <4>1, SameTable
      <4> QED
        BY <2>1, <4>1, <4>2 DEF SInv, SHolds, Deviate, Apt
    <3> QED
      BY <1>3, <3>1, <3>2
  <2>3. Known' BY <1>0, <2>1 DEF SInv, SHolds, Known
  <2>4. Untold' BY <2>1 DEF Untold
  <2>5. WalkHolds' /\ PushHolds'
    BY <1>0, <2>1 DEF WalkHolds, PushHolds
  <2> QED
    BY <2>2, <2>3, <2>4, <2>5 DEF SHolds
<1> QED
  BY <1>1, <1>2, <1>3

(* One more page, and the walk has that much more of the table, or all. *)
LEMMA PageAdds ==
  ASSUME NEW table \in Diffs, NEW w \in Walks, w.total = Total(table), Has(w, table)
  PROVE  LET w2 == Continued(table, w)
         IN  /\ Has(w2, table)
             /\ w2.at = "done" => w2.on = table.on /\ w2.off = table.off
<1> DEFINE C == w.on \cup w.off
           page == Page(table, w.pos)
           on2 == w.on \cup (page \cap table.on)
           off2 == w.off \cup (page \cap table.off)
           next == w.pos + Cardinality(page)
           w2 == Continued(table, w)
<1>1. /\ page \cap C = {} /\ Segment(C \cup page, table)
      /\ Cardinality(C \cup page) = Cardinality(C) + Cardinality(page)
  <2>1. Segment(C, table) /\ w.pos = Cardinality(C)
    BY DEF Has
  <2> HIDE DEF C
  <2> QED
    BY <2>1, PageJoins
<1>2. on2 \cup off2 = C \cup page
  BY DEF Page, Entries
<1>3. on2 \subseteq table.on /\ off2 \subseteq table.off
  BY DEF Has
<1>4. next = Cardinality(C \cup page)
  BY <1>1 DEF Has
<1>5. w2 = [w EXCEPT !.at  = IF page = {} \/ next = w.total THEN "done" ELSE "walking",
                     !.pos = next, !.on = on2, !.off = off2]
  BY DEF Continued
<1>6. /\ w2.at = IF page = {} \/ next = w.total THEN "done" ELSE "walking"
      /\ w2.pos = next /\ w2.on = on2 /\ w2.off = off2
  <2> HIDE DEF next, on2, off2, page, w2
  <2> QED
    BY <1>5 DEF Walks
<1>7. Has(w2, table)
  <2> HIDE DEF next, on2, off2, page, w2, C
  <2> QED
    BY <1>1, <1>2, <1>3, <1>4, <1>6 DEF Has
<1>8. ASSUME w2.at = "done" PROVE C \cup page = Entries(table)
  <2>1. CASE page = {}
    <3>1. Page(table, Cardinality(C)) = {}
      BY <2>1 DEF Has
    <3>2. C = Entries(table)
      BY <3>1, NothingAfter DEF Has
    <3> QED
      BY <2>1, <3>2
  <2>2. CASE next = w.total
    <3>1. Cardinality(C \cup page) = Total(table)
      BY <1>4, <2>2
    <3> QED
      BY <1>1, <3>1, NothingAfter
  <2> QED
    BY <1>6, <1>8, <2>1, <2>2
<1>9. ASSUME w2.at = "done" PROVE w2.on = table.on /\ w2.off = table.off
  <2>1. on2 \cup off2 = table.on \cup table.off /\ table.on \cap table.off = {}
    BY <1>2, <1>8, <1>9 DEF Entries, Diffs
  <2> HIDE DEF on2, off2
  <2> QED
    BY <1>3, <1>6, <2>1
<1> QED
  BY <1>7, <1>9

LEMMA PageIsOf ==
  ASSUME NEW table, NEW w \in Walks
  PROVE  LET w2 == Continued(table, w)
         IN  /\ w2.rev = w.rev /\ w2.total = w.total /\ w2.blurred = w.blurred
             /\ w2.at \in {"walking", "done"}
<1> DEFINE page == Page(table, w.pos)
           next == w.pos + Cardinality(page)
           at2 == IF page = {} \/ next = w.total THEN "done" ELSE "walking"
           on2 == w.on \cup (page \cap table.on)
           off2 == w.off \cup (page \cap table.off)
<1>1. Continued(table, w) = [w EXCEPT !.at = at2, !.pos = next, !.on = on2, !.off = off2]
  BY DEF Continued
<1>2. at2 \in {"walking", "done"}
  OBVIOUS
<1> HIDE DEF at2, next, on2, off2
<1> QED
  BY <1>1, <1>2 DEF Walks

(* A walk that has read nothing yet. *)
Fresh(table) == [NoWalk EXCEPT !.rev = table.rev, !.total = Total(table)]

LEMMA FreshWalk ==
  ASSUME NEW table \in Diffs
  PROVE  /\ Fresh(table) \in Walks /\ Fresh(table).rev = table.rev
         /\ Fresh(table).total = Total(table) /\ ~Fresh(table).blurred
         /\ Fresh(table).on = {} /\ Fresh(table).off = {} /\ Fresh(table).pos = 0
<1> DEFINE total == Total(table)
           rev == table.rev
           half == [NoWalk EXCEPT !.rev = rev]
           w == Fresh(table)
<1>1. NoWalk \in Walks /\ ~NoWalk.blurred /\ NoWalk.on = {} /\ NoWalk.off = {} /\ NoWalk.pos = 0
  BY BoundsAssumption DEF NoWalk, Walks
<1>2. total \in Nat /\ rev \in 0 .. MaxRev
  <2>1. total \in Nat BY EntriesFinite
  <2>2. rev \in 0 .. MaxRev BY DEF Diffs
  <2> QED BY <2>1, <2>2
<1>3. w = [half EXCEPT !.total = total]
  BY DEF Fresh
<1> HIDE DEF total, rev, w
<1>4. /\ half \in Walks /\ half.rev = rev /\ ~half.blurred
      /\ half.on = {} /\ half.off = {} /\ half.pos = 0
  BY <1>1, <1>2 DEF Walks
<1> HIDE DEF half
<1>5. /\ w \in Walks /\ w.rev = rev /\ w.total = total /\ ~w.blurred
      /\ w.on = {} /\ w.off = {} /\ w.pos = 0
  BY <1>2, <1>3, <1>4 DEF Walks
<1> QED
  BY <1>5 DEF total, rev, w

LEMMA FirstPageAdds ==
  ASSUME NEW table \in Diffs
  PROVE  LET w2 == FirstPage(table)
         IN  /\ w2.rev = table.rev /\ w2.total = Total(table) /\ ~w2.blurred
             /\ w2.at \in {"walking", "done"} /\ Has(w2, table)
             /\ w2.at = "done" => w2.on = table.on /\ w2.off = table.off
<1> DEFINE w == Fresh(table)
<1>1. /\ w \in Walks /\ w.rev = table.rev /\ w.total = Total(table) /\ ~w.blurred
      /\ w.on = {} /\ w.off = {} /\ w.pos = 0
  BY FreshWalk
<1> HIDE DEF w
<1>5. Has(w, table)
  <2>1. w.on \cup w.off = {}
    BY <1>1
  <2> QED
    BY <1>1, <2>1, FS_EmptySet DEF Has, Segment
<1>6. FirstPage(table) = Continued(table, w)
  BY DEF FirstPage, Fresh, w
<1> QED
  BY <1>1, <1>5, <1>6, PageAdds, PageIsOf

(* In the gap of its replacement a walk finds no table, and ends blurred.  *)
LEMMA NothingInGap ==
  NoDiff \in Diffs /\ \A w : Page(NoDiff, w) = {}
BY Initial DEF NoDiff, Empty, Page, Entries

LEMMA PageHolds == ASSUME Apart, SInv, GetPage PROVE SHolds'
<1>1. /\ UNCHANGED <<lists, listState, rows, at, listDiff, listDocBuf, base, link, push, hostAt,
                     minted, lost>>
      /\ late' = {} /\ presses' = 0 /\ push = NoPush /\ hostAt = "idle"
  BY DEF GetPage, cardVars, hostVars, mainVars
<1>2. /\ told' = (told /\ walk.at = "walking" /\ Gone(listState))
      /\ walk' = [NextWalk(listState) EXCEPT !.blurred = @ \/ at = "rename"]
  BY DEF GetPage, Readable, Apart
<1>3. /\ IInv /\ Known /\ WalkHolds /\ listState \in Diffs /\ walk \in Walks /\ presses \in 0 .. 2
      /\ lists # NoDoc => lists.rev # 0
  BY DEF SInv, SHolds, IInv, Holds, TypeOK, Walks, Numbered
<1>4. Table' = Table /\ (Current' <=> Current) /\ OnCard' = OnCard
  BY <1>1, TableStays, SameTable
<1>5. Deviate' /\ PushHolds'
  BY <1>1, <1>4 DEF SInv, SHolds, Deviate, Apt, PushHolds
<1> DEFINE w == NextWalk(listState)
<1>6. \/ w = NoWalk /\ walk.at = "walking" /\ Gone(listState)
      \/ w = FirstPage(listState)
      \/ /\ walk.at = "walking" /\ ~Gone(listState) /\ ~Moved(listState)
         /\ w = [Continued(listState, walk) EXCEPT !.blurred = @ \/ presses = 2]
  BY Zenon DEF NextWalk
<1>7. w \in Walks
  BY <1>3, NextWalkType DEF IInv, Readable
<1>8. /\ walk'.rev = w.rev /\ walk'.total = w.total /\ walk'.at = w.at
      /\ walk'.pos = w.pos /\ walk'.on = w.on /\ walk'.off = w.off
      /\ walk'.blurred <=> w.blurred \/ at = "rename"
  <2> DEFINE blurred == w.blurred \/ at = "rename"
  <2>1. walk' = [w EXCEPT !.blurred = blurred]
    BY <1>2
  <2> HIDE DEF w, blurred
  <2>2. /\ walk'.rev = w.rev /\ walk'.total = w.total /\ walk'.at = w.at
        /\ walk'.pos = w.pos /\ walk'.on = w.on /\ walk'.off = w.off
        /\ walk'.blurred = blurred
    BY <1>7, <2>1 DEF Walks
  <2> QED
    BY <2>2 DEF blurred
<1> HIDE DEF w
<1>9. CASE at = "rename"
  <2>1. listState = NoDiff /\ NoDiff.rev = 0
    BY <1>3, <1>9, Initial DEF IInv, Holds, ShownFromMemory
  <2>2. ASSUME NEW v \in Walks PROVE Continued(NoDiff, v).at = "done" /\ Continued(NoDiff, v).rev = v.rev
    <3> DEFINE next == v.pos + Cardinality(Page(NoDiff, v.pos))
               on2 == v.on \cup (Page(NoDiff, v.pos) \cap NoDiff.on)
               off2 == v.off \cup (Page(NoDiff, v.pos) \cap NoDiff.off)
    <3>1. Continued(NoDiff, v) = [v EXCEPT !.at = "done", !.pos = next, !.on = on2, !.off = off2]
      BY NothingInGap DEF Continued
    <3> HIDE DEF next, on2, off2
    <3> QED
      BY <3>1 DEF Walks
  <2>3. w.rev = 0 /\ w.at # "walking"
    <3>1. CASE w = NoWalk
      BY <3>1 DEF NoWalk
    <3>2. CASE w = FirstPage(listState)
      <4> DEFINE v == Fresh(NoDiff)
      <4>1. v \in Walks /\ v.rev = 0
        BY <2>1, NothingInGap, FreshWalk
      <4> HIDE DEF v
      <4>2. w = Continued(NoDiff, v)
        BY <2>1, <3>2 DEF FirstPage, Fresh, v
      <4> QED
        BY <2>2, <4>1, <4>2
    <3>3. CASE /\ ~Gone(listState)
               /\ w = [Continued(listState, walk) EXCEPT !.blurred = @ \/ presses = 2]
      <4> DEFINE v == Continued(NoDiff, walk)
      <4>1. v.at = "done" /\ v.rev = walk.rev /\ walk.rev = 0
        BY <1>3, <2>1, <2>2, <3>3 DEF Gone
      <4>2. w = [v EXCEPT !.blurred = v.blurred \/ presses = 2]
        BY <2>1, <3>3
      <4>3. v \in Walks
        BY <1>3, <2>1, ContinuedType DEF IInv, Walks, Readable
      <4> HIDE DEF v
      <4>4. w.at = v.at /\ w.rev = v.rev
        BY <4>2, <4>3 DEF Walks
      <4> QED
        BY <4>1, <4>4
    <3> QED
      BY <1>6, <3>1, <3>2, <3>3
  <2>4. Known' BY <1>1, <1>8, <2>3 DEF SInv, SHolds, Known
  <2>5. Untold' BY <1>8, <1>9, <2>3 DEF Untold
  <2>6. WalkHolds' BY <1>1, <1>3, <1>8, <2>3 DEF WalkHolds
  <2> QED
    BY <1>5, <2>4, <2>5, <2>6 DEF SHolds
<1>10. CASE at # "rename"
  <2>0. Table = listState /\ (walk'.blurred <=> w.blurred)
    BY <1>8, <1>10 DEF Table
  <2>1. ASSUME w = NoWalk, walk.at = "walking", Gone(listState) PROVE SHolds'
    <3>0. w.rev = 0 /\ w.at = "none"
      BY <2>1 DEF NoWalk
    <3>1. lists # NoDoc /\ ~lost => walk.rev # lists.rev
      BY <1>1, <1>3, <2>0, <2>1 DEF WalkHolds, Gone, Current
    <3>2. lists = NoDoc => OnCard = lists.checked
      BY DEF OnCard, Current
    <3>3. Known' BY <1>1, <1>8, <3>0 DEF SInv, SHolds, Known
    <3>4. Untold'
      BY <1>1, <1>2, <1>4, <2>1, <3>1, <3>2 DEF SInv, SHolds, Untold
    <3>5. WalkHolds' BY <1>1, <1>3, <1>8, <3>0 DEF WalkHolds
    <3> QED
      BY <1>5, <3>3, <3>4, <3>5 DEF SHolds
  <2>2. ASSUME w.rev = listState.rev, w.at \in {"walking", "done"}, w.total = Total(listState),
               lists # NoDoc /\ ~lost /\ w.rev = lists.rev /\ ~w.blurred =>
                 /\ Has(w, listState)
                 /\ w.at = "done" => w.on = listState.on /\ w.off = listState.off
        PROVE  SHolds'
    <3>1. Known' BY <1>1, <1>8, <2>2 DEF SInv, SHolds, Known
    <3>2. Untold'
      BY <1>1, <1>4, <1>8, <2>0, <2>2 DEF Untold, OnCard, Current
    <3>3. ASSUME lists # NoDoc, ~lost, w.rev = lists.rev PROVE Current' /\ Walking' /\ Walked'
      <4>1. Total(Table)' = Total(listState)
        BY <1>4, <2>0 DEF Total, Entries
      <4>2. Has(w, listState) => Has(walk, Table)'
        BY <1>4, <1>8, <2>0 DEF Has, Segment, Entries
      <4>3. Walking'
        BY <1>1, <1>8, <2>0, <2>2, <3>3, <4>1, <4>2 DEF Walking
      <4>4. Walked'
        BY <1>1, <1>4, <1>8, <2>0, <2>2, <3>3 DEF Walked
      <4>5. Current'
        BY <1>4, <2>0, <2>2, <3>3 DEF Current
      <4> QED
        BY <4>3, <4>4, <4>5
    <3>4. WalkHolds'
      BY <1>1, <1>8, <3>3 DEF WalkHolds
    <3> QED
      BY <1>5, <3>1, <3>2, <3>4 DEF SHolds
  <2>3. CASE w = FirstPage(listState)
    BY <1>3, <2>2, <2>3, FirstPageAdds
  <2>4. CASE /\ walk.at = "walking" /\ ~Gone(listState) /\ ~Moved(listState)
             /\ w = [Continued(listState, walk) EXCEPT !.blurred = @ \/ presses = 2]
    <3> DEFINE w2 == Continued(listState, walk)
    <3>1. walk.rev = listState.rev /\ walk.total = Total(listState)
      BY <2>4 DEF Gone, Moved
    <3>2. w2 \in Walks
      BY <1>3, ContinuedType DEF IInv, Readable, Walks
    <3>3. /\ w2.rev = listState.rev /\ w2.total = Total(listState) /\ w2.blurred = walk.blurred
          /\ w2.at \in {"walking", "done"}
      BY <1>3, <3>1, PageIsOf
    <3>4. w = [w2 EXCEPT !.blurred = w2.blurred \/ presses = 2]
      BY <2>4
    <3> HIDE DEF w2
    <3>5. /\ w.rev = listState.rev /\ w.total = Total(listState)
          /\ w.at = w2.at /\ w.pos = w2.pos /\ w.on = w2.on /\ w.off = w2.off
          /\ ~w.blurred => ~walk.blurred /\ presses # 2
      BY <3>2, <3>3, <3>4 DEF Walks
    <3>6. ASSUME lists # NoDoc, ~lost, w.rev = lists.rev, ~w.blurred
          PROVE  /\ Has(w2, listState)
                 /\ w2.at = "done" => w2.on = listState.on /\ w2.off = listState.off
      <4>1. walk.rev = lists.rev /\ ~walk.blurred /\ presses \in {0, 1}
        BY <1>3, <3>1, <3>5, <3>6
      <4>2. Has(walk, listState)
        BY <1>1, <1>3, <2>0, <2>4, <3>1, <3>6, <4>1 DEF WalkHolds, Walking
      <4> QED
        BY <1>3, <3>1, <4>2, PageAdds DEF w2
    <3>7. Has(w2, listState) => Has(w, listState)
      BY <3>5 DEF Has
    <3> QED
      BY <2>2, <3>3, <3>5, <3>6, <3>7
  <2> QED
    BY <1>6, <2>1, <2>3, <2>4
<1> QED
  BY <1>9, <1>10

LEMMA PushStepHolds ==
  ASSUME SInv, NEW own \in SUBSET Items, Push(own) PROVE SHolds'
<1> DEFINE checked == (Merged \ own) \cup (own \ Merged)
<1>0. IInv /\ SHolds
  BY DEF SInv
<1>1. /\ UNCHANGED <<lists, listState, hostAt, rows, at, listDiff, listDocBuf, late, presses,
                     minted, lost>>
      /\ UNCHANGED <<link, told, base, walk>>
      /\ link /\ ~told /\ walk.at # "walking" /\ push = NoPush
  BY DEF Push, cardVars, hostVars, mainVars, userVars
<1>2. push' = [doc |-> [rev |-> minted + 1, checked |-> checked], from |-> base.rev,
               own |-> own, blurred |-> walk.blurred]
  BY DEF Push
<1>3. /\ push'.from = base.rev /\ push'.own = own /\ (push'.blurred <=> walk.blurred)
      /\ push'.doc.checked = checked
  <2> HIDE DEF checked
  <2> QED
    BY <1>2
<1>4. hostAt = "idle"
  BY <1>0, <1>1 DEF IInv, Holds, TypeOK, LoadsApart, SHolds, Known
<1>5. Table' = Table /\ (Current' <=> Current) /\ OnCard' = OnCard
  BY <1>1, TableStays, SameTable
<1>6. Deviate' BY <1>0, <1>1, <1>5 DEF SHolds, Deviate, Apt
<1>7. Known' BY <1>0, <1>1, <1>4 DEF SHolds, Known
<1>8. Untold' BY <1>0, <1>1, <1>5 DEF SHolds, Untold
<1>9. WalkHolds' BY <1>0, <1>1, <1>5, WalkOfTable DEF SHolds, WalkHolds
<1>10. ASSUME lists # NoDoc, ~lost, base.rev = lists.rev, ~walk.blurred
       PROVE  \A i \in Items \ late : i \in OnCard <=> i \in Merged
  <2>1. base = lists
    BY <1>0, <1>10 DEF SHolds, Known
  <2>2. CASE walk.rev = lists.rev
    <3>1. walk.rev # 0
      BY <1>0, <1>10, <2>2 DEF IInv, Holds, Numbered
    <3>2. walk.at = "done"
      BY <1>0, <1>1, <3>1 DEF SHolds, Known, IInv, TypeOK
    <3>3. Current /\ Walked
      BY <1>0, <1>4, <1>10, <2>2 DEF SHolds, WalkHolds
    <3>4. Merged = Effective(lists, walk) /\ OnCard = Effective(lists, Table)
      BY <2>1, <2>2, <3>3 DEF Merged, OnCard
    <3> QED
      BY <1>10, <3>2, <3>3, <3>4 DEF Walked, Effective
  <2>3. CASE walk.rev # lists.rev
    <3>1. OnCard = lists.checked
      BY <1>0, <1>1, <1>10, <2>3 DEF SHolds, Untold
    <3> QED
      BY <2>1, <2>3, <3>1 DEF Merged
  <2> QED
    BY <2>2, <2>3
<1>11. ASSUME lists # NoDoc, ~lost, base.rev = lists.rev, ~walk.blurred
       PROVE  \A i \in Items \ (own \cup late) : i \in OnCard <=> i \in checked
  BY <1>10, <1>11
<1>12. PushHolds'
  <2> HIDE DEF checked
  <2> QED
    BY <1>1, <1>3, <1>5, <1>11 DEF PushHolds
<1> QED
  BY <1>6, <1>7, <1>8, <1>9, <1>12 DEF SHolds

LEMMA StepSInv == ASSUME Apart PROVE SInv /\ [Next]_vars => SInv'
<1> SUFFICES ASSUME SInv, [Next]_vars PROVE SInv'
  OBVIOUS
<1>1. IInv'
  BY StepIInv DEF SInv
<1>2. SHolds'
  <2>1. CASE UNCHANGED vars
    <3>1. UNCHANGED <<lists, listState, at, rows, listDiff, listDocBuf, lost, hostAt>>
          /\ UNCHANGED phoneVars /\ UNCHANGED userVars
      BY <2>1 DEF vars, cardVars, mainVars, hostVars
    <3>2. Table' = Table /\ (Current' <=> Current) /\ OnCard' = OnCard
      BY <3>1, TableStays, SameTable
    <3>3. Deviate'
      BY <3>1, <3>2 DEF SInv, SHolds, Deviate, Apt
    <3> QED
      BY <3>1, <3>2, <3>3, SamePhone DEF SHolds
  <2>2. CASE MainLoop \/ User
    BY <2>2, QuietHolds, LoadHolds, RemoveHolds, RenameHolds, RenameFailsHolds DEF MainLoop, User
  <2>3. CASE HostTask
    BY <2>3, HostHolds
  <2>4. ASSUME NEW own \in Edits, Push(own) PROVE SHolds'
    BY <2>4, PushStepHolds, EditsAssumption
  <2>5. CASE Phone
    BY <2>4, <2>5, LinkHolds, PageHolds DEF Phone
  <2>6. CASE PowerLoss
    BY <2>6, LinkHolds
  <2> QED
    BY <2>1, <2>2, <2>3, <2>5, <2>6 DEF Next
<1> QED
  BY <1>1, <1>2 DEF SInv

(* A phone that has pulled the check-offs of the document it knows, by     *)
(* pages and with presses in between, and pushes its merge, loses none: an *)
(* item the phone did not edit, and nobody pressed since the last page,    *)
(* keeps its box when END replaces the document.  For every list and page  *)
(* size, over drops of the link, refused pushes, failed writes and power   *)
(* cuts, as long as the loop never loads while the host task stores, the   *)
(* table reads, the phone neither reads nor connects in the gap of a       *)
(* table's replacement, and no replacement has lost the table.             *)
THEOREM SyncLosesNothing == ASSUME Apart PROVE Spec => SyncKeepsCheckOffs
<1> DEFINE Kept == \A i \in Items \ (push.own \cup late) : i \in OnCard <=> i \in push.doc.checked
<1>1. ASSUME SInv, [Next]_vars, lists # NoDoc, lists' # lists, push.from = lists.rev,
             ~push.blurred, ~lost
      PROVE  Kept
  <2>1. ~RenameDoc
    BY <1>1, RenameDocStep DEF SInv
  <2>2. Store
    <3>1. CASE UNCHANGED vars
      BY <1>1, <3>1 DEF vars, cardVars
    <3>2. CASE MainLoop \/ User
      BY <1>1, <3>2 DEF MainLoop, User, Drain, FinishLoad, MessageOver, NoPress, RemoveOld, Rename,
         WriteFails, RenameFails, EnterList, LeaveList, Toggle, TooManyEdits, cardVars
    <3>3. CASE RenameDocFails \/ Clear \/ Refuse \/ Phone \/ PowerLoss
      BY <1>1, <3>3, PhoneStep, RenameDocFailsStep, ClearStep, PowerStep DEF SInv
    <3> QED
      BY <1>1, <2>1, <3>1, <3>2, <3>3 DEF Next, HostTask
  <2>3. hostAt = "idle" /\ push # NoPush
    BY <2>2 DEF Store
  <2> QED
    BY <1>1, <2>3 DEF SInv, SHolds, PushHolds
<1>2. SInv /\ [Next]_vars
        => [lists # NoDoc /\ lists' # lists /\ push.from = lists.rev /\ ~push.blurred /\ ~lost
              => Kept]_vars
  BY <1>1
<1>3. Init => SInv
  BY InitSInv
<1>4. SInv /\ [Next]_vars => SInv'
  BY StepSInv
<1> HIDE DEF SInv, Next, Init, vars
<1> QED
  BY <1>2, <1>3, <1>4, PTL DEF Spec, SyncKeepsCheckOffs
=============================================================================
