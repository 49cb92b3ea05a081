------------------------- MODULE SessionLayerProofs -------------------------
(***************************************************************************)
(* TLAPS proofs about SessionLayer, for every set of apps and number of    *)
(* slots: its type invariant under every race; one session per peer; no    *)
(* session a ghost; the apps know who holds the screen; the activity draws *)
(* for the holder, keeps awake under it and shows nobody else's page; and  *)
(* Confirm accepts the app it names.  Each names the races it excludes.    *)
(***************************************************************************)
EXTENDS SessionLayer, FiniteSetTheorems, WellFoundedInduction, TLAPS

(* The slot search finds the first of the slots it looks for.              *)
LEMMA FirstExists ==
  ASSUME NEW S, S \subseteq Slots, S # {}
  PROVE  FirstOf(S) \in S
<1> DEFINE Below == {ss \in Nat \X Nat : ss[1] < ss[2]}
<1>1. S \subseteq Nat
  BY SlotsAssumption DEF Slots
<1>2. IsWellFoundedOn(Below, Nat)
  BY NatLessThanWellFounded DEF OpToRel
<1>3. \A t, s \in Nat : t < s => <<t, s>> \in Below
  OBVIOUS
<1> HIDE DEF Below
<1>4. PICK s \in S : \A t \in S : ~ (<<t, s>> \in Below)
  BY <1>1, <1>2, WFMin, Zenon
<1>5. ASSUME NEW t \in S PROVE s <= t
  <2>1. t \in Nat /\ s \in Nat
    BY <1>1
  <2>2. ~ (t < s)
    BY <1>3, <1>4, <2>1, Zenon
  <2> QED
    BY <2>1, <2>2
<1> QED
  BY <1>5, Zenon DEF FirstOf

LEMMA SlotFound ==
  ASSUME NEW p
  PROVE  /\ SessionFor(p) \in 0 .. MaxSessions
         /\ SessionFor(p) # 0 => /\ SessionFor(p) \in Slots
                                 /\ SlotsOf(p) # {} => SessionFor(p) \in SlotsOf(p)
                                 /\ SlotsOf(p) = {} => sessions[SessionFor(p)] = NoPeer
<1>1. SlotsOf(p) \subseteq Slots /\ FreeSlots \subseteq Slots
  BY DEF SlotsOf, FreeSlots
<1>2. Slots \subseteq 0 .. MaxSessions /\ 0 \in 0 .. MaxSessions
  BY SlotsAssumption DEF Slots
<1>3. SlotsOf(p) # {} => FirstOf(SlotsOf(p)) \in SlotsOf(p)
  BY <1>1, FirstExists
<1>4. FreeSlots # {} => FirstOf(FreeSlots) \in FreeSlots
  BY <1>1, FirstExists
<1>5. \A s \in FreeSlots : sessions[s] = NoPeer
  BY DEF FreeSlots
<1> QED
  BY <1>1, <1>2, <1>3, <1>4, <1>5, Zenon DEF SessionFor

----------------------------------------------------------------------------
(* Types *)

(* What the loop does to the page keeps its type. *)
LEMMA UiKept ==
  ASSUME TypeOK, NEW u \in Uis
  PROVE  /\ \A stored \in BOOLEAN : GalleryFallback(u, stored) \in Uis
         /\ LinkLost(u) \in Uis
         /\ ShowPrompt(u) \in Uis
         /\ ShowForeground(u) \in Uis
         /\ \A decodes \in BOOLEAN : ShowImage(u, decodes) \in Uis
         /\ ShowText(u) \in Uis
<1> USE DEF Uis, MaybePeer, Screens
<1>1. \A stored \in BOOLEAN : GalleryFallback(u, stored) \in Uis
  BY DEF GalleryFallback
<1>2. LinkLost(u) \in Uis
  BY DEF LinkLost
<1>3. ShowPrompt(u) \in Uis
  BY DEF ShowPrompt, TypeOK
<1>4. ShowForeground(u) \in Uis
  BY DEF ShowForeground, TypeOK, LetGo, TakeOver
<1>5. \A decodes \in BOOLEAN : ShowImage(u, decodes) \in Uis
  BY DEF ShowImage, TypeOK
<1>6. ShowText(u) \in Uis
  BY DEF ShowText, TypeOK
<1> QED
  BY <1>1, <1>2, <1>3, <1>4, <1>5, <1>6

(* resolvePairing() is about a peer, and not only about a peer key. *)
TypeInv == TypeOK /\ (loopAt \in Resolving => accepted \in Peers)

LEMMA Blank ==
  /\ IdleUi \in Uis /\ NoPeer \in MaybePeer /\ Nothing \in MaybePeer \cup {Nothing}
  /\ 0 \in 0 .. MaxSessions /\ "link" \in {"link", "drain", "input"} \cup Resolving
  /\ "link" \notin Resolving
  /\ [s \in Slots |-> NoPeer] \in [Slots -> MaybePeer]
  /\ [p \in Peers |-> 0] \in [Peers -> 0 .. MaxSessions]
<1>1. IdleUi \in Uis
  BY DEF IdleUi, Uis, Screens, MaybePeer
<1>2. NoPeer \in MaybePeer /\ 0 \in 0 .. MaxSessions
  BY SlotsAssumption DEF MaybePeer
<1> QED
  BY <1>1, <1>2 DEF Resolving

LEMMA TypeInit == Init => TypeInv
BY Blank DEF Init, TypeInv, TypeOK

LEMMA TypeRestart == TypeInv /\ Restart => TypeInv'
BY Blank DEF Restart, PoweredOn, TypeInv, TypeOK

LEMMA TypeLink == TypeInv /\ (Connect \/ Disconnect) => TypeInv'
<1>1. TypeInv /\ Connect => TypeInv'
  BY DEF Connect, TypeInv, TypeOK, appVars, handVars, loopVars
<1>2. TypeInv /\ Disconnect => TypeInv'
  BY Blank DEF Disconnect, SessionsAfterDrop, TypeInv, TypeOK, handVars
<1> QED
  BY <1>1, <1>2

(* The steps of one app. *)
LEMMA TypeApp ==
  ASSUME TypeInv, NEW p \in Peers, App(p)
  PROVE  TypeInv'
<1> USE DEF TypeInv, TypeOK, MaybePeer
<1>1. Slots \subseteq 0 .. MaxSessions /\ 0 \in 0 .. MaxSessions
  BY SlotsAssumption DEF Slots
<1>2. \A s \in 0 .. MaxSessions : s # 0 => s \in Slots
  BY SlotsAssumption DEF Slots
<1>3. \A s \in 0 .. MaxSessions : Holder(s) \in MaybePeer /\ Listeners(s) \subseteq Peers
  BY <1>2 DEF Holder, Listeners
<1>4. SessionFor(p) \in 0 .. MaxSessions
  BY SlotFound
<1>5. CASE HelloKnown(p)
  BY <1>4, <1>5, ZenonT(30) DEF HelloKnown, appVars, handVars, loopVars
<1>6. CASE HelloUnknown(p)
  BY <1>6 DEF HelloUnknown, appVars, handVars, loopVars
<1>7. CASE Bye(p)
  BY <1>1, <1>3, <1>7, ZenonT(30) DEF Bye, appVars, handVars, loopVars
<1>8. CASE Acquire(p)
  BY <1>2, <1>3, <1>8 DEF Acquire, Announce, appVars, handVars, loopVars
<1>9. CASE Release(p)
  BY <1>1, <1>3, <1>9 DEF Release, appVars, handVars, loopVars
<1>10. CASE PushText(p)
  BY <1>3, <1>10 DEF PushText, hostVars, appVars, loopVars
<1>11. CASE PushImage(p)
  BY <1>3, <1>11 DEF PushImage, hostVars, appVars, loopVars
<1>12. CASE Relaunch(p)
  BY <1>1, <1>12 DEF Relaunch, hostVars, handVars, loopVars
<1> QED
  BY <1>5, <1>6, <1>7, <1>8, <1>9, <1>10, <1>11, <1>12 DEF App

(* The steps of the main loop, resolvePairing() and the buttons included.  *)
LEMMA TypeLoop ==
  ASSUME TypeInv, Loop \/ Buttons
  PROVE  TypeInv'
<1> USE DEF TypeInv, TypeOK, Resolving
<1>1. 0 \in 0 .. MaxSessions /\ NoPeer \in MaybePeer /\ Peers \subseteq MaybePeer
  BY SlotsAssumption DEF MaybePeer
<1>2. SessionFor(accepted) \in 0 .. MaxSessions
  BY SlotFound
<1>3. Refused \in Uis
  BY DEF Refused, Uis, MaybePeer, Screens
<1>4. CASE NoticeLink
  <2>1. ui' \in Uis
    <3>1. \A stored \in BOOLEAN : LinkLost(GalleryFallback(ui, stored)) \in Uis
      BY UiKept
    <3> QED
      BY <1>4, <3>1 DEF NoticeLink
  <2> QED
    BY <1>1, <1>4, <2>1 DEF NoticeLink, hostVars, appVars
<1>5. CASE Drain
  <2>1. ui' \in Uis
    <3>1. \A decodes \in BOOLEAN :
            ShowText(ShowImage(ShowForeground(ShowPrompt(ui)), decodes)) \in Uis
      BY UiKept
    <3> QED
      BY <1>5, <3>1 DEF Drain
  <2> QED
    BY <1>1, <1>5, <2>1 DEF Drain, hostVars, appVars
<1>6. CASE PromptTimeout
  BY <1>1, <1>3, <1>6 DEF PromptTimeout, RejectPending, appVars, handVars
<1>7. CASE EndPass
  <2>1. ui' \in Uis
    BY <1>7 DEF EndPass, Uis, MaybePeer, Screens
  <2> QED
    BY <1>7, <2>1 DEF EndPass, hostVars, appVars, handVars
<1>8. CASE Enrol
  BY <1>1, <1>8 DEF Enrol, hostVars, appVars, handVars
<1>9. CASE Admit
  BY <1>1, <1>2, <1>9 DEF Admit, hostVars, appVars, handVars
<1>10. CASE Fill
  BY <1>10 DEF Fill, appVars, handVars
<1>11. CASE Answer
  <2>1. told' \in [Peers -> 0 .. MaxSessions]
    BY <1>11 DEF Answer
  <2>2. keyed' \subseteq Peers
    BY <1>11 DEF Answer
  <2> QED
    BY <1>1, <1>11, <2>1, <2>2 DEF Answer, hostVars, handVars
<1>12. CASE PressBack
  BY <1>1, <1>3, <1>12 DEF PressBack, RejectPending, appVars, handVars
<1>13. CASE PressConfirm
  <2>1. ui' \in Uis
    BY <1>13 DEF PressConfirm, Uis, MaybePeer, Screens
  <2>2. pending # NoPeer => pending \in Peers
    BY DEF MaybePeer
  <2>3. loopAt' \in Resolving => accepted' \in Peers
    BY <1>13, <2>2 DEF PressConfirm
  <2> QED
    BY <1>1, <1>13, <2>1, <2>3 DEF PressConfirm, appVars, handVars
<1> QED
  BY <1>4, <1>5, <1>6, <1>7, <1>8, <1>9, <1>10, <1>11, <1>12, <1>13 DEF Loop, Resolve, Buttons

LEMMA TypeNext == TypeInv /\ [Next]_vars => TypeInv'
<1> SUFFICES ASSUME TypeInv, [Next]_vars PROVE TypeInv'
  OBVIOUS
<1>1. CASE UNCHANGED vars
  BY <1>1 DEF vars, hostVars, appVars, handVars, loopVars, TypeInv, TypeOK
<1>2. CASE Next
  BY <1>2, TypeRestart, TypeLink, TypeApp, TypeLoop DEF Next
<1> QED
  BY <1>1, <1>2

LEMMA Typed == Spec => []TypeInv
BY TypeInit, TypeNext, PTL DEF Spec

(* Every reachable state is well typed, whatever races are admitted.       *)
THEOREM SessionTyping == Spec => []TypeOK
<1>1. TypeInv => TypeOK
  BY DEF TypeInv
<1> QED
  BY Typed, <1>1, PTL

----------------------------------------------------------------------------
(* One session per peer *)

Unshared == \A s, t \in Slots : sessions[s] = sessions[t] /\ sessions[s] # NoPeer => s = t

(* The slot that resolvePairing() is about to fill is free, or already its *)
(* peer's, and no other slot is.                                           *)
SlotReserved ==
  loopAt = "fill" => /\ slot \in Slots
                     /\ \A t \in Slots : sessions[t] = accepted => t = slot

SingleInv == TypeInv /\ Unshared /\ SlotReserved

(* Giving p the slot SessionFor() finds keeps the slots apart.             *)
LEMMA AdmittedOnce ==
  ASSUME TypeInv, Unshared, NEW p \in Peers, SessionFor(p) # 0
  PROVE  /\ SessionFor(p) \in Slots
         /\ \A t \in Slots : sessions[t] = p => t = SessionFor(p)
<1>1. SessionFor(p) \in Slots
  BY SlotFound
<1>2. ASSUME NEW t \in Slots, sessions[t] = p PROVE t = SessionFor(p)
  <2>1. t \in SlotsOf(p)
    BY <1>2 DEF SlotsOf
  <2>2. SessionFor(p) \in SlotsOf(p)
    BY <2>1, SlotFound
  <2>3. p # NoPeer
    BY PeersAssumption
  <2> QED
    BY <1>2, <2>2, <2>3 DEF SlotsOf, Unshared
<1> QED
  BY <1>1, <1>2

LEMMA FilledOnce ==
  ASSUME TypeInv, Unshared, NEW p \in Peers, NEW s \in Slots,
         \A t \in Slots : sessions[t] = p => t = s,
         sessions' = [sessions EXCEPT ![s] = p]
  PROVE  Unshared'
<1>1. \A t \in Slots : sessions'[t] = IF t = s THEN p ELSE sessions[t]
  BY DEF TypeInv, TypeOK
<1> QED
  BY <1>1 DEF Unshared

LEMMA SingleNext ==
  ASSUME "slot" \notin Races, SingleInv, [Next]_vars
  PROVE  SingleInv'
<1>1. TypeInv'
  BY TypeNext DEF SingleInv
<1>2. CASE UNCHANGED <<sessions, loopAt, slot, accepted>>
  BY <1>1, <1>2 DEF SingleInv, Unshared, SlotReserved
<1>3. CASE UNCHANGED <<sessions>> /\ loopAt' # "fill"
  BY <1>1, <1>3 DEF SingleInv, Unshared, SlotReserved
<1>4. CASE sessions' = [s \in Slots |-> NoPeer] /\ (loopAt' = "fill" => UNCHANGED <<loopAt, slot, accepted>>)
  <2>1. loopAt' = "fill" => accepted' # NoPeer
    BY <1>1, PeersAssumption DEF TypeInv, Resolving
  <2> QED
    BY <1>1, <1>4, <2>1 DEF SingleInv, Unshared, SlotReserved
<1>5. ASSUME NEW p \in Peers, HelloKnown(p) PROVE SingleInv'
  <2>1. loopAt # "fill" /\ loopAt' = loopAt
    BY <1>5 DEF HelloKnown, loopVars
  <2>2. Unshared'
    BY <1>5, AdmittedOnce, FilledOnce DEF HelloKnown, SingleInv
  <2> QED
    BY <1>1, <2>1, <2>2 DEF SingleInv, SlotReserved
<1>6. ASSUME NEW p \in Peers, Bye(p) PROVE SingleInv'
  <2>1. \A t \in Slots : sessions'[t] \in {sessions[t], NoPeer}
    BY <1>6 DEF Bye, SingleInv, TypeInv, TypeOK
  <2>2. UNCHANGED <<loopAt, slot, accepted>>
    BY <1>6 DEF Bye, loopVars
  <2>3. Unshared'
    BY <2>1 DEF SingleInv, Unshared
  <2>4. loopAt = "fill" => accepted # NoPeer
    BY PeersAssumption DEF SingleInv, TypeInv, Resolving
  <2>5. SlotReserved'
    BY <2>1, <2>2, <2>4 DEF SingleInv, SlotReserved
  <2> QED
    BY <1>1, <2>3, <2>5 DEF SingleInv
<1>7. CASE Admit
  <2>1. accepted \in Peers
    BY <1>7 DEF Admit, SingleInv, TypeInv, Resolving
  <2>2. UNCHANGED sessions
    BY <1>7 DEF Admit, hostVars
  <2>3. loopAt' = "fill" => slot' = SessionFor(accepted) /\ slot' # 0 /\ accepted' = accepted
    BY <1>7 DEF Admit
  <2> QED
    BY <1>1, <2>1, <2>2, <2>3, AdmittedOnce DEF SingleInv, Unshared, SlotReserved
<1>8. CASE Fill
  <2>1. accepted \in Peers /\ slot \in Slots /\ loopAt' # "fill"
    BY <1>8 DEF Fill, SingleInv, SlotReserved, TypeInv, Resolving
  <2>2. Unshared'
    BY <1>8, <2>1, FilledOnce DEF Fill, SingleInv, SlotReserved
  <2> QED
    BY <1>1, <2>1, <2>2 DEF SingleInv, SlotReserved
<1>9. CASE Next
  <2>1. Restart => SingleInv'
    BY <1>4 DEF Restart, PoweredOn
  <2>2. Connect => SingleInv'
    BY <1>2 DEF Connect, loopVars
  <2>3. Disconnect => SingleInv'
    BY <1>4 DEF Disconnect, SessionsAfterDrop
  <2>4. ASSUME NEW p \in Peers, App(p) PROVE SingleInv'
    BY <1>2, <1>5, <1>6, <2>4
    DEF App, HelloUnknown, Acquire, Release, PushText, PushImage, Relaunch, hostVars, loopVars
  <2>5. Buttons => SingleInv'
    BY <1>3 DEF Buttons, PressBack, PressConfirm
  <2>6. NoticeLink \/ Drain \/ PromptTimeout \/ EndPass \/ Enrol \/ Answer => SingleInv'
    BY <1>3 DEF NoticeLink, Drain, PromptTimeout, EndPass, Enrol, Answer, hostVars
  <2> QED
    BY <1>7, <1>8, <1>9, <2>1, <2>2, <2>3, <2>4, <2>5, <2>6 DEF Next, Loop, Resolve
<1> QED
  BY <1>2, <1>9 DEF vars, hostVars, loopVars

LEMMA SingleMeansOne == SingleInv => OneSessionPerPeer
<1> SUFFICES ASSUME SingleInv, NEW p \in Peers PROVE Cardinality(SlotsOf(p)) <= 1
  BY DEF OneSessionPerPeer
<1>1. CASE SlotsOf(p) = {}
  BY <1>1, FS_EmptySet
<1>2. CASE SlotsOf(p) # {}
  <2>1. PICK s \in Slots : s \in SlotsOf(p)
    BY <1>2 DEF SlotsOf
  <2>2. SlotsOf(p) = {s}
    BY <2>1, PeersAssumption DEF SlotsOf, SingleInv, Unshared
  <2> QED
    BY <2>2, FS_Singleton
<1> QED
  BY <1>1, <1>2

(* One install never holds two sessions, whichever of the two tasks admits *)
(* it, as long as the two do not allocate at the same instant: through     *)
(* dropped links, relaunched apps, late prompts and restarts.              *)
THEOREM OneSessionEach ==
  ASSUME "slot" \notin Races
  PROVE  Spec => []OneSessionPerPeer
<1>1. Init => SingleInv
  BY TypeInit DEF Init, SingleInv, Unshared, SlotReserved
<1>2. SingleInv /\ [Next]_vars => SingleInv'
  BY SingleNext
<1> QED
  BY <1>1, <1>2, SingleMeansOne, PTL DEF Spec

----------------------------------------------------------------------------
(* No ghosts, and a screen everybody knows the holder of *)

(* An app told of a session has it. *)
TellsTruth == \A p \in Peers : told[p] # 0 => sessions[told[p]] = p

(* A session is its app's, or the one whose HELLO_OK is being sent. *)
Attended ==
  \A s \in Slots : sessions[s] # NoPeer =>
    /\ linkUp
    /\ told[sessions[s]] = s \/ (loopAt = "answer" /\ accepted = sessions[s] /\ slot = s)

Foreground ==
  /\ foreground # 0 => sessions[foreground] # NoPeer /\ told[sessions[foreground]] = foreground
  /\ hasScreen = IF foreground = 0 THEN {} ELSE Listeners(foreground)

(* The peer resolvePairing() admits is on the link, and has no session.    *)
Admitting ==
  /\ loopAt \in Resolving => /\ linkUp /\ heard /\ told[accepted] = 0
                             /\ accepted # pending /\ accepted \notin keyed
  /\ loopAt = "fill" => slot \in Slots /\ sessions[slot] = NoPeer
  /\ loopAt = "answer" => slot \in Slots /\ sessions[slot] = accepted

(* The peer the prompt is for is on the link, and has no session.          *)
Asking == pending # NoPeer => linkUp /\ told[pending] = 0 /\ pending \notin keyed

OrderlyInv == TypeInv /\ TellsTruth /\ Attended /\ Foreground /\ Admitting /\ Asking

Orderly == Races \cap {"slot", "resolve", "relaunch"} = {}

LEMMA OrderlyInit == Init => OrderlyInv
<1> SUFFICES ASSUME Init PROVE OrderlyInv
  OBVIOUS
<1>1. TypeInv
  BY TypeInit
<1>2. TellsTruth /\ Attended /\ Foreground /\ Admitting /\ Asking
  BY DEF Init, TellsTruth, Attended, Foreground, Admitting, Asking, Resolving
<1> QED
  BY <1>1, <1>2 DEF OrderlyInv

LEMMA OrderlyRestart == OrderlyInv /\ Restart => OrderlyInv'
<1> SUFFICES ASSUME OrderlyInv, Restart PROVE OrderlyInv'
  OBVIOUS
<1>1. TypeInv'
  BY TypeRestart DEF OrderlyInv
<1>2. (TellsTruth /\ Attended /\ Foreground /\ Admitting /\ Asking)'
  BY DEF Restart, PoweredOn, TellsTruth, Attended, Foreground, Admitting, Asking, Resolving
<1> QED
  BY <1>1, <1>2 DEF OrderlyInv

LEMMA OrderlyLink ==
  ASSUME Orderly, OrderlyInv, Connect \/ Disconnect
  PROVE  OrderlyInv'
<1>1. TypeInv'
  BY TypeLink DEF OrderlyInv
<1>2. CASE Connect
  BY <1>1, <1>2 DEF Connect, OrderlyInv, TellsTruth, Attended, Foreground, Admitting, Asking,
                    Listeners, appVars, loopVars
<1>3. CASE Disconnect
  <2>1. loopAt \notin Resolving /\ loopAt' = loopAt
    BY <1>3 DEF Disconnect, Orderly
  <2>2. (TellsTruth /\ Attended /\ Foreground /\ Asking)'
    BY <1>3 DEF Disconnect, SessionsAfterDrop, TellsTruth, Attended, Foreground, Asking
  <2>3. Admitting'
    BY <2>1 DEF Admitting, Resolving
  <2> QED
    BY <1>1, <2>2, <2>3 DEF OrderlyInv
<1> QED
  BY <1>2, <1>3

(* An app without a session gets a slot that was free. *)
LEMMA FreshSlot ==
  ASSUME OrderlyInv, NEW p \in Peers, told[p] = 0, loopAt # "answer" \/ accepted # p,
         SessionFor(p) # 0
  PROVE  SessionFor(p) \in Slots /\ sessions[SessionFor(p)] = NoPeer
<1>1. SlotsOf(p) = {}
  BY PeersAssumption, SlotsAssumption DEF SlotsOf, OrderlyInv, Attended, Slots
<1> QED
  BY <1>1, SlotFound

(* A step that leaves the sessions, the apps and the requests alone.       *)
LEMMA OrderlyElsewhere ==
  ASSUME OrderlyInv, TypeInv',
         UNCHANGED <<linkUp, sessions, foreground, pending, keyed, told, hasScreen,
                     loopAt, accepted, slot, heard>>
  PROVE  OrderlyInv'
BY DEF OrderlyInv, TellsTruth, Attended, Foreground, Admitting, Asking, Listeners

LEMMA OrderlyHello ==
  ASSUME Orderly, OrderlyInv, NEW p \in Peers, HelloKnown(p), TypeInv'
  PROVE  OrderlyInv'
<1> DEFINE f == SessionFor(p)
<1>1. loopAt # "fill" /\ p \in keyed /\ told[p] = 0 /\ linkUp
  BY DEF HelloKnown, Orderly
<1>2. loopAt \in Resolving => accepted # p
  BY <1>1 DEF OrderlyInv, Admitting
<1>3. f \in Slots /\ f # 0 /\ sessions[f] = NoPeer
  BY <1>1, <1>2, FreshSlot DEF HelloKnown, Resolving
<1> HIDE DEF f
<1>4. /\ sessions' = [sessions EXCEPT ![f] = p]
      /\ told' = [told EXCEPT ![p] = f]
      /\ UNCHANGED <<linkUp, foreground, pending, keyed, hasScreen, loopAt, accepted, slot, heard>>
  BY DEF HelloKnown, loopVars, f
<1>5. /\ \A s \in Slots : sessions'[s] = IF s = f THEN p ELSE sessions[s]
      /\ \A q \in Peers : told'[q] = IF q = p THEN f ELSE told[q]
  BY <1>4 DEF OrderlyInv, TypeInv, TypeOK
<1>6. p # NoPeer /\ \A s \in Slots : sessions[s] # NoPeer => sessions[s] \in Peers
  BY PeersAssumption DEF OrderlyInv, TypeInv, TypeOK, MaybePeer
<1>7. TellsTruth'
  <2>1. \A q \in Peers : told[q] # 0 => told[q] \in Slots
    BY SlotsAssumption DEF OrderlyInv, TypeInv, TypeOK, Slots
  <2>2. \A q \in Peers : told[q] # 0 => told[q] # f
    BY <1>3, PeersAssumption DEF OrderlyInv, TellsTruth
  <2> QED
    BY <1>3, <1>4, <1>5, <2>1, <2>2 DEF OrderlyInv, TellsTruth
<1>8. Attended'
  <2>1. \A s \in Slots : sessions[s] # p
    BY <1>1, <1>2, <1>6, SlotsAssumption DEF OrderlyInv, Attended, Resolving, Slots
  <2> QED
    BY <1>1, <1>3, <1>4, <1>5, <1>6, <2>1 DEF OrderlyInv, Attended
<1>9. Foreground'
  <2>1. foreground # 0 => foreground \in Slots /\ foreground # f
    BY <1>3, SlotsAssumption DEF OrderlyInv, TypeInv, TypeOK, Slots, Foreground
  <2>2. foreground # 0 => Listeners(foreground)' = Listeners(foreground)
    BY <1>1, <1>4, <1>5, <2>1 DEF Listeners
  <2> QED
    BY <1>1, <1>4, <1>5, <1>6, <2>1, <2>2 DEF OrderlyInv, Foreground
<1>10. Admitting'
  <2>1. loopAt \in Resolving => accepted \in Peers
    BY DEF OrderlyInv, TypeInv
  <2> QED
    BY <1>1, <1>2, <1>3, <1>4, <1>5, <2>1, PeersAssumption DEF OrderlyInv, Admitting, Resolving
<1>11. Asking'
  <2>1. pending # NoPeer => pending \in Peers
    BY DEF OrderlyInv, TypeInv, TypeOK, MaybePeer
  <2> QED
    BY <1>1, <1>4, <1>5, <2>1 DEF OrderlyInv, Asking
<1> QED
  BY <1>7, <1>8, <1>9, <1>10, <1>11 DEF OrderlyInv

LEMMA OrderlyStranger ==
  ASSUME OrderlyInv, NEW p \in Peers, HelloUnknown(p), TypeInv'
  PROVE  OrderlyInv'
<1>1. /\ linkUp /\ p \notin keyed /\ told[p] = 0 /\ ~(heard /\ accepted = p)
      /\ pending' = p
      /\ UNCHANGED <<linkUp, sessions, foreground, keyed, told, hasScreen, loopAt, accepted, slot, heard>>
  BY DEF HelloUnknown, appVars, loopVars
<1>2. (TellsTruth /\ Attended /\ Foreground)'
  BY <1>1 DEF OrderlyInv, TellsTruth, Attended, Foreground, Listeners
<1>3. (Admitting /\ Asking)'
  BY <1>1 DEF OrderlyInv, Admitting, Asking
<1> QED
  BY <1>2, <1>3 DEF OrderlyInv

LEMMA OrderlyBye ==
  ASSUME OrderlyInv, NEW p \in Peers, Bye(p), TypeInv'
  PROVE  OrderlyInv'
<1> DEFINE b == told[p]
<1>1. b \in Slots /\ b # 0 /\ sessions[b] = p /\ p # NoPeer
  BY PeersAssumption, SlotsAssumption DEF Bye, OrderlyInv, TypeInv, TypeOK, TellsTruth, Slots
<1>2. /\ sessions' = [sessions EXCEPT ![b] = NoPeer]
      /\ told' = [told EXCEPT ![p] = 0]
      /\ foreground' = IF foreground = b THEN 0 ELSE foreground
      /\ hasScreen' = (IF foreground = b THEN hasScreen \ Listeners(b) ELSE hasScreen) \ {p}
      /\ UNCHANGED <<linkUp, pending, keyed, loopAt, accepted, slot, heard>>
  BY DEF Bye, loopVars
<1> HIDE DEF b
<1>3. /\ \A s \in Slots : sessions'[s] = IF s = b THEN NoPeer ELSE sessions[s]
      /\ \A q \in Peers : told'[q] = IF q = p THEN 0 ELSE told[q]
  BY <1>2 DEF OrderlyInv, TypeInv, TypeOK
<1>4. \A s \in Slots : sessions[s] # NoPeer => sessions[s] \in Peers
  BY DEF OrderlyInv, TypeInv, TypeOK, MaybePeer
<1>5. told[p] = b
  BY DEF b
<1>6. \A q \in Peers : told[q] # 0 => told[q] \in Slots
  BY SlotsAssumption DEF OrderlyInv, TypeInv, TypeOK, Slots
<1>7. TellsTruth'
  BY <1>1, <1>3, <1>5, <1>6 DEF OrderlyInv, TellsTruth
<1>8. Attended'
  BY <1>1, <1>2, <1>3, <1>4, <1>5 DEF OrderlyInv, Attended
<1>9. Foreground'
  <2>1. CASE foreground = b
    BY <1>1, <1>2, <2>1 DEF OrderlyInv, Foreground
  <2>2. CASE foreground # b
    <3>1. foreground # 0 => foreground \in Slots
      BY SlotsAssumption DEF OrderlyInv, TypeInv, TypeOK, Slots
    <3>2. foreground # 0 => Listeners(foreground)' = Listeners(foreground) /\ p \notin Listeners(foreground)
      BY <1>2, <1>3, <1>5, <2>2 DEF Listeners
    <3>3. hasScreen' = hasScreen
      BY <1>2, <2>2, <3>2 DEF OrderlyInv, Foreground
    <3> QED
      BY <1>2, <1>3, <1>4, <1>5, <2>2, <3>1, <3>2, <3>3 DEF OrderlyInv, Foreground
  <2> QED
    BY <2>1, <2>2
<1>10. (Admitting /\ Asking)'
  <2>1. loopAt \in Resolving => accepted \in Peers
    BY DEF OrderlyInv, TypeInv
  <2>2. pending # NoPeer => pending \in Peers
    BY DEF OrderlyInv, TypeInv, TypeOK, MaybePeer
  <2> QED
    BY <1>1, <1>2, <1>3, <1>5, <2>1, <2>2 DEF OrderlyInv, Admitting, Asking, Resolving
<1> QED
  BY <1>7, <1>8, <1>9, <1>10 DEF OrderlyInv

LEMMA OrderlyScreen ==
  ASSUME OrderlyInv, NEW p \in Peers, Acquire(p) \/ Release(p), TypeInv'
  PROVE  OrderlyInv'
<1>1. UNCHANGED <<linkUp, sessions, pending, keyed, told, loopAt, accepted, slot, heard>>
  BY DEF Acquire, Release, loopVars
<1>2. told[p] # 0 /\ sessions[told[p]] = p /\ p # NoPeer
  BY PeersAssumption DEF Acquire, Release, OrderlyInv, TellsTruth
<1>3. Foreground'
  <2>1. CASE Acquire(p)
    <3>1. hasScreen \ Listeners(foreground) = {}
      BY DEF OrderlyInv, Foreground
    <3> QED
      BY <1>1, <1>2, <2>1, <3>1 DEF Acquire, Announce, Foreground, Listeners
  <2>2. CASE Release(p)
    BY <1>1, <1>2, <2>2 DEF Release, OrderlyInv, Foreground
  <2> QED
    BY <2>1, <2>2
<1> QED
  BY <1>1, <1>3 DEF OrderlyInv, TellsTruth, Attended, Admitting, Asking

LEMMA OrderlyApp ==
  ASSUME Orderly, OrderlyInv, NEW p \in Peers, App(p)
  PROVE  OrderlyInv'
<1>1. TypeInv'
  BY TypeApp DEF OrderlyInv
<1>2. CASE PushText(p) \/ PushImage(p)
  BY <1>1, <1>2, OrderlyElsewhere DEF PushText, PushImage, hostVars, appVars, loopVars
<1>3. ~ Relaunch(p)
  BY DEF Relaunch, Orderly
<1> QED
  BY <1>1, <1>2, <1>3, OrderlyHello, OrderlyStranger, OrderlyBye, OrderlyScreen DEF App

(* A step of the loop outside resolvePairing(), which may end a request.   *)
LEMMA OrderlyPass ==
  ASSUME OrderlyInv, TypeInv',
         loopAt \notin Resolving, loopAt' \notin Resolving, pending' \in {pending, NoPeer},
         UNCHANGED <<linkUp, sessions, foreground, keyed, told, hasScreen, accepted, slot, heard>>
  PROVE  OrderlyInv'
<1>1. (TellsTruth /\ Foreground /\ Asking)'
  BY DEF OrderlyInv, TellsTruth, Foreground, Asking, Listeners
<1>2. (Attended /\ Admitting)'
  BY DEF OrderlyInv, Attended, Admitting, Resolving
<1> QED
  BY <1>1, <1>2 DEF OrderlyInv

LEMMA OrderlyResolve ==
  ASSUME OrderlyInv, Resolve \/ PressConfirm, TypeInv'
  PROVE  OrderlyInv'
<1> USE DEF OrderlyInv, Resolving
<1>1. pending # NoPeer => pending \in Peers
  BY DEF TypeInv, TypeOK, MaybePeer
<1>2. loopAt \in Resolving => accepted \in Peers /\ accepted # NoPeer
  BY PeersAssumption DEF TypeInv
<1>3. CASE PressConfirm
  <2>1. UNCHANGED <<linkUp, sessions, foreground, keyed, told, hasScreen>> /\ pending' = NoPeer
    BY <1>3 DEF PressConfirm, appVars
  <2>2. (TellsTruth /\ Foreground /\ Asking)'
    BY <2>1 DEF TellsTruth, Foreground, Asking, Listeners
  <2>3. Attended'
    BY <1>3, <2>1 DEF PressConfirm, Attended
  <2>4. CASE pending = NoPeer
    BY <1>3, <2>2, <2>3, <2>4 DEF PressConfirm, Admitting
  <2>5. CASE pending # NoPeer
    <3>1. loopAt' = "enrol" /\ accepted' = pending /\ heard'
      BY <1>3, <2>5 DEF PressConfirm
    <3>2. linkUp /\ told[pending] = 0 /\ pending \notin keyed
      BY <2>5 DEF Asking
    <3>3. Admitting'
      BY <2>1, <2>5, <3>1, <3>2 DEF Admitting
    <3> QED
      BY <2>2, <2>3, <3>3
  <2> QED
    BY <2>4, <2>5
<1>4. CASE Enrol
  <2>1. UNCHANGED <<linkUp, sessions, foreground, pending, told, hasScreen>> /\ keyed' \subseteq keyed
    BY <1>4 DEF Enrol, hostVars, appVars
  <2>2. (TellsTruth /\ Foreground /\ Asking)'
    BY <2>1 DEF TellsTruth, Foreground, Asking, Listeners
  <2>3. (Attended /\ Admitting)'
    BY <1>4, <2>1 DEF Enrol, Attended, Admitting
  <2> QED
    BY <2>2, <2>3
<1>5. CASE Admit
  <2>1. UNCHANGED <<linkUp, sessions, foreground, pending, told, hasScreen, keyed>>
    BY <1>5 DEF Admit, hostVars, appVars
  <2>2. (TellsTruth /\ Foreground /\ Asking)'
    BY <2>1 DEF TellsTruth, Foreground, Asking, Listeners
  <2>3. Attended'
    BY <1>5, <2>1 DEF Admit, Attended
  <2>4. loopAt' = "fill" => slot' \in Slots /\ sessions[slot'] = NoPeer
    BY <1>2, <1>5, FreshSlot DEF Admit, Admitting
  <2>5. Admitting'
    BY <1>5, <2>1, <2>4 DEF Admit, Admitting
  <2> QED
    BY <2>2, <2>3, <2>5
<1>6. CASE Fill
  <2>1. /\ UNCHANGED <<linkUp, foreground, pending, told, hasScreen, keyed, accepted, slot, heard>>
        /\ loopAt = "fill" /\ loopAt' = "answer"
        /\ slot \in Slots /\ sessions[slot] = NoPeer
        /\ \A s \in Slots : sessions'[s] = IF s = slot THEN accepted ELSE sessions[s]
    BY <1>6 DEF Fill, Admitting, appVars, TypeInv, TypeOK
  <2>2. \A q \in Peers : told[q] # 0 => told[q] \in Slots /\ told[q] # slot
    BY <2>1, PeersAssumption, SlotsAssumption DEF TellsTruth, TypeInv, TypeOK, Slots
  <2>3. TellsTruth'
    BY <2>1, <2>2 DEF TellsTruth
  <2>4. Attended'
    BY <1>2, <2>1 DEF Attended, Admitting
  <2>5. Foreground'
    <3>1. foreground # 0 => foreground \in Slots /\ foreground # slot
      BY <2>1, SlotsAssumption DEF TypeInv, TypeOK, Foreground, Slots
    <3> QED
      BY <2>1, <3>1 DEF Foreground, Listeners
  <2>6. (Admitting /\ Asking)'
    BY <1>2, <2>1 DEF Admitting, Asking
  <2> QED
    BY <2>3, <2>4, <2>5, <2>6
<1>7. CASE Answer
  <2>1. /\ UNCHANGED <<linkUp, sessions, foreground, pending, hasScreen>>
        /\ loopAt = "answer" /\ loopAt' = "link" /\ heard
        /\ keyed' = keyed \cup {accepted}
        /\ slot \in Slots /\ slot # 0 /\ sessions[slot] = accepted
        /\ accepted \in Peers /\ told[accepted] = 0 /\ accepted # pending
        /\ \A q \in Peers : told'[q] = IF q = accepted THEN slot ELSE told[q]
    BY <1>2, <1>7, SlotsAssumption DEF Answer, Admitting, hostVars, TypeInv, TypeOK, Slots
  <2>2. TellsTruth'
    BY <2>1 DEF TellsTruth
  <2>3. \A s \in Slots : sessions[s] # NoPeer => sessions[s] \in Peers
    BY DEF TypeInv, TypeOK, MaybePeer
  <2>4. \A s \in Slots : sessions[s] = accepted => s = slot
    BY <1>2, <2>1, SlotsAssumption DEF Attended, Slots
  <2>5. Attended'
    BY <2>1, <2>3, <2>4 DEF Attended
  <2>6. Foreground'
    <3>1. foreground # 0 => foreground \in Slots /\ foreground # slot
      BY <2>1, SlotsAssumption DEF TypeInv, TypeOK, Foreground, Slots
    <3>2. foreground # 0 => Listeners(foreground)' = Listeners(foreground)
      BY <2>1, <3>1 DEF Listeners
    <3> QED
      BY <2>1, <2>3, <3>1, <3>2 DEF Foreground
  <2>7. (Admitting /\ Asking)'
    BY <1>1, <2>1 DEF Admitting, Asking
  <2> QED
    BY <2>2, <2>5, <2>6, <2>7
<1> QED
  BY <1>3, <1>4, <1>5, <1>6, <1>7 DEF Resolve

LEMMA OrderlyNext ==
  ASSUME Orderly, OrderlyInv, [Next]_vars
  PROVE  OrderlyInv'
<1>1. TypeInv'
  BY TypeNext DEF OrderlyInv
<1>2. CASE UNCHANGED vars
  BY <1>1, <1>2, OrderlyElsewhere DEF vars, hostVars, appVars, loopVars
<1>3. CASE PromptTimeout \/ PressBack
  BY <1>1, <1>3, OrderlyPass DEF PromptTimeout, PressBack, RejectPending, Resolving, appVars
<1>4. CASE NoticeLink \/ Drain \/ EndPass
  BY <1>1, <1>4, OrderlyPass DEF NoticeLink, Drain, EndPass, Resolving, hostVars, appVars
<1>5. CASE Next
  BY <1>1, <1>3, <1>4, <1>5, OrderlyRestart, OrderlyLink, OrderlyApp, OrderlyResolve
  DEF Next, Loop, Buttons
<1> QED
  BY <1>2, <1>5

LEMMA OrderlyAlways ==
  ASSUME Orderly
  PROVE  Spec => []OrderlyInv
<1>1. OrderlyInv /\ [Next]_vars => OrderlyInv'
  BY OrderlyNext
<1> QED
  BY OrderlyInit, <1>1, PTL DEF Spec

(* No session outlives its link or its app: none of the few slots is held  *)
(* by nobody, whatever is pressed, refused, dropped or handed over, unless *)
(* the link drops or the host task allocates inside resolvePairing(), or   *)
(* an app starts again without a BYE.                                      *)
THEOREM NoSessionIsAGhost ==
  ASSUME Races \cap {"slot", "resolve", "relaunch"} = {}
  PROVE  Spec => []NoGhostSession
<1>1. Spec => []OrderlyInv
  BY OrderlyAlways DEF Orderly
<1>2. OrderlyInv => NoGhostSession
  BY DEF OrderlyInv, Attended, NoGhostSession
<1> QED
  BY <1>1, <1>2, PTL

LEMMA AnnouncedToOne == OrderlyInv => ScreenAnnounced
<1> SUFFICES ASSUME OrderlyInv PROVE ScreenAnnounced
  OBVIOUS
<1>1. CASE foreground = 0
  BY <1>1, FS_EmptySet DEF OrderlyInv, Foreground, ScreenAnnounced
<1>2. CASE foreground # 0
  <2>1. /\ sessions[foreground] \in Peers
        /\ told[sessions[foreground]] = foreground
    BY <1>2, SlotsAssumption DEF OrderlyInv, TypeInv, TypeOK, MaybePeer, Slots, Foreground
  <2>2. hasScreen = Listeners(foreground)
    BY <1>2 DEF OrderlyInv, Foreground
  <2>3. Listeners(foreground) = {sessions[foreground]}
    <3>1. \A q \in Listeners(foreground) : q = sessions[foreground]
      BY <1>2 DEF OrderlyInv, TellsTruth, Listeners
    <3>2. sessions[foreground] \in Listeners(foreground)
      BY <2>1 DEF Listeners
    <3> QED
      BY <3>1, <3>2
  <2>4. hasScreen # {} /\ Cardinality(hasScreen) = 1
    BY <2>2, <2>3, FS_Singleton
  <2> QED
    BY <1>2, <2>2, <2>4 DEF ScreenAnnounced
<1> QED
  BY <1>1, <1>2

(* Exactly the apps on the foreground session believe they hold the        *)
(* screen, and there is one of them when the screen is held: whichever     *)
(* app acquires, releases, leaves, is preempted or is admitted meanwhile.  *)
THEOREM TheHolderIsAnnounced ==
  ASSUME Races \cap {"slot", "resolve", "relaunch"} = {}
  PROVE  Spec => []ScreenAnnounced
<1>1. Spec => []OrderlyInv
  BY OrderlyAlways DEF Orderly
<1> QED
  BY <1>1, AnnouncedToOne, PTL

----------------------------------------------------------------------------
(* The activity draws for the app in the foreground.  Only the session's   *)
(* own slot names that app, so the slot must not change hands under it:    *)
(* resolvePairing() writes to a slot that is free or already its peer's.   *)
SlotKept == loopAt = "fill" => slot \in Slots /\ sessions[slot] \in {NoPeer, accepted}

NeedsLink == /\ foreground # 0 => linkUp
             /\ pending # NoPeer => linkUp
             /\ heard => linkUp
             /\ \A p \in Peers : told[p] # 0 => linkUp

ScreenFollows ==
  foreground # 0 => /\ sessions[foreground] # NoPeer
                    /\ \/ handFg = sessions[foreground]
                       \/ handFg = Nothing /\ ui.peer = sessions[foreground] /\ ~ui.idle

DriveInv == TypeInv /\ SlotKept /\ NeedsLink /\ ScreenFollows

(* Whoever is given the slot SessionFor() finds takes it from nobody. *)
LEMMA SlotFromNobody ==
  ASSUME NEW p, SessionFor(p) # 0
  PROVE  SessionFor(p) \in Slots /\ sessions[SessionFor(p)] \in {NoPeer, p}
<1>1. CASE SlotsOf(p) = {}
  BY <1>1, SlotFound
<1>2. CASE SlotsOf(p) # {}
  BY <1>2, SlotFound DEF SlotsOf
<1> QED
  BY <1>1, <1>2

(* The steps that leave the sessions, the screen and the page alone.       *)
LEMMA DriveElsewhere ==
  ASSUME DriveInv, TypeInv', NeedsLink', loopAt' # "fill" \/ UNCHANGED <<loopAt, slot, accepted>>,
         UNCHANGED <<sessions, foreground, handFg>>,
         foreground # 0 => ui'.peer = ui.peer /\ (ui'.idle => ui.idle)
  PROVE  DriveInv'
BY DEF DriveInv, SlotKept, ScreenFollows

LEMMA DriveLink ==
  ASSUME DriveInv, Connect \/ Disconnect \/ Restart, TypeInv'
  PROVE  DriveInv'
<1>1. CASE Connect
  BY <1>1 DEF Connect, appVars, handVars, loopVars, DriveInv, SlotKept, NeedsLink, ScreenFollows
<1>2. CASE Disconnect
  BY <1>2 DEF Disconnect, SessionsAfterDrop, DriveInv, SlotKept, NeedsLink, ScreenFollows
<1>3. CASE Restart
  BY <1>3 DEF Restart, PoweredOn, DriveInv, SlotKept, NeedsLink, ScreenFollows
<1> QED
  BY <1>1, <1>2, <1>3

LEMMA DriveHello ==
  ASSUME "slot" \notin Races, DriveInv, NEW p \in Peers, HelloKnown(p), TypeInv'
  PROVE  DriveInv'
<1> DEFINE f == SessionFor(p)
<1>1. f \in Slots /\ sessions[f] \in {NoPeer, p} /\ linkUp /\ loopAt # "fill"
  BY SlotFromNobody DEF HelloKnown
<1> HIDE DEF f
<1>2. /\ sessions' = [sessions EXCEPT ![f] = p]
      /\ UNCHANGED <<linkUp, foreground, handFg, ui, loopAt, pending, heard>>
  BY DEF HelloKnown, handVars, loopVars, f
<1>3. \A s \in Slots : sessions'[s] = IF s = f THEN p ELSE sessions[s]
  BY <1>2 DEF DriveInv, TypeInv, TypeOK
<1>4. foreground # 0 => foreground \in Slots
  BY SlotsAssumption DEF DriveInv, TypeInv, TypeOK, Slots
<1>5. foreground # 0 => sessions'[foreground] = sessions[foreground]
  BY <1>1, <1>3, <1>4 DEF DriveInv, ScreenFollows
<1> QED
  BY <1>1, <1>2, <1>5 DEF DriveInv, SlotKept, NeedsLink, ScreenFollows

LEMMA DriveBye ==
  ASSUME DriveInv, NEW p \in Peers, Bye(p), TypeInv'
  PROVE  DriveInv'
<1> DEFINE b == told[p]
<1>1. /\ b # 0 /\ b \in 0 .. MaxSessions
      /\ sessions' = [sessions EXCEPT ![b] = NoPeer]
      /\ told' = [told EXCEPT ![p] = 0]
      /\ IF foreground = b THEN foreground' = 0 ELSE UNCHANGED <<foreground, handFg>>
      /\ UNCHANGED <<linkUp, pending, loopAt, accepted, slot, heard, ui>>
  BY DEF Bye, loopVars, DriveInv, TypeInv, TypeOK
<1>2. b \in Slots
  BY <1>1, SlotsAssumption DEF Slots
<1> HIDE DEF b
<1>3. \A s \in Slots : sessions'[s] = IF s = b THEN NoPeer ELSE sessions[s]
  BY <1>1, <1>2 DEF DriveInv, TypeInv, TypeOK
<1>4. SlotKept'
  BY <1>1, <1>3 DEF DriveInv, SlotKept
<1>5. NeedsLink'
  <2>1. \A q \in Peers : told'[q] # 0 => told[q] # 0
    BY <1>1 DEF DriveInv, TypeInv, TypeOK
  <2> QED
    BY <1>1, <2>1 DEF DriveInv, NeedsLink
<1>6. ScreenFollows'
  <2>1. foreground # 0 => foreground \in Slots
    BY SlotsAssumption DEF DriveInv, TypeInv, TypeOK, Slots
  <2> QED
    BY <1>1, <1>3, <2>1 DEF DriveInv, ScreenFollows
<1> QED
  BY <1>4, <1>5, <1>6 DEF DriveInv

LEMMA DriveApp ==
  ASSUME "slot" \notin Races, DriveInv, NEW p \in Peers, App(p)
  PROVE  DriveInv'
<1>1. TypeInv'
  BY TypeApp DEF DriveInv
<1>2. CASE HelloUnknown(p)
  BY <1>1, <1>2 DEF HelloUnknown, appVars, loopVars, DriveInv, SlotKept, NeedsLink, ScreenFollows
<1>3. CASE Acquire(p)
  <2>1. Holder(told[p]) = sessions[told[p]] /\ sessions[told[p]] # NoPeer
    BY <1>3, PeersAssumption, KindsAssumption DEF Acquire, Holder
  <2> QED
    BY <1>1, <1>3, <2>1 DEF Acquire, loopVars, DriveInv, SlotKept, NeedsLink, ScreenFollows
<1>4. CASE Release(p)
  BY <1>1, <1>4 DEF Release, loopVars, DriveInv, SlotKept, NeedsLink, ScreenFollows
<1>5. CASE PushText(p) \/ PushImage(p)
  BY <1>1, <1>5 DEF PushText, PushImage, hostVars, appVars, loopVars, DriveInv, SlotKept, NeedsLink,
                    ScreenFollows
<1>6. CASE Relaunch(p)
  <2>1. \A q \in Peers : told'[q] # 0 => told[q] # 0
    BY <1>6 DEF Relaunch, DriveInv, TypeInv, TypeOK
  <2> QED
    BY <1>1, <1>6, <2>1 DEF Relaunch, hostVars, handVars, loopVars, DriveInv, SlotKept, NeedsLink,
                            ScreenFollows
<1> QED
  BY <1>1, <1>2, <1>3, <1>4, <1>5, <1>6, DriveHello, DriveBye DEF App

(* What one pass draws, with nothing but a prompt and pushes handed over:  *)
(* the page stays with its app.                                            *)
LEMMA DrawsForSame ==
  ASSUME NEW u \in Uis, NEW decodes \in BOOLEAN, handFg = Nothing, TypeInv
  PROVE  LET v == ShowText(ShowImage(ShowForeground(ShowPrompt(u)), decodes))
         IN  v.peer = u.peer /\ (v.idle => u.idle)
<1>1. ShowPrompt(u) \in Uis
  BY UiKept DEF TypeInv
<1>6. ShowPrompt(u).peer = u.peer /\ (ShowPrompt(u).idle => u.idle)
  <2>1. CASE handPair = NoPeer
    BY <2>1 DEF ShowPrompt
  <2>2. CASE handPair # NoPeer
    <3>1. ShowPrompt(u).peer = u.peer /\ ShowPrompt(u).idle = FALSE
      BY <2>2 DEF ShowPrompt, Uis
    <3> QED
      BY <3>1
  <2> QED
    BY <2>1, <2>2
<1>2. ShowForeground(ShowPrompt(u)) = ShowPrompt(u)
  BY PeersAssumption DEF ShowForeground
<1>3. \A v \in Uis : /\ ShowImage(v, decodes).peer = v.peer
                    /\ ShowImage(v, decodes).idle = v.idle
  BY DEF ShowImage, Uis
<1>4. \A v \in Uis : ShowText(v).peer = v.peer /\ ShowText(v).idle = v.idle
  BY DEF ShowText, Uis
<1>5. \A v \in Uis : ShowImage(v, decodes) \in Uis
  BY UiKept DEF TypeInv
<1> QED
  BY <1>1, <1>2, <1>3, <1>4, <1>5, <1>6

(* ... and after a handover it is the new app's. *)
LEMMA DrawsForNext ==
  ASSUME NEW u \in Uis, NEW decodes \in BOOLEAN, handFg \in Peers, TypeInv
  PROVE  LET v == ShowText(ShowImage(ShowForeground(ShowPrompt(u)), decodes))
         IN  v.peer = handFg /\ ~v.idle
<1>1. ShowPrompt(u) \in Uis
  BY UiKept DEF TypeInv
<1>2. handFg # Nothing /\ handFg # NoPeer
  BY PeersAssumption
<1>3. /\ ShowForeground(ShowPrompt(u)) = TakeOver(ShowPrompt(u))
      /\ ShowForeground(ShowPrompt(u)) \in Uis
  BY <1>1, <1>2, UiKept DEF ShowForeground, TypeInv
<1>4. TakeOver(ShowPrompt(u)).peer = handFg /\ TakeOver(ShowPrompt(u)).idle = FALSE
  BY <1>1 DEF TakeOver, Uis
<1>5. \A v \in Uis : /\ ShowImage(v, decodes).peer = v.peer
                    /\ ShowImage(v, decodes).idle = v.idle
  BY DEF ShowImage, Uis
<1>6. \A v \in Uis : ShowText(v).peer = v.peer /\ ShowText(v).idle = v.idle
  BY DEF ShowText, Uis
<1>7. \A v \in Uis : ShowImage(v, decodes) \in Uis
  BY UiKept DEF TypeInv
<1> QED
  BY <1>3, <1>4, <1>5, <1>6, <1>7

LEMMA DriveDrain ==
  ASSUME DriveInv, Drain, TypeInv'
  PROVE  DriveInv'
<1>1. /\ UNCHANGED <<sessions, foreground, linkUp, pending, told, heard>>
      /\ loopAt' = "input" /\ handFg' = Nothing
  BY DEF Drain, hostVars, appVars
<1>2. ui \in Uis /\ TypeInv
  BY DEF DriveInv, TypeInv, TypeOK
<1>3. PICK decodes \in BOOLEAN :
        ui' = ShowText(ShowImage(ShowForeground(ShowPrompt(ui)), decodes))
  BY DEF Drain
<1>4. ASSUME foreground # 0
      PROVE  /\ sessions[foreground] # NoPeer
             /\ ui'.peer = sessions[foreground] /\ ~ui'.idle
  <2>1. foreground \in Slots
    BY <1>4, SlotsAssumption DEF DriveInv, TypeInv, TypeOK, Slots
  <2>2. sessions[foreground] \in Peers
    BY <1>4, <2>1 DEF DriveInv, ScreenFollows, TypeInv, TypeOK, MaybePeer
  <2>3. CASE handFg = sessions[foreground]
    BY <1>2, <1>3, <2>2, <2>3, DrawsForNext, PeersAssumption
  <2>4. CASE handFg # sessions[foreground]
    <3>1. handFg = Nothing /\ ui.peer = sessions[foreground] /\ ~ui.idle
      BY <1>4, <2>4 DEF DriveInv, ScreenFollows
    <3> QED
      BY <1>2, <1>3, <2>2, <3>1, DrawsForSame, PeersAssumption
  <2> QED
    BY <2>3, <2>4
<1>5. NeedsLink' /\ SlotKept'
  BY <1>1 DEF DriveInv, NeedsLink, SlotKept
<1>6. ScreenFollows'
  BY <1>1, <1>4 DEF ScreenFollows
<1> QED
  BY <1>5, <1>6 DEF DriveInv

LEMMA DriveResolve ==
  ASSUME DriveInv, Resolve, TypeInv'
  PROVE  DriveInv'
<1>1. CASE Enrol
  BY <1>1 DEF Enrol, hostVars, appVars, handVars, DriveInv, SlotKept, NeedsLink, ScreenFollows
<1>2. CASE Admit
  <2>1. loopAt' = "fill" => slot' \in Slots /\ sessions[slot'] \in {NoPeer, accepted}
                            /\ accepted' = accepted
    BY <1>2, SlotFromNobody DEF Admit
  <2> QED
    BY <1>2, <2>1 DEF Admit, hostVars, appVars, handVars, DriveInv, SlotKept, NeedsLink, ScreenFollows
<1>3. CASE Fill
  <2>1. /\ slot \in Slots /\ sessions[slot] \in {NoPeer, accepted}
        /\ \A s \in Slots : sessions'[s] = IF s = slot THEN accepted ELSE sessions[s]
    BY <1>3 DEF Fill, DriveInv, SlotKept, TypeInv, TypeOK
  <2>2. foreground # 0 => foreground \in Slots /\ sessions'[foreground] = sessions[foreground]
    BY <2>1, SlotsAssumption DEF DriveInv, TypeInv, TypeOK, Slots, ScreenFollows
  <2> QED
    BY <1>3, <2>2 DEF Fill, appVars, handVars, DriveInv, SlotKept, NeedsLink, ScreenFollows
<1>4. CASE Answer
  <2>1. \A q \in Peers : told'[q] # 0 => told[q] # 0 \/ heard
    BY <1>4 DEF Answer, DriveInv, TypeInv, TypeOK
  <2> QED
    BY <1>4, <2>1 DEF Answer, hostVars, handVars, DriveInv, SlotKept, NeedsLink, ScreenFollows
<1> QED
  BY <1>1, <1>2, <1>3, <1>4 DEF Resolve

LEMMA DrivePass ==
  ASSUME DriveInv, NoticeLink \/ PromptTimeout \/ EndPass \/ Buttons, TypeInv'
  PROVE  DriveInv'
<1>1. ui \in Uis
  BY DEF DriveInv, TypeInv, TypeOK
<1>2. CASE NoticeLink
  <2>1. foreground # 0 => ui' = ui
    BY <1>2 DEF NoticeLink, DriveInv, NeedsLink
  <2> QED
    BY <1>2, <2>1, DriveElsewhere DEF NoticeLink, hostVars, appVars, DriveInv, NeedsLink
<1>3. CASE PromptTimeout \/ PressBack
  <2>1. ui'.peer = ui.peer /\ ui'.idle = ui.idle
    BY <1>1, <1>3 DEF PromptTimeout, PressBack, Refused, Uis
  <2> QED
    BY <1>3, <2>1, DriveElsewhere DEF PromptTimeout, PressBack, RejectPending, appVars, handVars,
                                      DriveInv, NeedsLink
<1>4. CASE PressConfirm
  <2>1. ui'.peer = ui.peer /\ ui'.idle = ui.idle
    BY <1>1, <1>4 DEF PressConfirm, Uis
  <2>2. heard' => linkUp
    BY <1>4 DEF PressConfirm, DriveInv, NeedsLink
  <2> QED
    BY <1>4, <2>1, <2>2, DriveElsewhere DEF PressConfirm, appVars, handVars, DriveInv, NeedsLink
<1>5. CASE EndPass
  <2>1. ui'.peer = ui.peer /\ ui'.idle = ui.idle
    BY <1>1, <1>5 DEF EndPass, Uis
  <2> QED
    BY <1>5, <2>1, DriveElsewhere DEF EndPass, hostVars, appVars, handVars, DriveInv, NeedsLink
<1> QED
  BY <1>2, <1>3, <1>4, <1>5 DEF Buttons

LEMMA DriveNext ==
  ASSUME "slot" \notin Races, DriveInv, [Next]_vars
  PROVE  DriveInv'
<1>1. TypeInv'
  BY TypeNext DEF DriveInv
<1>2. CASE UNCHANGED vars
  BY <1>1, <1>2, DriveElsewhere DEF vars, hostVars, appVars, handVars, loopVars, DriveInv, NeedsLink
<1>3. CASE Next
  BY <1>1, <1>3, DriveLink, DriveApp, DriveDrain, DriveResolve, DrivePass DEF Next, Loop
<1> QED
  BY <1>2, <1>3

LEMMA DriveAlways ==
  ASSUME "slot" \notin Races
  PROVE  Spec => []DriveInv
<1>1. Init => DriveInv
  BY TypeInit DEF Init, DriveInv, SlotKept, NeedsLink, ScreenFollows
<1>2. DriveInv /\ [Next]_vars => DriveInv'
  BY DriveNext
<1> QED
  BY <1>1, <1>2, PTL DEF Spec

(* Once the loop has caught up, the app in the foreground is the one the   *)
(* activity draws for, and the device does not doze off under it, whatever *)
(* drops, restarts or relaunches, as long as the two tasks do not allocate *)
(* in the session table at the same instant (applyForegroundChange and     *)
(* idleSinceMs against g_foreground).                                      *)
THEOREM DrivenStaysAwake ==
  ASSUME "slot" \notin Races
  PROVE  Spec => []DrivenScreenStaysAwake
<1>1. DriveInv => DrivenScreenStaysAwake
  <2> SUFFICES ASSUME DriveInv, Settled, foreground # 0
               PROVE  ui.peer = sessions[foreground] /\ ~ui.idle
    BY DEF DrivenScreenStaysAwake
  <2>1. sessions[foreground] \in MaybePeer
    BY SlotsAssumption DEF DriveInv, TypeInv, TypeOK, Slots
  <2>2. sessions[foreground] # Nothing
    BY <2>1, PeersAssumption DEF MaybePeer
  <2> QED
    BY <2>2 DEF Settled, DriveInv, ScreenFollows
<1> QED
  BY <1>1, DriveAlways, PTL

----------------------------------------------------------------------------
(* The page is the foreground app's: what an app has handed over is drawn  *)
(* for that app or for nobody, and a takeover clears what was there.       *)
Owned(u) == u.peer # NoPeer => /\ u.text \in {NoPeer, u.peer} /\ u.image \in {NoPeer, u.peer}
                               /\ u.screen = "Image" => u.image = u.peer
Accepts(u, h)  == h # NoPeer => u.peer \in {NoPeer, h}
PushKnown(h)   == h # NoPeer => handFg \in {NoPeer, h} \/ (handFg = Nothing /\ Accepts(ui, h))

PageInv == DriveInv /\ Owned(ui) /\ PushKnown(handText) /\ PushKnown(handImage)

TimelyPushes == Races \cap {"slot", "late"} = {}

(* The parts of one pass, each on a page that is its app's. *)
LEMMA OwnedParts ==
  ASSUME NEW u \in Uis, Owned(u), TypeInv
  PROVE  /\ Owned(ShowPrompt(u)) /\ ShowPrompt(u).peer = u.peer
         /\ Owned(ShowForeground(u))
         /\ handFg \in Peers => ShowForeground(u).peer = handFg
         /\ handFg = NoPeer => ShowForeground(u).peer = NoPeer
         /\ handFg = Nothing => ShowForeground(u) = u
         /\ \A decodes \in BOOLEAN :
              Accepts(u, handImage) => /\ Owned(ShowImage(u, decodes))
                                       /\ ShowImage(u, decodes).peer = u.peer
         /\ Accepts(u, handText) => Owned(ShowText(u))
<1> USE DEF Uis
<1>1. Owned(ShowPrompt(u)) /\ ShowPrompt(u).peer = u.peer
  BY DEF ShowPrompt, Owned
<1>2. /\ handFg = Nothing => ShowForeground(u) = u
      /\ handFg = NoPeer => ShowForeground(u) = LetGo(u)
      /\ handFg \in Peers => ShowForeground(u) = TakeOver(u)
  BY PeersAssumption DEF ShowForeground
<1>3. LetGo(u).peer = NoPeer /\ TakeOver(u).peer = handFg /\ Owned(TakeOver(u))
  BY DEF LetGo, TakeOver, Owned
<1>4. handFg \in Peers \/ handFg \in {NoPeer, Nothing}
  BY DEF TypeInv, TypeOK, MaybePeer
<1>5. Owned(ShowForeground(u))
  <2>1. CASE handFg = Nothing
    BY <1>2, <2>1
  <2>2. CASE handFg = NoPeer
    BY <1>2, <1>3, <2>2 DEF Owned
  <2>3. CASE handFg \in Peers
    BY <1>2, <1>3, <2>3
  <2> QED
    BY <1>4, <2>1, <2>2, <2>3
<1>6. ASSUME NEW decodes \in BOOLEAN, Accepts(u, handImage)
      PROVE  Owned(ShowImage(u, decodes)) /\ ShowImage(u, decodes).peer = u.peer
  BY <1>6 DEF ShowImage, Owned, Accepts
<1>7. Accepts(u, handText) => Owned(ShowText(u))
  BY DEF ShowText, Owned, Accepts
<1> QED
  BY <1>1, <1>2, <1>3, <1>5, <1>6, <1>7

LEMMA PageDrain ==
  ASSUME PageInv, Drain, DriveInv'
  PROVE  PageInv'
<1>1. /\ handFg' = Nothing /\ handText' = NoPeer /\ handImage' = NoPeer
      /\ ui \in Uis /\ TypeInv /\ Owned(ui)
  BY DEF Drain, PageInv, DriveInv, TypeInv, TypeOK
<1> DEFINE w == ShowPrompt(ui)
           x == ShowForeground(w)
<1>2. PICK decodes \in BOOLEAN : ui' = ShowText(ShowImage(x, decodes))
  BY DEF Drain
<1>3. w \in Uis /\ Owned(w) /\ w.peer = ui.peer
  BY <1>1, UiKept, OwnedParts DEF TypeInv
<1> HIDE DEF w
<1>4. x \in Uis /\ Owned(x)
  BY <1>1, <1>3, UiKept, OwnedParts DEF TypeInv
<1>5. ASSUME NEW h \in MaybePeer, PushKnown(h) PROVE Accepts(x, h)
  <2>1. CASE h = NoPeer
    BY <2>1 DEF Accepts
  <2>2. CASE h # NoPeer /\ handFg = NoPeer
    BY <1>1, <1>3, <2>2, OwnedParts DEF Accepts
  <2>3. CASE h # NoPeer /\ handFg = h
    BY <1>1, <1>3, <2>3, OwnedParts DEF Accepts, MaybePeer
  <2>4. CASE h # NoPeer /\ handFg \notin {NoPeer, h}
    <3>1. handFg = Nothing /\ Accepts(ui, h)
      BY <1>5, <2>4 DEF PushKnown
    <3>2. x = w
      BY <1>1, <1>3, <3>1, OwnedParts
    <3> QED
      BY <1>3, <3>1, <3>2 DEF Accepts
  <2> QED
    BY <2>1, <2>2, <2>3, <2>4
<1>6. Accepts(x, handText) /\ Accepts(x, handImage)
  BY <1>1, <1>5 DEF PageInv, TypeInv, TypeOK
<1> HIDE DEF x
<1>7. /\ ShowImage(x, decodes) \in Uis /\ Owned(ShowImage(x, decodes))
      /\ ShowImage(x, decodes).peer = x.peer
  BY <1>1, <1>4, <1>6, UiKept, OwnedParts DEF TypeInv
<1>8. Accepts(ShowImage(x, decodes), handText)
  BY <1>6, <1>7 DEF Accepts
<1>9. Owned(ui')
  BY <1>1, <1>2, <1>7, <1>8, OwnedParts
<1> QED
  BY <1>1, <1>9 DEF PageInv, PushKnown, Owned

LEMMA PageApp ==
  ASSUME TimelyPushes, PageInv, NEW p \in Peers, App(p), DriveInv'
  PROVE  PageInv'
<1>1. UNCHANGED ui
  BY DEF App, HelloKnown, HelloUnknown, Bye, Acquire, Release, PushText, PushImage, Relaunch
<1>2. CASE HelloKnown(p) \/ HelloUnknown(p) \/ Relaunch(p)
  BY <1>1, <1>2 DEF HelloKnown, HelloUnknown, Relaunch, handVars, PageInv, PushKnown, Accepts, Owned
<1>3. CASE Bye(p) \/ Release(p)
  <2>1. handFg' \in {handFg, NoPeer} /\ UNCHANGED <<handText, handImage>>
    BY <1>3 DEF Bye, Release
  <2> QED
    BY <1>1, <2>1 DEF PageInv, PushKnown, Accepts, Owned
<1>4. CASE Acquire(p)
  <2>1. handText' = NoPeer /\ handImage' = NoPeer
    BY <1>4 DEF Acquire, TimelyPushes
  <2> QED
    BY <1>1, <2>1 DEF PageInv, PushKnown, Owned
<1>5. CASE PushText(p) \/ PushImage(p)
  <2>1. /\ foreground # 0 /\ Holder(foreground) = sessions[foreground] /\ UNCHANGED handFg
        /\ handText' \in {handText, Holder(foreground)}
        /\ handImage' \in {handImage, Holder(foreground)}
    BY <1>5 DEF PushText, PushImage, Holder
  <2>2. \/ handFg = sessions[foreground]
        \/ handFg = Nothing /\ ui.peer = sessions[foreground]
    BY <2>1 DEF PageInv, DriveInv, ScreenFollows
  <2> QED
    BY <1>1, <2>1, <2>2 DEF PageInv, PushKnown, Accepts, Owned
<1> QED
  BY <1>2, <1>3, <1>4, <1>5 DEF App

LEMMA PageElsewhere ==
  ASSUME PageInv, Connect \/ Disconnect \/ Restart \/ Resolve \/ UNCHANGED vars, DriveInv'
  PROVE  PageInv'
<1>1. CASE Restart
  BY <1>1 DEF Restart, PoweredOn, IdleUi, PageInv, PushKnown, Owned
<1>2. CASE ~Restart
  <2>1. UNCHANGED <<ui, handFg, handText, handImage>>
    BY <1>2 DEF Connect, Disconnect, Resolve, Enrol, Admit, Fill, Answer, vars, handVars
  <2> QED
    BY <2>1 DEF PageInv, PushKnown, Accepts, Owned
<1> QED
  BY <1>1, <1>2

LEMMA PagePass ==
  ASSUME PageInv, NoticeLink \/ PromptTimeout \/ EndPass \/ Buttons, DriveInv'
  PROVE  PageInv'
<1>1. ui \in Uis
  BY DEF PageInv, DriveInv, TypeInv, TypeOK
<1>2. CASE NoticeLink /\ connected /\ ~linkUp
  <2>1. PICK stored \in BOOLEAN : ui' = LinkLost(GalleryFallback(ui, stored))
    BY <1>2 DEF NoticeLink
  <2>2. GalleryFallback(ui, stored) \in Uis
    BY <1>1, UiKept DEF PageInv, DriveInv, TypeInv
  <2>3. ui'.peer = NoPeer
    BY <2>1, <2>2 DEF LinkLost, Uis
  <2>4. UNCHANGED <<handFg, handImage>> /\ handText' = NoPeer
    BY <1>2 DEF NoticeLink
  <2> QED
    BY <2>3, <2>4 DEF PageInv, PushKnown, Accepts, Owned
<1>3. CASE NoticeLink /\ ~(connected /\ ~linkUp)
  BY <1>3 DEF NoticeLink, PageInv, PushKnown, Accepts, Owned
<1>4. CASE PromptTimeout \/ EndPass \/ Buttons
  <2>1. /\ ui'.peer = ui.peer /\ ui'.image = ui.image /\ ui'.text \in {ui.text, NoPeer}
        /\ ui'.screen = "Image" => ui.screen = "Image"
    BY <1>1, <1>4 DEF PromptTimeout, EndPass, Buttons, PressBack, PressConfirm, Refused, Uis
  <2>2. UNCHANGED <<handFg, handText, handImage>>
    BY <1>4 DEF PromptTimeout, EndPass, Buttons, PressBack, PressConfirm, handVars
  <2> QED
    BY <2>1, <2>2 DEF PageInv, PushKnown, Accepts, Owned
<1> QED
  BY <1>2, <1>3, <1>4

LEMMA PageNext ==
  ASSUME TimelyPushes, PageInv, [Next]_vars
  PROVE  PageInv'
<1>1. DriveInv'
  BY DriveNext DEF PageInv, TimelyPushes
<1> QED
  BY <1>1, PageApp, PageDrain, PageElsewhere, PagePass DEF Next, Loop

(* Once the loop has caught up, what is on the page belongs to the app     *)
(* that holds the screen, unless the screen changes hands over a push that *)
(* waits in its slot or the two tasks allocate at the same instant         *)
(* (applyForegroundChange and the order of loop()'s steps).                *)
THEOREM PageIsTheHolders ==
  ASSUME Races \cap {"slot", "late"} = {}
  PROVE  Spec => []PageBelongsToForeground
<1>1. Init => PageInv
  BY TypeInit DEF Init, IdleUi, DriveInv, SlotKept, NeedsLink, ScreenFollows, PageInv, PushKnown, Owned
<1>2. PageInv /\ [Next]_vars => PageInv'
  BY PageNext DEF TimelyPushes
<1>3. PageInv => PageBelongsToForeground
  BY DEF PageInv, Owned, PageBelongsToForeground
<1> QED
  BY <1>1, <1>2, <1>3, PTL DEF Spec

----------------------------------------------------------------------------
(* The prompt on the screen is for the request that is pending: it leaves  *)
(* the screen with the request, or with the link both died with, which the *)
(* loop notices before the next link is up.                                *)
Prompted ==
  /\ pending # NoPeer => linkUp
  /\ handPair # NoPeer => handPair = pending /\ ui.screen # "Pairing"
  /\ ui.screen = "Pairing" =>
       \/ pending # NoPeer /\ ui.asked = pending
       \/ pending = NoPeer /\ ~linkUp /\ connected

PromptInv == TypeInv /\ Prompted

NoStalePrompts == Races \cap {"flap", "stale"} = {}

(* Nothing but a request handed over puts a prompt on the page.            *)
LEMMA DrawsNoPrompt ==
  ASSUME NEW u \in Uis, TypeInv
  PROVE  /\ ShowForeground(u).screen = "Pairing" =>
              u.screen = "Pairing" /\ ShowForeground(u).asked = u.asked
         /\ \A decodes \in BOOLEAN : ShowImage(u, decodes).screen = "Pairing" =>
              u.screen = "Pairing" /\ ShowImage(u, decodes).asked = u.asked
         /\ ShowText(u).screen = "Pairing" =>
              u.screen = "Pairing" /\ ShowText(u).asked = u.asked
<1> USE DEF Uis
<1>1. LetGo(u).screen = "Pairing" => u.screen = "Pairing" /\ LetGo(u).asked = u.asked
  BY DEF LetGo
<1>2. TakeOver(u).screen # "Pairing"
  BY DEF TakeOver
<1>3. ShowForeground(u) \in {u, LetGo(u), TakeOver(u)}
  BY PeersAssumption DEF ShowForeground, TypeInv, TypeOK, MaybePeer
<1>4. \A decodes \in BOOLEAN : ShowImage(u, decodes).screen = "Pairing" =>
        u.screen = "Pairing" /\ ShowImage(u, decodes).asked = u.asked
  BY DEF ShowImage
<1>5. ShowText(u).screen = "Pairing" => u.screen = "Pairing" /\ ShowText(u).asked = u.asked
  BY DEF ShowText
<1> QED
  BY <1>1, <1>2, <1>3, <1>4, <1>5

LEMMA PromptDrain ==
  ASSUME PromptInv, Drain, TypeInv'
  PROVE  PromptInv'
<1>1. /\ UNCHANGED <<pending, linkUp, connected>> /\ handPair' = NoPeer
      /\ ui \in Uis /\ TypeInv
  BY DEF Drain, hostVars, PromptInv, TypeInv, TypeOK
<1> DEFINE w == ShowPrompt(ui)
           x == ShowForeground(w)
<1>2. PICK decodes \in BOOLEAN : ui' = ShowText(ShowImage(x, decodes))
  BY DEF Drain
<1>3. w.screen = "Pairing" =>
        \/ pending # NoPeer /\ w.asked = pending
        \/ pending = NoPeer /\ ~linkUp /\ connected
  <2>1. CASE handPair = NoPeer
    BY <2>1 DEF ShowPrompt, PromptInv, Prompted
  <2>2. CASE handPair # NoPeer
    <3>1. w.asked = handPair
      BY <1>1, <2>2 DEF ShowPrompt, Uis
    <3>2. handPair = pending
      BY <2>2 DEF PromptInv, Prompted
    <3> QED
      BY <2>2, <3>1, <3>2
  <2> QED
    BY <2>1, <2>2
<1>4. w \in Uis
  BY <1>1, UiKept DEF TypeInv
<1> HIDE DEF w
<1>5. x \in Uis
  BY <1>4, UiKept DEF PromptInv, TypeInv
<1>6. x.screen = "Pairing" => w.screen = "Pairing" /\ x.asked = w.asked
  BY <1>1, <1>4, DrawsNoPrompt
<1> HIDE DEF x
<1>7. ShowImage(x, decodes) \in Uis
  BY <1>5, UiKept DEF PromptInv, TypeInv
<1>8. ui'.screen = "Pairing" => x.screen = "Pairing" /\ ui'.asked = x.asked
  BY <1>1, <1>2, <1>5, <1>7, DrawsNoPrompt
<1> QED
  BY <1>1, <1>3, <1>6, <1>8 DEF PromptInv, Prompted

LEMMA PromptHost ==
  ASSUME NoStalePrompts, PromptInv, TypeInv',
         Connect \/ Disconnect \/ Restart \/ \E p \in Peers : App(p)
  PROVE  PromptInv'
<1>1. CASE Connect
  BY <1>1 DEF Connect, NoStalePrompts, handVars, PromptInv, Prompted
<1>2. CASE Disconnect
  BY <1>2 DEF Disconnect, NoStalePrompts, handVars, PromptInv, Prompted
<1>3. CASE Restart
  BY <1>3 DEF Restart, PoweredOn, IdleUi, PromptInv, Prompted
<1>4. ASSUME NEW p \in Peers, HelloUnknown(p) PROVE PromptInv'
  <2>1. /\ linkUp /\ pending = NoPeer /\ pending' = p /\ handPair' = p
        /\ p # NoPeer /\ UNCHANGED <<linkUp, connected, ui>>
    BY <1>4, PeersAssumption DEF HelloUnknown, MayAsk
  <2> QED
    BY <2>1 DEF PromptInv, Prompted
<1>5. ASSUME NEW p \in Peers, App(p), ~HelloUnknown(p) PROVE PromptInv'
  <2>1. UNCHANGED <<linkUp, connected, ui, pending, handPair>>
    BY <1>5 DEF App, HelloKnown, Bye, Acquire, Release, PushText, PushImage, Relaunch, hostVars,
                handVars
  <2> QED
    BY <2>1 DEF PromptInv, Prompted
<1> QED
  BY <1>1, <1>2, <1>3, <1>4, <1>5

LEMMA PromptPass ==
  ASSUME PromptInv, NoticeLink \/ PromptTimeout \/ EndPass \/ Buttons \/ Resolve, TypeInv'
  PROVE  PromptInv'
<1>1. ui \in Uis
  BY DEF PromptInv, TypeInv, TypeOK
<1>2. CASE NoticeLink /\ connected /\ ~linkUp
  <2>1. PICK stored \in BOOLEAN : ui' = LinkLost(GalleryFallback(ui, stored))
    BY <1>2 DEF NoticeLink
  <2>2. GalleryFallback(ui, stored) \in Uis
    BY <1>1, UiKept DEF PromptInv, TypeInv
  <2>3. ui'.screen # "Pairing"
    BY <2>1, <2>2 DEF LinkLost, Uis
  <2>4. UNCHANGED <<pending, linkUp, handPair>>
    BY <1>2 DEF NoticeLink, hostVars
  <2> QED
    BY <2>3, <2>4 DEF PromptInv, Prompted
<1>3. CASE NoticeLink /\ ~(connected /\ ~linkUp)
  <2>1. UNCHANGED <<ui, pending, linkUp, handPair>> /\ connected' = linkUp
    BY <1>3 DEF NoticeLink, hostVars
  <2> QED
    BY <1>3, <2>1 DEF PromptInv, Prompted
<1>4. CASE PromptTimeout \/ Buttons
  <2>1. ui.screen = "Pairing" /\ ui'.screen # "Pairing"
    BY <1>1, <1>4 DEF PromptTimeout, Buttons, PressBack, PressConfirm, Refused, Uis
  <2>2. pending' = NoPeer /\ UNCHANGED <<linkUp, handPair>>
    BY <1>4 DEF PromptTimeout, Buttons, PressBack, PressConfirm, RejectPending, handVars
  <2> QED
    BY <2>1, <2>2 DEF PromptInv, Prompted
<1>5. CASE EndPass
  <2>1. ui'.screen = "Pairing" => ui' = ui
    <3>1. \/ ui' = ui
          \/ ui' = [ui EXCEPT !.screen = "Idle"]
          \/ ui' = [ui EXCEPT !.screen = "Idle", !.text = NoPeer]
      BY <1>5 DEF EndPass
    <3> QED
      BY <1>1, <3>1 DEF Uis
  <2>2. ui' = ui \/ ui.screen # "Pairing"
    BY <1>5 DEF EndPass
  <2>3. UNCHANGED <<pending, linkUp, handPair, connected>>
    BY <1>5 DEF EndPass, hostVars, handVars
  <2> QED
    BY <2>1, <2>2, <2>3 DEF PromptInv, Prompted
<1>6. CASE Resolve
  BY <1>6 DEF Resolve, Enrol, Admit, Fill, Answer, hostVars, handVars, PromptInv, Prompted
<1> QED
  BY <1>2, <1>3, <1>4, <1>5, <1>6

LEMMA PromptNext ==
  ASSUME NoStalePrompts, PromptInv, [Next]_vars
  PROVE  PromptInv'
<1>1. TypeInv'
  BY TypeNext DEF PromptInv
<1>2. CASE UNCHANGED vars
  BY <1>1, <1>2 DEF vars, hostVars, handVars, PromptInv, Prompted
<1> QED
  BY <1>1, <1>2, PromptHost, PromptDrain, PromptPass DEF Next, Loop

(* Pressing Confirm never accepts an app other than the one whose name is  *)
(* on the screen, as long as the loop looks at the link between two of its *)
(* changes and the link does not drop on a prompt not yet drawn            *)
(* (g_pendingPairing against pairingAppName).                              *)
THEOREM ConfirmedIsAsked ==
  ASSUME Races \cap {"flap", "stale"} = {}
  PROVE  Spec => ConfirmsWhatIsAsked
<1>1. Init => PromptInv
  BY TypeInit DEF Init, IdleUi, PromptInv, Prompted
<1>2. PromptInv /\ [Next]_vars => PromptInv'
  BY PromptNext DEF NoStalePrompts
<1>3. PromptInv /\ [Next]_vars => [PressConfirm /\ pending # NoPeer => pending = ui.asked]_vars
  BY DEF PressConfirm, PromptInv, Prompted
<1> QED
  BY <1>1, <1>2, <1>3, PTL DEF Spec, ConfirmsWhatIsAsked

=============================================================================
