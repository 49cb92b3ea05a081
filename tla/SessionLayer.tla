---------------------------- MODULE SessionLayer ----------------------------
(***************************************************************************)
(* Sessions, screen ownership and pairing: the host task's half            *)
(* (src/CompanionBle.cpp) and the main loop's half                         *)
(* (CompanionModeActivity), joined by the handoff slots of g_mux and by    *)
(* resolvePairing(), which runs on the main loop and shares the session    *)
(* table with the host task.                                               *)
(*                                                                         *)
(* Each app is one enrolled-or-not peer; several apps share the one link.  *)
(* Races names the coincidences a run admits; see RaceNames.               *)
(***************************************************************************)
EXTENDS Naturals, FiniteSets

CONSTANTS Peers,         \* the (appId, installId) pairs
          NoPeer,        \* the empty peer key
          Nothing,       \* an empty foreground handoff
          MaxSessions,   \* kMaxSessions
          Declared,      \* peers whose stored UI declaration parses
          ImagePeers,    \* peers whose declaration is image-capable
          Races          \* the coincidences admitted

(* flap:     the link changes twice between two looks at it                *)
(* stale:    the link drops while a prompt or a handover waits in its slot *)
(* late:     the screen changes hands while a push waits in its slot       *)
(* resolve:  the link drops inside resolvePairing()                        *)
(* slot:     the host task allocates inside resolvePairing()'s allocation  *)
(* relaunch: an app restarts and says HELLO again on a link still up       *)
RaceNames == {"flap", "stale", "late", "resolve", "slot", "relaunch"}

ASSUME PeersAssumption == NoPeer \notin Peers /\ Nothing \notin Peers \cup {NoPeer}
ASSUME SlotsAssumption == MaxSessions \in Nat \ {0}
ASSUME KindsAssumption == Declared \subseteq Peers /\ ImagePeers \subseteq Peers
ASSUME RacesAssumption == Races \subseteq RaceNames

VARIABLES linkUp, sessions, foreground, pending,  \* the host task's state
          keyed,               \* on SD: peers whose phone holds the stored token
          told, hasScreen,     \* the apps: session id given, screen announced
          handFg, handPair, handText, handImage,  \* the g_mux slots
          connected, ui,       \* the activity
          loopAt, accepted, slot, heard           \* where the main loop is

hostVars  == <<linkUp, sessions, foreground, pending>>
appVars   == <<told, hasScreen>>
handVars  == <<handFg, handPair, handText, handImage>>
loopVars  == <<loopAt, accepted, slot, heard>>
vars == <<hostVars, keyed, appVars, handVars, connected, ui, loopVars>>

MaybePeer == Peers \cup {NoPeer}
Slots     == 1 .. MaxSessions
Resolving == {"enrol", "admit", "fill", "answer"}
Screens   == {"Idle", "Pairing", "Text", "Image", "Message"}

(* What the activity shows: the screen, its copy of the foreground peer,   *)
(* the owners of the text and of the image, whether the idle clock runs,   *)
(* whether the foreground peer pushed an image, and whose name is asked.   *)
Uis == [screen : Screens, peer : MaybePeer, text : MaybePeer, image : MaybePeer,
        idle : BOOLEAN, pushed : BOOLEAN, asked : MaybePeer]

IdleUi == [screen |-> "Idle", peer |-> NoPeer, text |-> NoPeer, image |-> NoPeer,
           idle |-> TRUE, pushed |-> FALSE, asked |-> NoPeer]

TypeOK ==
  /\ linkUp \in BOOLEAN /\ connected \in BOOLEAN
  /\ sessions \in [Slots -> MaybePeer]
  /\ foreground \in 0 .. MaxSessions
  /\ pending \in MaybePeer
  /\ keyed \subseteq Peers /\ hasScreen \subseteq Peers
  /\ told \in [Peers -> 0 .. MaxSessions]
  /\ handFg \in MaybePeer \cup {Nothing}
  /\ handPair \in MaybePeer /\ handText \in MaybePeer /\ handImage \in MaybePeer
  /\ ui \in Uis
  /\ loopAt \in {"link", "drain", "input"} \cup Resolving
  /\ accepted \in MaybePeer /\ slot \in 0 .. MaxSessions /\ heard \in BOOLEAN

(* A device just switched on; volatile state only. *)
PoweredOn ==
  /\ linkUp' = FALSE /\ connected' = FALSE
  /\ sessions' = [s \in Slots |-> NoPeer] /\ foreground' = 0 /\ pending' = NoPeer
  /\ told' = [p \in Peers |-> 0] /\ hasScreen' = {}
  /\ handFg' = Nothing /\ handPair' = NoPeer /\ handText' = NoPeer /\ handImage' = NoPeer
  /\ ui' = IdleUi
  /\ loopAt' = "link" /\ accepted' = NoPeer /\ slot' = 0 /\ heard' = FALSE

Init ==
  /\ linkUp = FALSE /\ connected = FALSE
  /\ sessions = [s \in Slots |-> NoPeer] /\ foreground = 0 /\ pending = NoPeer
  /\ keyed \in SUBSET Peers
  /\ told = [p \in Peers |-> 0] /\ hasScreen = {}
  /\ handFg = Nothing /\ handPair = NoPeer /\ handText = NoPeer /\ handImage = NoPeer
  /\ ui = IdleUi
  /\ loopAt = "link" /\ accepted = NoPeer /\ slot = 0 /\ heard = FALSE

----------------------------------------------------------------------------
(* The session table. *)

FreeSlots   == {s \in Slots : sessions[s] = NoPeer}
FirstOf(S)  == CHOOSE s \in S : \A t \in S : s <= t
Holder(s)   == IF s = 0 THEN NoPeer ELSE sessions[s]
SlotsOf(p)  == {s \in Slots : sessions[s] = p}
Listeners(s) == {p \in Peers : told[p] = s}

(* Mutants: the reuse of a live session dropped; the limit not looked at. *)
SessionFor_AlwaysNew(p) == IF FreeSlots # {} THEN FirstOf(FreeSlots) ELSE 0
SessionFor_NoLimit(p) ==
  FirstOf(IF SlotsOf(p) # {} THEN SlotsOf(p) ELSE FreeSlots \cup {MaxSessions + 1})

(* sessionIdForPeer() or else allocateSession(): 0 when the table is full. *)
SessionFor(p) ==
  IF SlotsOf(p) # {} THEN FirstOf(SlotsOf(p))
  ELSE IF FreeSlots # {} THEN FirstOf(FreeSlots) ELSE 0

----------------------------------------------------------------------------
(* The host task. *)

Connect ==
  /\ ~linkUp
  /\ "flap" \in Races \/ ~connected
  /\ linkUp' = TRUE
  /\ UNCHANGED <<sessions, foreground, pending, keyed, appVars, handVars, connected, ui, loopVars>>

(* Mutant: only the foreground session dies. *)
SessionsAfterDrop_Foreground == [s \in Slots |-> IF s = foreground THEN NoPeer ELSE sessions[s]]

(* The session table a dropped link leaves. *)
SessionsAfterDrop == [s \in Slots |-> NoPeer]

Disconnect ==
  /\ linkUp
  /\ "flap" \in Races \/ connected
  /\ "stale" \in Races \/ (handFg = Nothing /\ handPair = NoPeer)
  /\ "resolve" \in Races \/ loopAt \notin Resolving
  /\ linkUp' = FALSE
  /\ sessions' = SessionsAfterDrop /\ foreground' = 0 /\ pending' = NoPeer
  /\ told' = [p \in Peers |-> 0] /\ hasScreen' = {}
  /\ heard' = FALSE
  /\ UNCHANGED <<keyed, handVars, connected, ui, loopAt, accepted, slot>>

(* HELLO from a peer whose token matches: a session at once, or NO_SLOTS. *)
HelloKnown(p) ==
  /\ linkUp /\ p \in keyed /\ told[p] = 0
  /\ "slot" \in Races \/ loopAt # "fill"
  /\ SessionFor(p) # 0
  /\ sessions' = [sessions EXCEPT ![SessionFor(p)] = p]
  /\ told' = [told EXCEPT ![p] = SessionFor(p)]
  /\ UNCHANGED <<linkUp, foreground, pending, keyed, hasScreen, handVars, connected, ui, loopVars>>

(* Mutant: a second stranger replaces the first. *)
MayAsk_Stacked(p) == pending # p

MayAsk(p) == pending = NoPeer

(* HELLO from a stranger: a prompt, unless one is up already (BUSY). *)
HelloUnknown(p) ==
  /\ linkUp /\ p \notin keyed /\ told[p] = 0
  /\ ~(heard /\ accepted = p)
  /\ MayAsk(p)
  /\ pending' = p /\ handPair' = p
  /\ UNCHANGED <<linkUp, sessions, foreground, keyed, appVars, handFg, handText, handImage,
                 connected, ui, loopVars>>

(* dropSession(): an app says BYE and forgets its session id. *)
Bye(p) ==
  LET s == told[p] IN
  /\ s # 0 /\ Holder(s) # NoPeer
  /\ sessions' = [sessions EXCEPT ![s] = NoPeer]
  /\ IF foreground = s THEN foreground' = 0 /\ handFg' = NoPeer
                       ELSE UNCHANGED <<foreground, handFg>>
  /\ hasScreen' = (IF foreground = s THEN hasScreen \ Listeners(s) ELSE hasScreen) \ {p}
  /\ told' = [told EXCEPT ![p] = 0]
  /\ UNCHANGED <<linkUp, pending, keyed, handPair, handText, handImage, connected, ui, loopVars>>

(* Mutant: the preempted app is not told. *)
Announce_NoBackground(s) == hasScreen \cup Listeners(s)

(* Who has been told it holds the screen once setForeground(s) has run. *)
Announce(s) == (hasScreen \ Listeners(foreground)) \cup Listeners(s)

(* ACQUIRE of a live session with a usable declaration: setForeground().   *)
(* Nothing at all happens for the session already in the foreground.       *)
Acquire(p) ==
  LET s == told[p] IN
  /\ s # 0 /\ Holder(s) \in Declared
  /\ foreground # s
  /\ "late" \in Races \/ (handText = NoPeer /\ handImage = NoPeer)
  /\ foreground' = s
  /\ hasScreen' = Announce(s)
  /\ handFg' = sessions[s]
  /\ UNCHANGED <<linkUp, sessions, pending, keyed, told, handPair, handText, handImage,
                 connected, ui, loopVars>>

Release(p) ==
  LET s == told[p] IN
  /\ s # 0 /\ foreground = s /\ Holder(s) # NoPeer
  /\ foreground' = 0
  /\ hasScreen' = hasScreen \ Listeners(s)
  /\ handFg' = NoPeer
  /\ UNCHANGED <<linkUp, sessions, pending, keyed, told, handPair, handText, handImage,
                 connected, ui, loopVars>>

(* A whole text batch, or a whole image, from the foreground session. *)
PushText(p) ==
  /\ told[p] # 0 /\ told[p] = foreground
  /\ handText' = Holder(foreground)
  /\ UNCHANGED <<hostVars, keyed, appVars, handFg, handPair, handImage, connected, ui, loopVars>>

PushImage(p) ==
  /\ told[p] # 0 /\ told[p] = foreground
  /\ handImage' = Holder(foreground)
  /\ UNCHANGED <<hostVars, keyed, appVars, handFg, handPair, handText, connected, ui, loopVars>>

(* An app is killed and started again while another keeps the link up. *)
Relaunch(p) ==
  /\ "relaunch" \in Races
  /\ told[p] # 0
  /\ told' = [told EXCEPT ![p] = 0]
  /\ hasScreen' = hasScreen \ {p}
  /\ UNCHANGED <<hostVars, keyed, handVars, connected, ui, loopVars>>

----------------------------------------------------------------------------
(* The main loop: notice the link edge, drain the handoffs, timers and     *)
(* buttons; resolvePairing() is a detour of the last step.                 *)

(* The departing peer's own gallery replaces an empty page, if it has one. *)
GalleryFallback(u, stored) ==
  IF u.peer = NoPeer \/ u.pushed \/ u.peer \notin ImagePeers THEN u
  ELSE IF stored THEN [u EXCEPT !.screen = "Image", !.image = u.peer]
  ELSE [u EXCEPT !.screen = "Message"]

LinkLost(u) ==
  [u EXCEPT !.idle = TRUE, !.peer = NoPeer,
            !.screen = IF @ = "Pairing" THEN "Idle" ELSE @,
            !.asked = IF u.screen = "Pairing" THEN NoPeer ELSE @]

NoticeLink ==
  /\ loopAt = "link" /\ loopAt' = "drain"
  /\ connected' = linkUp
  /\ IF connected /\ ~linkUp
     THEN /\ \E stored \in BOOLEAN : ui' = LinkLost(GalleryFallback(ui, stored))
          /\ handText' = NoPeer              \* resetOnDisconnect()
     ELSE UNCHANGED <<ui, handText>>
  /\ UNCHANGED <<hostVars, keyed, appVars, handFg, handPair, handImage, accepted, slot, heard>>

ShowPrompt(u) ==
  IF handPair = NoPeer THEN u
  ELSE [u EXCEPT !.screen = "Pairing", !.asked = handPair, !.idle = FALSE]

(* Mutants: the old page is kept; the idle clock is left running. *)
TakeOver_KeepsPage(u) ==
  [u EXCEPT !.peer = handFg, !.idle = FALSE, !.pushed = FALSE, !.screen = "Text"]
TakeOver_KeepsClock(u) ==
  [u EXCEPT !.peer = handFg, !.text = NoPeer, !.image = NoPeer, !.pushed = FALSE, !.screen = "Text"]

(* applyForegroundChange(): another app takes the screen, which is cleared. *)
TakeOver(u) ==
  [u EXCEPT !.peer = handFg, !.idle = FALSE, !.text = NoPeer, !.image = NoPeer,
            !.pushed = FALSE, !.screen = "Text"]

(* applyForegroundChange(): nobody holds the screen; content stays up. *)
LetGo(u) ==
  [u EXCEPT !.peer = NoPeer, !.idle = TRUE,
            !.screen = IF u.text = NoPeer /\ @ # "Image" THEN "Idle" ELSE @]

ShowForeground(u) ==
  CASE handFg = Nothing -> u
    [] handFg = NoPeer  -> LetGo(u)
    [] OTHER            -> TakeOver(u)

ShowImage(u, decodes) ==
  IF handImage = NoPeer \/ ~decodes THEN u
  ELSE [u EXCEPT !.screen = "Image", !.image = handImage, !.pushed = TRUE]

(* A committed batch with a body. *)
ShowText(u) ==
  IF handText = NoPeer THEN u
  ELSE [u EXCEPT !.screen = "Text", !.text = handText, !.image = NoPeer]

(* The order of the steps is the code's: a push is applied after the       *)
(* handover it may have overtaken.                                         *)
Drain ==
  /\ loopAt = "drain" /\ loopAt' = "input"
  /\ \E decodes \in BOOLEAN :
       ui' = ShowText(ShowImage(ShowForeground(ShowPrompt(ui)), decodes))
  /\ handFg' = Nothing /\ handPair' = NoPeer /\ handText' = NoPeer /\ handImage' = NoPeer
  /\ UNCHANGED <<hostVars, keyed, appVars, connected, accepted, slot, heard>>

(* resolvePairing(false): the request goes and the app is told. *)
RejectPending == pending' = NoPeer

Refused == [ui EXCEPT !.screen = "Idle", !.asked = NoPeer]

PromptTimeout ==
  /\ loopAt = "input" /\ loopAt' = "link"
  /\ ui.screen = "Pairing" /\ ui' = Refused
  /\ RejectPending
  /\ UNCHANGED <<linkUp, sessions, foreground, keyed, appVars, handVars, connected,
                 accepted, slot, heard>>

PressBack ==
  /\ loopAt = "input" /\ loopAt' = "link"
  /\ ui.screen = "Pairing" /\ ui' = Refused
  /\ RejectPending
  /\ UNCHANGED <<linkUp, sessions, foreground, keyed, appVars, handVars, connected,
                 accepted, slot, heard>>

(* resolvePairing(true) takes the request and clears it ... *)
PressConfirm ==
  /\ loopAt = "input"
  /\ ui.screen = "Pairing" /\ ui' = [ui EXCEPT !.screen = "Text", !.asked = NoPeer]
  /\ loopAt' = IF pending = NoPeer THEN "link" ELSE "enrol"
  /\ accepted' = pending /\ heard' = (pending # NoPeer)
  /\ pending' = NoPeer
  /\ UNCHANGED <<linkUp, sessions, foreground, keyed, appVars, handVars, connected, slot>>

(* ... enrols the peer and replaces its token, or fails at the SD card ... *)
Enrol ==
  /\ loopAt = "enrol"
  /\ \/ loopAt' = "admit" /\ keyed' = keyed \ {accepted} /\ UNCHANGED <<accepted, heard>>
     \/ loopAt' = "link" /\ accepted' = NoPeer /\ heard' = FALSE /\ UNCHANGED keyed
  /\ UNCHANGED <<hostVars, appVars, handVars, connected, ui, slot>>

(* ... finds its session or a free slot, or refuses with NO_SLOTS ... *)
Admit ==
  /\ loopAt = "admit"
  /\ slot' = SessionFor(accepted)
  /\ IF slot' = 0 THEN loopAt' = "link" /\ accepted' = NoPeer /\ heard' = FALSE
                  ELSE loopAt' = "fill" /\ UNCHANGED <<accepted, heard>>
  /\ UNCHANGED <<hostVars, keyed, appVars, handVars, connected, ui>>

(* ... writes the slot it found ... *)
Fill ==
  /\ loopAt = "fill" /\ loopAt' = "answer"
  /\ sessions' = [sessions EXCEPT ![slot] = accepted]
  /\ UNCHANGED <<linkUp, foreground, pending, keyed, appVars, handVars, connected, ui,
                 accepted, slot, heard>>

(* ... and, after touching peers.json, sends HELLO_OK to whoever listens. *)
Answer ==
  /\ loopAt = "answer" /\ loopAt' = "link"
  /\ IF heard THEN /\ told' = [told EXCEPT ![accepted] = slot]
                   /\ keyed' = keyed \cup {accepted}
              ELSE UNCHANGED <<told, keyed>>
  /\ accepted' = NoPeer /\ slot' = 0 /\ heard' = FALSE
  /\ UNCHANGED <<hostVars, hasScreen, handVars, connected, ui>>

(* Nothing due: the pass ends; or a timer takes a message or an old page   *)
(* away.  kWaitingIdleSleepMs outlasts every prompt and message.           *)
EndPass ==
  /\ loopAt = "input" /\ loopAt' = "link"
  /\ \/ UNCHANGED ui
     \/ ui.screen = "Message" /\ ui' = [ui EXCEPT !.screen = "Idle"]
     \/ /\ ui.idle /\ ui.screen \in {"Text", "Image"}
        /\ ui' = [ui EXCEPT !.screen = "Idle", !.text = NoPeer]
  /\ UNCHANGED <<hostVars, keyed, appVars, handVars, connected, accepted, slot, heard>>

(* Deep sleep once the idle clock runs out on a bare screen, by the power  *)
(* button, or a crash: only the SD card survives.                          *)
Restart == PoweredOn /\ UNCHANGED keyed

App(p) == \/ HelloKnown(p) \/ HelloUnknown(p) \/ Bye(p) \/ Acquire(p) \/ Release(p)
          \/ PushText(p) \/ PushImage(p) \/ Relaunch(p)
Resolve == Enrol \/ Admit \/ Fill \/ Answer
Buttons == PressBack \/ PressConfirm
Loop == NoticeLink \/ Drain \/ PromptTimeout \/ EndPass \/ Resolve

Next == Connect \/ Disconnect \/ Restart \/ (\E p \in Peers : App(p)) \/ Buttons \/ Loop

Spec == Init /\ [][Next]_vars

(* The loop keeps passing, and a prompt that stays up is timed out. *)
FairSpec == Spec /\ WF_vars(Loop) /\ SF_vars(PromptTimeout)

----------------------------------------------------------------------------
(* Properties. *)

(* The loop has caught up with the host task. *)
Settled ==
  /\ connected = linkUp /\ loopAt \notin Resolving
  /\ handFg = Nothing /\ handPair = NoPeer /\ handText = NoPeer /\ handImage = NoPeer

(* The apps that believe they hold the screen are exactly those listening  *)
(* on the foreground session, and there is at most one: ACQUIRE, RELEASE,  *)
(* BYE, preemption and pairing never leave two apps drawing, or an owner   *)
(* that was not told (setForeground, dropSession, notifyForeground).       *)
ScreenAnnounced ==
  /\ hasScreen = IF foreground = 0 THEN {} ELSE Listeners(foreground)
  /\ Cardinality(hasScreen) <= 1
  /\ foreground # 0 => hasScreen # {}

(* A live session belongs to a link and to an app that knows of it, unless *)
(* its HELLO_OK is just being sent: sessions do not survive the link and   *)
(* none of the few slots is held by an app that is not there.              *)
NoGhostSession ==
  \A s \in Slots : sessions[s] # NoPeer =>
    /\ linkUp
    /\ told[sessions[s]] = s \/ (loopAt = "answer" /\ accepted = sessions[s])

(* One install never holds two sessions, whichever of the two tasks admits *)
(* it (sessionIdForPeer answers the oldest match).                         *)
OneSessionPerPeer == \A p \in Peers : Cardinality(SlotsOf(p)) <= 1

(* Pressing Confirm never accepts an app other than the one whose name is  *)
(* on the screen (g_pendingPairing against pairingAppName).                *)
ConfirmsWhatIsAsked == [][PressConfirm /\ pending # NoPeer => pending = ui.asked]_vars

(* Once the loop has caught up, an app that holds the foreground is the    *)
(* one the activity draws for, and the device does not doze off under it   *)
(* (idleSinceMs is 0).                                                     *)
DrivenScreenStaysAwake ==
  Settled /\ foreground # 0 => ui.peer = sessions[foreground] /\ ~ui.idle

(* Once the loop has caught up, what is on the page belongs to the app     *)
(* that holds the screen: nothing of a background session is kept.         *)
PageBelongsToForeground ==
  Settled /\ ui.peer # NoPeer =>
    /\ ui.screen = "Text"  => ui.text \in {ui.peer, NoPeer}
    /\ ui.screen = "Image" => ui.image = ui.peer

(* Once the loop has caught up and no prompt is up, the idle clock runs    *)
(* exactly while no app holds the screen (idleSinceMs).  Does not hold:    *)
(* README, section 3.                                                      *)
IdleClockFollowsScreen ==
  Settled /\ ui.screen # "Pairing" => (ui.idle <=> foreground = 0)

(* A pairing request is eventually answered or dies with its link, so that *)
(* the next stranger is not turned away as BUSY for ever.  Does not hold:  *)
(* README, section 3.                                                      *)
PairingResolves == \A p \in Peers : pending = p ~> pending # p

=============================================================================
