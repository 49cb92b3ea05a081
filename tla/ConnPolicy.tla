----------------------------- MODULE ConnPolicy -----------------------------
(***************************************************************************)
(* The link-parameter policy (src/CompanionConnPolicy), the chain of link  *)
(* procedures ServerCallbacks starts (parameters, then PHY, then data      *)
(* length), and the central that grants, ignores or volunteers updates.    *)
(* onConnect, onDisconnect and onGrant run on the BLE host task, tick() on *)
(* the main loop, which the host task may interrupt between any two of its *)
(* reads and stores: nothing guards the policy.                            *)
(*                                                                         *)
(* A parameter set is named by its profile ("Other": the central's own).   *)
(* Time is in ticks; elapsed times are kept instead of timestamps and      *)
(* saturate just past the threshold they are compared with.                *)
(***************************************************************************)
EXTENDS Naturals

CONSTANTS Grace,        \* kConnParamsGraceMs
          Holdoff,      \* kIdleHoldoffMs
          Settings      \* the centrals and schedules considered, see Surroundings

(* obliging: the central grants every request it is sent; volunteers: it   *)
(* may change the parameters by itself; preempted: the host task may run   *)
(* inside tick().                                                          *)
Surroundings == [obliging : BOOLEAN, volunteers : BOOLEAN, preempted : BOOLEAN]

ASSUME TimesAssumption == Grace \in Nat \ {0} /\ Holdoff \in Nat /\ Grace < Holdoff
ASSUME SettingsAssumption == Settings \subseteq Surroundings

VARIABLES desired, current, requested,  \* the three profiles of the policy
          inFlight, asked,              \* a request outstanding; its units, or "none"
          matched, logged,              \* diagnostics: answered as asked; reported
          waited, unattended,           \* since the request; since an app held the screen
          foreground,                   \* an app holds the screen (g_foreground)
          link, announced,              \* the parameters in force; central's opening event
          procedure, old,               \* the pending link procedure; a tick has passed
          phyAsked, dleAsked,           \* one-shot flags of the chain
          clash,                        \* a procedure was started on top of another
          setting,                      \* the surroundings of this behaviour
          tickAt, wish, stores,         \* tick(): where it is, its profile, what it has to store
          vacant, hold, torn            \* for the properties, see Witnesses

profileVars == <<desired, current, requested>>
requestVars == <<inFlight, asked, matched, logged, waited>>
chainVars   == <<phyAsked, dleAsked>>
linkVars    == <<link, announced, procedure, old, clash>>
tickVars    == <<tickAt, wish, stores>>
seenVars    == <<vacant, hold, torn>>
vars == <<profileVars, requestVars, unattended, foreground, linkVars, chainVars, tickVars, seenVars,
          setting>>

Profiles   == {"Session", "Idle"}
Procedures == Profiles \cup {"phy", "dle"}
Held       == Holdoff + 1     \* noForegroundSinceMs_ = 0: somebody holds the screen

(* What pump() writes for a request: requestedProfile_, inFlight_, the four *)
(* units, and requestedMs_ with the two diagnostics.                       *)
Stores     == {"requested", "inFlight", "units", "rest"}

(* Witnesses.  vacant: how long nobody has held the screen on this link,   *)
(* kept until a hold is missed.  hold: whether tick() has looked while the *)
(* screen was held; "missed" if it began and ended between two looks.      *)
(* torn: an event of the link has fallen among the stores of a request.    *)
Storing    == tickAt = "store" /\ stores # Stores
LinkEvent  == torn' = (torn \/ Storing)

TypeOK ==
  /\ desired \in Profiles /\ current \in Profiles /\ requested \in Profiles
  /\ {inFlight, matched, logged} \subseteq BOOLEAN /\ asked \in Profiles \cup {"none"}
  /\ waited \in 0 .. Grace + 1 /\ unattended \in 0 .. Held
  /\ foreground \in BOOLEAN /\ announced \in BOOLEAN /\ old \in BOOLEAN
  /\ link \in Profiles \cup {"Other", "Down"}
  /\ procedure \in Procedures \cup {"none"}
  /\ {phyAsked, dleAsked, clash} \subseteq BOOLEAN
  /\ tickAt \in {"start", "desires", "tests", "store"} /\ wish \in Profiles
  /\ stores \subseteq Stores /\ setting \in Settings
  /\ vacant \in 0 .. Holdoff /\ hold \in {"none", "unseen", "seen", "missed"} /\ torn \in BOOLEAN

Init ==
  /\ desired = "Idle" /\ current = "Idle" /\ requested = "Idle"
  /\ inFlight = FALSE /\ asked = "none" /\ matched = TRUE /\ logged = FALSE
  /\ waited = 0 /\ unattended = Held
  /\ foreground = FALSE
  /\ link = "Down" /\ announced = FALSE /\ procedure = "none" /\ old = FALSE
  /\ phyAsked = FALSE /\ dleAsked = FALSE /\ clash = FALSE
  /\ tickAt = "start" /\ wish = "Idle" /\ stores = {} /\ setting \in Settings
  /\ vacant = 0 /\ hold = "none" /\ torn = FALSE

----------------------------------------------------------------------------
(* pump(). *)

(* The host stack refuses a procedure while another one is pending.        *)
Start(p) ==
  /\ procedure' = IF procedure = "none" THEN p ELSE procedure
  /\ old' = (old /\ procedure # "none")
  /\ clash' = (clash \/ procedure # "none")

(* Mutants: a request is never considered lost; never looked at. *)
Outstanding_Forever == inFlight
Outstanding_Never == FALSE

Outstanding == inFlight /\ waited <= Grace

(* The request itself and updateConnParams(), on the host task. *)
Ask(p) ==
  /\ requested' = p /\ inFlight' = TRUE /\ asked' = p
  /\ matched' = FALSE /\ logged' = FALSE /\ waited' = 0
  /\ Start(p)

----------------------------------------------------------------------------
(* The BLE host task. *)

Connect ==
  /\ link = "Down"
  /\ link' = "Other" /\ announced' = FALSE
  /\ phyAsked' = FALSE /\ dleAsked' = FALSE
  /\ unattended' = 0 /\ desired' = "Session" /\ UNCHANGED current
  /\ IF Outstanding \/ current = "Session"
     THEN /\ inFlight' = Outstanding
          /\ UNCHANGED <<requested, asked, matched, logged, waited, procedure, old, clash>>
     ELSE Ask("Session")
  /\ vacant' = 0 /\ hold' = "none" /\ LinkEvent
  /\ UNCHANGED <<foreground, tickVars, setting>>

(* Mutants: the profile of the old link is kept; a value that is none. *)
ProfileAfterDrop_Kept == current
ProfileAfterDrop_Unset == link

ProfileAfterDrop == "Idle"

Disconnect ==
  /\ link # "Down"
  /\ link' = "Down" /\ procedure' = "none" /\ old' = FALSE /\ announced' = FALSE
  /\ current' = ProfileAfterDrop /\ desired' = "Idle" /\ requested' = "Idle"
  /\ inFlight' = FALSE /\ asked' = "none"
  /\ foreground' = FALSE /\ vacant' = 0 /\ hold' = "none" /\ torn' = Storing
  /\ UNCHANGED <<matched, logged, waited, unattended, clash, chainVars, tickVars, setting>>

(* Mutant: any update is taken for the grant of our request. *)
Matches_Anything(p) == TRUE

Matches(p) == asked = "none" \/ p = asked

(* onConnParamsUpdate(p): onGrant(), then PHY once nothing is in flight.   *)
(* before: the procedure still pending when the event arrives.             *)
ParamsUpdate(p, before) ==
  /\ link' = p
  /\ matched' = Matches(p)
  /\ current' = IF Matches(p) THEN requested ELSE current
  /\ inFlight' = (inFlight /\ ~Matches(p))
  /\ phyAsked' = (phyAsked \/ ~inFlight')
  /\ IF ~phyAsked /\ ~inFlight'
     THEN /\ procedure' = IF before = "none" THEN "phy" ELSE before
          /\ clash' = (clash \/ before # "none")
     ELSE procedure' = before /\ UNCHANGED clash
  /\ old' = (old /\ before # "none")
  /\ LinkEvent
  /\ UNCHANGED <<desired, requested, asked, logged, waited, unattended, foreground,
                 dleAsked, tickVars, vacant, hold, setting>>

(* The central's opening event: its own parameters, announced once. *)
Opening ==
  /\ link = "Other" /\ ~announced /\ announced' = TRUE
  /\ ParamsUpdate("Other", procedure)

Grant ==
  /\ procedure \in Profiles
  /\ ParamsUpdate(procedure, "none")
  /\ announced' = TRUE

Volunteer(p) ==
  /\ setting.volunteers /\ link # "Down" /\ procedure \notin Profiles
  /\ ParamsUpdate(p, procedure)
  /\ announced' = TRUE

Ignore ==
  /\ ~setting.obliging /\ procedure \in Profiles
  /\ procedure' = "none" /\ old' = FALSE
  /\ UNCHANGED <<profileVars, requestVars, unattended, foreground, link, announced, clash,
                 chainVars, tickVars, seenVars, setting>>

(* onPhyUpdate(): data length is asked for once PHY is done. *)
PhyUpdate ==
  /\ procedure = "phy" /\ old' = FALSE
  /\ procedure' = IF dleAsked THEN "none" ELSE "dle"
  /\ dleAsked' = TRUE
  /\ UNCHANGED <<profileVars, requestVars, unattended, foreground, link, announced, clash,
                 phyAsked, tickVars, seenVars, setting>>

DataLength ==
  /\ procedure = "dle" /\ procedure' = "none" /\ old' = FALSE
  /\ UNCHANGED <<profileVars, requestVars, unattended, foreground, link, announced, clash,
                 chainVars, tickVars, seenVars, setting>>

(* setForeground(), dropSession(), RELEASE: the screen is taken, or nobody  *)
(* holds it any more.                                                      *)
ForegroundChange ==
  /\ link # "Down" /\ foreground' = ~foreground
  /\ vacant' = 0
  /\ hold' = CASE hold = "missed" -> "missed"
               [] hold = "seen" -> "none"
               [] ~foreground -> "unseen"
               [] OTHER -> "missed"
  /\ UNCHANGED <<profileVars, requestVars, unattended, linkVars, chainVars, tickVars, torn, setting>>

----------------------------------------------------------------------------
(* tick(), on the main loop. *)

(* Mutants: the holdoff dropped; the absence of a session not acted on. *)
Wanted_NoHoldoff(fg, idleFor) == IF fg THEN "Session" ELSE "Idle"
Wanted_Sticky(fg, idleFor) == IF fg THEN "Session" ELSE desired

Wanted(fg, idleFor) == IF fg \/ idleFor < Holdoff THEN "Session" ELSE "Idle"

(* divergenceDue(): a request the central did not honour in time. *)
Diverged == ~matched /\ asked # "none" /\ waited > Grace

(* setForegroundActive(): what it reads, and noForegroundSinceMs_ ...      *)
TickLooks ==
  /\ tickAt = "start" /\ link # "Down" /\ tickAt' = "desires"
  /\ LET idleFor == IF unattended = Held THEN 0 ELSE unattended
     IN /\ unattended' = IF foreground THEN Held ELSE idleFor
        /\ wish' = Wanted(foreground, idleFor)
  /\ hold' = IF foreground THEN "seen" ELSE hold
  /\ UNCHANGED <<profileVars, requestVars, foreground, linkVars, chainVars, stores, vacant, torn,
                 setting>>

(* ... and what it concludes. *)
TickDesires ==
  /\ tickAt = "desires" /\ tickAt' = "tests"
  /\ desired' = wish
  /\ UNCHANGED <<current, requested, requestVars, unattended, foreground, linkVars, chainVars, wish,
                 stores, seenVars, setting>>

(* The tests of pump() and, when nothing is to be asked, divergenceDue().  *)
TickTests ==
  /\ tickAt = "tests"
  /\ inFlight' = Outstanding
  /\ IF ~Outstanding /\ desired # current
     THEN tickAt' = "store" /\ wish' = desired /\ stores' = Stores /\ UNCHANGED logged
     ELSE tickAt' = "start" /\ wish' = "Idle" /\ logged' = (logged \/ Diverged) /\ UNCHANGED stores
  /\ UNCHANGED <<profileVars, asked, matched, waited, unattended, foreground, linkVars, chainVars,
                 seenVars, setting>>

(* One of pump()'s stores, in the order the compiler gives them.  The four *)
(* units count as one: the latency alone tells the profiles apart.         *)
TickStores(part) ==
  /\ tickAt = "store" /\ part \in stores /\ stores' = stores \ {part}
  /\ requested' = IF part = "requested" THEN wish ELSE requested
  /\ inFlight' = (inFlight \/ part = "inFlight")
  /\ asked' = IF part = "units" THEN wish ELSE asked
  /\ IF part = "rest" THEN matched' = FALSE /\ logged' = FALSE /\ waited' = 0
                      ELSE UNCHANGED <<matched, logged, waited>>
  /\ UNCHANGED <<desired, current, unattended, foreground, linkVars, chainVars, tickAt, wish,
                 seenVars, setting>>

(* The request goes out on whatever link is there by then. *)
TickSends ==
  /\ tickAt = "store" /\ stores = {} /\ tickAt' = "start" /\ wish' = "Idle"
  /\ IF link # "Down" THEN Start(wish) ELSE UNCHANGED <<procedure, old, clash>>
  /\ UNCHANGED <<profileVars, requestVars, unattended, foreground, link, announced, chainVars, stores,
                 seenVars, setting>>

(* A procedure is over before it has seen two ticks. *)
Clock ==
  /\ tickAt = "start" /\ ~old
  /\ waited' = IF waited > Grace THEN waited ELSE waited + 1
  /\ unattended' = IF unattended >= Holdoff THEN unattended ELSE unattended + 1
  /\ old' = (procedure # "none")
  /\ vacant' = IF foreground \/ hold = "missed" \/ vacant = Holdoff THEN vacant ELSE vacant + 1
  /\ UNCHANGED <<profileVars, inFlight, asked, matched, logged, foreground, link, announced,
                 procedure, clash, chainVars, tickVars, hold, torn, setting>>

Answered == Grant \/ Ignore \/ PhyUpdate \/ DataLength
Events   == \/ Connect \/ Disconnect \/ Opening \/ Answered \/ ForegroundChange
            \/ \E p \in Profiles \cup {"Other"} : Volunteer(p)
HostTask == (tickAt = "start" \/ setting.preempted) /\ Events

Tick     == TickLooks \/ TickDesires \/ TickTests \/ (\E part \in Stores : TickStores(part)) \/ TickSends

Next == HostTask \/ Tick \/ Clock

(* The loop keeps ticking, time passes, and a pending procedure ends: both *)
(* do so between two ticks, however often the loop begins one (SF).        *)
Spec == /\ Init /\ [][Next]_vars
        /\ WF_vars(Tick) /\ SF_vars(Clock)
        /\ SF_vars(Answered /\ tickAt = "start")

----------------------------------------------------------------------------
(* Properties. *)

(* Parameters, PHY and data length are never negotiated on top of each     *)
(* other, with a central that answers: the overlap is what used to kill    *)
(* every link after 40 s (onConnParamsUpdate, onPhyUpdate, pump).          *)
OneProcedure == setting.obliging /\ ~setting.preempted => ~clash

(* When the policy takes the link to be on the fast profile, it is, unless *)
(* the central changes it by itself or an event of the link falls among    *)
(* the stores of tick()'s request (currentProfile_ moves only on a matching *)
(* grant, and forgets the link that died).                                 *)
FastMeansFast ==
  ~setting.volunteers /\ ~torn => (current = "Session" => link = "Session")

(* A new link asks for the fast profile the moment it is up, whatever the  *)
(* previous link was doing when it died (onConnect after onDisconnect).    *)
ConnectAsksForSession ==
  [][~setting.preempted /\ link = "Down" /\ link' # "Down" => procedure' = "Session"]_vars

(* An app that keeps the screen gets the fast link, though the host task   *)
(* may run inside tick() and requests may be lost (the retry of pump) -    *)
(* unless it ran among the stores of a request.                            *)
ForegroundGetsFastLink ==
  setting.obliging /\ ~setting.volunteers =>
    (foreground ~> (link = "Session" \/ ~foreground \/ torn))

(* The link relaxes only after nobody has really held the screen for the   *)
(* whole holdoff, in particular not while the apps are still shaking hands *)
(* or handing over; only a hold too short for tick() to see is overlooked  *)
(* (setForegroundActive).                                                  *)
RelaxesAfterHoldoff ==
  [][~setting.preempted /\ procedure # "Idle" /\ procedure' = "Idle" =>
       vacant = Holdoff \/ hold = "missed"]_vars

(* A link nobody drives is asked to relax in the end (tick's promise that  *)
(* the profile matching the session state has been requested).             *)
UnattendedAsksForIdle ==
  setting.obliging /\ ~setting.preempted =>
    ((link # "Down" /\ ~foreground) ~> (requested = "Idle" \/ link = "Down" \/ foreground))

(* A request that was not honoured is reported before it is repeated       *)
(* (divergenceDue).  Does not hold: README, section 3.                     *)
ReportedBeforeRepeated == [][TickTests /\ tickAt' = "store" /\ Diverged => logged]_vars

=============================================================================
