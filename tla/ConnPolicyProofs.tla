-------------------------- MODULE ConnPolicyProofs --------------------------
(***************************************************************************)
(* TLAPS proofs about ConnPolicy, for every pair of times and every set of *)
(* centrals and schedules: its type invariant; that the policy never takes *)
(* a slow link for a fast one; that a new link asks for the fast profile   *)
(* and only an unattended one for the slow; and that no two procedures are *)
(* ever on the air together.                                               *)
(***************************************************************************)
EXTENDS ConnPolicy, TLAPS

(* What the provers need to know about the times. *)
LEMMA Times == Grace \in Nat /\ Grace >= 1 /\ Holdoff \in Nat /\ Held \in Nat /\ Held = Holdoff + 1
BY TimesAssumption DEF Held

(* The type invariant with each Boolean variable on its own. *)
Flags == /\ inFlight \in BOOLEAN /\ torn \in BOOLEAN /\ matched \in BOOLEAN
         /\ logged \in BOOLEAN /\ phyAsked \in BOOLEAN /\ dleAsked \in BOOLEAN
         /\ clash \in BOOLEAN /\ foreground \in BOOLEAN /\ announced \in BOOLEAN
         /\ old \in BOOLEAN
Values == /\ desired \in Profiles /\ current \in Profiles /\ requested \in Profiles
          /\ link \in Profiles \cup {"Other", "Down"}
          /\ procedure \in Procedures \cup {"none"}
          /\ asked \in Profiles \cup {"none"}
          /\ tickAt \in {"start", "desires", "tests", "store"} /\ wish \in Profiles
          /\ stores \subseteq Stores /\ setting \in Settings
          /\ hold \in {"none", "unseen", "seen", "missed"}
Elapsed == waited \in 0 .. Grace + 1 /\ unattended \in 0 .. Held /\ vacant \in 0 .. Holdoff

(* TypeOK is the conjunction of the three. *)
LEMMA TypeParts == TypeOK <=> Flags /\ Values /\ Elapsed
BY DEF TypeOK, Flags, Values, Elapsed

(* The same after a step. *)
LEMMA TypePartsNext == TypeOK' <=> Flags' /\ Values' /\ Elapsed'
BY DEF TypeOK, Flags, Values, Elapsed

(* The initial state has its types. *)
LEMMA TypeInit == Init => TypeOK
<1> SUFFICES ASSUME Init PROVE Flags /\ Values /\ Elapsed
  BY TypeParts
<1>1. Flags
  BY DEF Init, Flags
<1>2. Values
  BY DEF Init, Values, Profiles, Procedures
<1>3. Elapsed
  BY Times DEF Init, Elapsed
<1> QED
  BY <1>1, <1>2, <1>3

(* An update of the parameters keeps the types. *)
LEMMA UpdateType ==
  ASSUME Flags, Values, Elapsed, NEW p \in Profiles \cup {"Other"},
         NEW before \in Procedures \cup {"none"},
         ParamsUpdate(p, before), announced' = TRUE
  PROVE  Flags' /\ Values' /\ Elapsed'
<1>1. Matches(p) \in BOOLEAN
  BY DEF Matches, Flags
<1>2. Flags'
  BY <1>1 DEF Flags, ParamsUpdate, LinkEvent, Storing
<1>3. Values'
  BY DEF Values, ParamsUpdate, Procedures, Profiles, tickVars
<1>4. Elapsed'
  BY DEF Elapsed, ParamsUpdate
<1> QED
  BY <1>2, <1>3, <1>4

(* A request keeps the types. *)
LEMMA StartType ==
  ASSUME Flags, Values, NEW p \in Profiles, Start(p)
  PROVE  old' \in BOOLEAN /\ clash' \in BOOLEAN /\ procedure' \in Procedures \cup {"none"}
<1>1. procedure' \in Procedures \cup {"none"}
  BY DEF Start, Values, Procedures
<1>2. old' \in BOOLEAN /\ clash' \in BOOLEAN
  BY DEF Start, Flags
<1> QED
  BY <1>1, <1>2

(* Events of the host task keep the types. *)
LEMMA TypeEvents == ASSUME Flags, Values, Elapsed, Events PROVE Flags' /\ Values' /\ Elapsed'
<1>0. Outstanding \in BOOLEAN
  BY DEF Outstanding, Flags
<1>1. CASE Connect
  <2>1. CASE Outstanding \/ current = "Session"
    <3>1. Flags'
      BY <1>0, <1>1, <2>1 DEF Connect, Flags, LinkEvent, Storing
    <3>2. Values'
      BY <1>1, <2>1 DEF Connect, Values, Profiles, tickVars
    <3>3. Elapsed'
      BY <1>1, <2>1, Times DEF Connect, Elapsed
    <3> QED
      BY <3>1, <3>2, <3>3
  <2>2. CASE ~(Outstanding \/ current = "Session")
    <3>1. Ask("Session")
      BY <1>1, <2>2 DEF Connect
    <3>2. Start("Session") /\ "Session" \in Profiles
      BY <3>1 DEF Ask, Profiles
    <3>3. old' \in BOOLEAN /\ clash' \in BOOLEAN /\ procedure' \in Procedures \cup {"none"}
      BY <3>2, StartType
    <3>4. Flags'
      BY <1>1, <3>1, <3>3 DEF Connect, Ask, Flags, LinkEvent, Storing
    <3>5. Values'
      BY <1>1, <3>1, <3>3 DEF Connect, Ask, Values, Profiles, tickVars
    <3>6. Elapsed'
      BY <1>1, <3>1, Times DEF Connect, Ask, Elapsed
    <3> QED
      BY <3>4, <3>5, <3>6
  <2> QED
    BY <2>1, <2>2
<1>2. CASE Disconnect
  <2>1. Flags'
    BY <1>2 DEF Disconnect, Flags, chainVars, Storing
  <2>2. Values'
    BY <1>2 DEF Disconnect, Values, ProfileAfterDrop, Profiles, Procedures, tickVars
  <2>3. Elapsed'
    BY <1>2, Times DEF Disconnect, Elapsed
  <2> QED
    BY <2>1, <2>2, <2>3
<1>3. CASE Opening
  <2>1. ParamsUpdate("Other", procedure) /\ announced' = TRUE
    BY <1>3 DEF Opening
  <2> QED
    BY <2>1, UpdateType DEF Values
<1>4. CASE Grant
  <2>1. ParamsUpdate(procedure, "none") /\ announced' = TRUE /\ procedure \in Profiles
    BY <1>4 DEF Grant
  <2> QED
    BY <2>1, UpdateType DEF Values
<1>5. CASE Ignore
  <2>1. Flags' /\ Elapsed'
    BY <1>5 DEF Ignore, Flags, Elapsed, requestVars, chainVars, seenVars
  <2>2. Values'
    BY <1>5 DEF Ignore, Values, profileVars, requestVars, tickVars, seenVars
  <2> QED
    BY <2>1, <2>2
<1>6. CASE PhyUpdate
  <2>1. Flags' /\ Elapsed'
    BY <1>6 DEF PhyUpdate, Flags, Elapsed, requestVars, seenVars
  <2>2. Values'
    BY <1>6 DEF PhyUpdate, Values, profileVars, requestVars, tickVars, seenVars, Procedures
  <2> QED
    BY <2>1, <2>2
<1>7. CASE DataLength
  <2>1. Flags' /\ Elapsed'
    BY <1>7 DEF DataLength, Flags, Elapsed, requestVars, chainVars, seenVars
  <2>2. Values'
    BY <1>7 DEF DataLength, Values, profileVars, requestVars, tickVars, seenVars
  <2> QED
    BY <2>1, <2>2
<1>8. CASE ForegroundChange
  <2>1. Flags' /\ Elapsed'
    BY <1>8, Times DEF ForegroundChange, Flags, Elapsed, requestVars, chainVars, linkVars
  <2>2. Values'
    BY <1>8 DEF ForegroundChange, Values, profileVars, requestVars, linkVars, tickVars
  <2> QED
    BY <2>1, <2>2
<1>9. ASSUME NEW p \in Profiles \cup {"Other"}, Volunteer(p) PROVE Flags' /\ Values' /\ Elapsed'
  <2>1. ParamsUpdate(p, procedure) /\ announced' = TRUE
    BY <1>9 DEF Volunteer
  <2> QED
    BY <2>1, UpdateType DEF Values
<1> QED
  BY <1>1, <1>2, <1>3, <1>4, <1>5, <1>6, <1>7, <1>8, <1>9 DEF Events, Answered

(* Every step keeps the types. *)
LEMMA TypeStep == TypeOK /\ [Next]_vars => TypeOK'
<1> SUFFICES ASSUME Flags, Values, Elapsed, [Next]_vars PROVE Flags' /\ Values' /\ Elapsed'
  BY TypeParts, TypePartsNext
<1>0. Outstanding \in BOOLEAN
  BY DEF Outstanding, Flags
<1>1. CASE HostTask
  BY <1>1, TypeEvents DEF HostTask
<1>2. CASE TickLooks
  <2>1. Flags'
    BY <1>2 DEF TickLooks, Flags, requestVars, linkVars, chainVars
  <2>2. Values'
    BY <1>2 DEF TickLooks, Wanted, Values, Profiles, profileVars, requestVars, linkVars
  <2>3. Elapsed'
    BY <1>2, Times DEF TickLooks, Elapsed, requestVars
  <2> QED
    BY <2>1, <2>2, <2>3
<1>3. CASE TickDesires
  <2>1. Flags' /\ Elapsed'
    BY <1>3 DEF TickDesires, Flags, Elapsed, requestVars, linkVars, chainVars, seenVars
  <2>2. Values'
    BY <1>3 DEF TickDesires, Values, requestVars, linkVars, seenVars
  <2> QED
    BY <2>1, <2>2
<1>4. CASE TickTests
  <2>1. Diverged \in BOOLEAN
    BY DEF Diverged, Flags
  <2>2. Flags'
    BY <1>0, <1>4, <2>1 DEF TickTests, Flags, linkVars, chainVars, seenVars
  <2>3. Values'
    BY <1>4 DEF TickTests, Values, Profiles, profileVars, linkVars, seenVars
  <2>4. Elapsed'
    BY <1>4 DEF TickTests, Elapsed, seenVars
  <2> QED
    BY <2>2, <2>3, <2>4
<1>5. ASSUME NEW part \in Stores, TickStores(part) PROVE Flags' /\ Values' /\ Elapsed'
  <2>1. Flags'
    BY <1>5 DEF TickStores, Flags, linkVars, chainVars, seenVars
  <2>2. Values'
    BY <1>5 DEF TickStores, Values, linkVars, seenVars
  <2>3. Elapsed'
    BY <1>5, Times DEF TickStores, Elapsed, seenVars
  <2> QED
    BY <2>1, <2>2, <2>3
<1>6. CASE TickSends
  <2>1. old' \in BOOLEAN /\ clash' \in BOOLEAN /\ procedure' \in Procedures \cup {"none"}
    BY <1>6, StartType DEF TickSends, Flags, Values
  <2>2. Flags' /\ Elapsed'
    BY <1>6, <2>1 DEF TickSends, Flags, Elapsed, requestVars, chainVars, seenVars
  <2>3. Values'
    BY <1>6, <2>1 DEF TickSends, Values, Profiles, profileVars, requestVars, seenVars
  <2> QED
    BY <2>2, <2>3
<1>7. CASE Clock
  <2>1. Flags'
    BY <1>7 DEF Clock, Flags, chainVars
  <2>2. Values'
    BY <1>7 DEF Clock, Values, profileVars, tickVars
  <2>3. Elapsed'
    BY <1>7, Times DEF Clock, Elapsed
  <2> QED
    BY <2>1, <2>2, <2>3
<1>8. CASE UNCHANGED vars
  BY <1>8 DEF vars, profileVars, requestVars, linkVars, chainVars, tickVars, seenVars,
              Flags, Values, Elapsed
<1> QED
  BY <1>1, <1>2, <1>3, <1>4, <1>5, <1>6, <1>7, <1>8 DEF Next, Tick

(* The variables of the policy and of the link have their types, for every *)
(* grace time, holdoff, central and schedule.                              *)
THEOREM PolicyTyping == Spec => []TypeOK
<1>1. Init => TypeOK
  BY TypeInit
<1>2. TypeOK /\ [Next]_vars => TypeOK'
  BY TypeStep
<1> QED
  BY <1>1, <1>2, PTL DEF Spec

----------------------------------------------------------------------------

(* What makes FastMeansFast inductive. A grant makes the profile last      *)
(* requested the current one, so: a request and its units go together,     *)
(* once stored, and the slow profile counts as requested before the first  *)
(* one; and while the link is taken to be fast, the only slow update that  *)
(* can come in is the one asked for, with no request for the fast profile  *)
(* about to displace it.                                                   *)
AsksWhatIsRequested == ~Storing => requested = IF asked = "none" THEN "Idle" ELSE asked
StoredSoFar ==
  Storing => /\ "requested" \notin stores => requested = wish
             /\ "units" \notin stores => asked = wish
SlowUpdateIsAsked ==
  current = "Session" =>
    /\ link = "Session"
    /\ procedure = "Idle" => requested = "Idle" /\ (tickAt = "store" => wish = "Idle")

FastInv == ~torn => /\ AsksWhatIsRequested /\ StoredSoFar
                    /\ ~setting.volunteers => SlowUpdateIsAsked

(* An event of the link among the stores of a request is what FastInv      *)
(* excuses; elsewhere it finds the request whole.                          *)
LEMMA UpdateKeepsRequest ==
  ASSUME FastInv, NEW p, NEW before, ParamsUpdate(p, before), ~torn'
  PROVE  ~torn /\ ~Storing /\ AsksWhatIsRequested /\ AsksWhatIsRequested' /\ StoredSoFar'
<1>1. ~torn /\ ~Storing
  BY DEF ParamsUpdate, LinkEvent
<1>2. Storing' = Storing /\ requested' = requested /\ asked' = asked
  BY DEF ParamsUpdate, Storing, tickVars
<1> QED
  BY <1>1, <1>2 DEF FastInv, AsksWhatIsRequested, StoredSoFar

(* An update the firmware has reason to expect: the central's opening one  *)
(* on a link that is not fast, or the grant of the pending request.        *)
LEMMA UpdateCoherent ==
  ASSUME ~Storing, AsksWhatIsRequested, SlowUpdateIsAsked, NEW p, NEW before,
         ParamsUpdate(p, before), before = "Idle" => current # "Session" /\ p # "Session",
         p = "Session" \/ current # "Session" \/ (p = "Idle" /\ requested = "Idle")
  PROVE  SlowUpdateIsAsked'
<1>1. link' = p /\ requested' = requested /\ tickAt' = tickAt /\ wish' = wish
  BY DEF ParamsUpdate, tickVars
<1>2. current' = IF Matches(p) THEN requested ELSE current
  BY DEF ParamsUpdate
<1>3. procedure' \in {"phy", before}
  BY DEF ParamsUpdate
<1>4. current' = "Session" => p = "Session" /\ procedure' # "Idle"
  BY <1>2, <1>3 DEF Matches, AsksWhatIsRequested
<1> QED
  BY <1>1, <1>4 DEF SlowUpdateIsAsked

(* A step of the host task keeps the invariant. *)
LEMMA EventsCoherent == ASSUME FastInv, Events PROVE FastInv'
<1>0. setting' = setting
  BY DEF Events, Answered, Connect, Disconnect, Opening, Grant, Ignore, PhyUpdate, DataLength,
         ForegroundChange, Volunteer, ParamsUpdate
<1>1. CASE Connect
  <2> SUFFICES ASSUME ~torn' PROVE FastInv'
    BY DEF FastInv
  <2>1. ~torn /\ ~Storing /\ ~Storing' /\ UNCHANGED tickVars
    BY <1>1 DEF Connect, LinkEvent, Storing, tickVars
  <2>2. AsksWhatIsRequested /\ (~setting.volunteers => SlowUpdateIsAsked)
    BY <2>1 DEF FastInv
  <2>3. AsksWhatIsRequested' /\ StoredSoFar'
    BY <1>1, <2>1, <2>2 DEF Connect, Ask, AsksWhatIsRequested, StoredSoFar
  <2>4. ~setting.volunteers => SlowUpdateIsAsked'
    BY <1>1, <2>1, <2>2 DEF Connect, SlowUpdateIsAsked
  <2> QED
    BY <1>0, <2>3, <2>4 DEF FastInv
<1>2. CASE Disconnect
  <2>1. torn' \/ ~Storing'
    BY <1>2 DEF Disconnect, Storing, tickVars
  <2> QED
    BY <1>2, <2>1 DEF Disconnect, ProfileAfterDrop, FastInv, AsksWhatIsRequested, StoredSoFar,
                      SlowUpdateIsAsked
<1>3. CASE Opening
  <2>1. ParamsUpdate("Other", procedure) /\ link = "Other"
    BY <1>3 DEF Opening
  <2> SUFFICES ASSUME ~torn' PROVE FastInv'
    BY DEF FastInv
  <2>2. ~torn /\ ~Storing /\ AsksWhatIsRequested /\ AsksWhatIsRequested' /\ StoredSoFar'
    BY <2>1, UpdateKeepsRequest
  <2>3. ASSUME ~setting.volunteers PROVE SlowUpdateIsAsked'
    <3>1. SlowUpdateIsAsked /\ current # "Session"
      BY <2>1, <2>2, <2>3 DEF FastInv, SlowUpdateIsAsked
    <3> QED
      BY <2>1, <2>2, <3>1, UpdateCoherent
  <2> QED
    BY <1>0, <2>2, <2>3 DEF FastInv
<1>4. CASE Grant
  <2>1. ParamsUpdate(procedure, "none") /\ procedure \in Profiles
    BY <1>4 DEF Grant
  <2> SUFFICES ASSUME ~torn' PROVE FastInv'
    BY DEF FastInv
  <2>2. ~torn /\ ~Storing /\ AsksWhatIsRequested /\ AsksWhatIsRequested' /\ StoredSoFar'
    BY <2>1, UpdateKeepsRequest
  <2>3. ASSUME ~setting.volunteers PROVE SlowUpdateIsAsked'
    <3>1. SlowUpdateIsAsked
      BY <2>2, <2>3 DEF FastInv
    <3>2. procedure = "Session" \/ current # "Session" \/ (procedure = "Idle" /\ requested = "Idle")
      BY <2>1, <3>1 DEF Profiles, SlowUpdateIsAsked
    <3> QED
      BY <2>1, <2>2, <3>1, <3>2, UpdateCoherent
  <2> QED
    BY <1>0, <2>2, <2>3 DEF FastInv
<1>5. CASE Ignore \/ PhyUpdate \/ DataLength
  BY <1>0, <1>5 DEF Ignore, PhyUpdate, DataLength, profileVars, requestVars, tickVars, seenVars,
                    FastInv, Storing, AsksWhatIsRequested, StoredSoFar, SlowUpdateIsAsked
<1>6. CASE ForegroundChange
  BY <1>0, <1>6 DEF ForegroundChange, profileVars, requestVars, linkVars, tickVars,
                    FastInv, Storing, AsksWhatIsRequested, StoredSoFar, SlowUpdateIsAsked
<1>7. ASSUME NEW p \in Profiles \cup {"Other"}, Volunteer(p) PROVE FastInv'
  <2>1. setting.volunteers /\ ParamsUpdate(p, procedure)
    BY <1>7 DEF Volunteer
  <2>2. ~torn' => AsksWhatIsRequested' /\ StoredSoFar'
    BY <2>1, UpdateKeepsRequest
  <2> QED
    BY <1>0, <2>1, <2>2 DEF FastInv
<1> QED
  BY <1>1, <1>2, <1>3, <1>4, <1>5, <1>6, <1>7 DEF Events, Answered

(* A step of tick() keeps the invariant. *)
LEMMA TickCoherent == ASSUME Values, FastInv, Tick PROVE FastInv'
<1>0. setting' = setting /\ torn' = torn
  BY DEF Tick, TickLooks, TickDesires, TickTests, TickStores, TickSends, seenVars
<1> SUFFICES ASSUME ~torn
             PROVE  AsksWhatIsRequested' /\ StoredSoFar' /\ (~setting.volunteers => SlowUpdateIsAsked')
  BY <1>0 DEF FastInv
<1>1. AsksWhatIsRequested /\ StoredSoFar /\ (~setting.volunteers => SlowUpdateIsAsked)
  BY DEF FastInv
<1>2. CASE TickLooks \/ TickDesires
  BY <1>1, <1>2 DEF TickLooks, TickDesires, profileVars, requestVars, linkVars, Storing,
                    AsksWhatIsRequested, StoredSoFar, SlowUpdateIsAsked
<1>3. CASE TickTests
  <2>1. UNCHANGED <<current, requested, asked, link, procedure>>
        /\ ~Storing /\ ~Storing'
    BY <1>3 DEF TickTests, profileVars, linkVars, Storing
  <2>2. tickAt' = "store" => wish' = desired /\ desired # current
    BY <1>3 DEF TickTests
  <2>3. tickAt' = "store" /\ current = "Session" => wish' = "Idle"
    BY <2>2 DEF Values, Profiles
  <2> QED
    BY <1>1, <2>1, <2>3 DEF AsksWhatIsRequested, StoredSoFar, SlowUpdateIsAsked
<1>4. ASSUME NEW part \in Stores, TickStores(part)
      PROVE  AsksWhatIsRequested' /\ StoredSoFar' /\ (~setting.volunteers => SlowUpdateIsAsked')
  <2>1. /\ tickAt = "store" /\ tickAt' = "store" /\ part \in stores /\ stores' = stores \ {part}
        /\ requested' = (IF part = "requested" THEN wish ELSE requested)
        /\ asked' = (IF part = "units" THEN wish ELSE asked)
        /\ UNCHANGED <<current, link, procedure, wish>>
    BY <1>4 DEF TickStores, linkVars
  <2>2. Storing'
    BY <2>1 DEF Storing, Stores
  <2>3. StoredSoFar'
    BY <1>1, <2>1 DEF StoredSoFar, Storing, Stores
  <2> QED
    BY <1>1, <2>1, <2>2, <2>3 DEF AsksWhatIsRequested, SlowUpdateIsAsked
<1>5. CASE TickSends
  <2>1. Storing /\ requested = wish /\ asked = wish /\ ~Storing'
    BY <1>1, <1>5 DEF TickSends, Storing, StoredSoFar, Stores
  <2>2. UNCHANGED <<current, requested, asked, link>> /\ tickAt' = "start"
        /\ procedure' \in {procedure, wish}
    BY <1>5 DEF TickSends, Start, profileVars, requestVars
  <2> QED
    BY <1>1, <2>1, <2>2 DEF Values, Profiles, AsksWhatIsRequested, StoredSoFar, SlowUpdateIsAsked
<1> QED
  BY <1>2, <1>3, <1>4, <1>5 DEF Tick

(* Every step keeps the invariant. *)
LEMMA FastStep == TypeOK /\ FastInv /\ [Next]_vars => FastInv'
<1> SUFFICES ASSUME Values, FastInv, [Next]_vars PROVE FastInv'
  BY TypeParts
<1>1. CASE HostTask
  BY <1>1, EventsCoherent DEF HostTask
<1>2. CASE Tick
  BY <1>2, TickCoherent
<1>3. CASE Clock
  BY <1>3 DEF Clock, profileVars, tickVars, FastInv, Storing, AsksWhatIsRequested, StoredSoFar,
              SlowUpdateIsAsked
<1>4. CASE UNCHANGED vars
  BY <1>4 DEF vars, profileVars, requestVars, linkVars, tickVars, seenVars, FastInv, Storing,
              AsksWhatIsRequested, StoredSoFar, SlowUpdateIsAsked
<1> QED
  BY <1>1, <1>2, <1>3, <1>4 DEF Next

(* The policy takes no slow link for a fast one, whether the central       *)
(* grants or ignores what it is asked, and though the host task may run    *)
(* inside tick(): only a central that changes parameters by itself and an  *)
(* event of the link among the stores of a request can mislead it.         *)
THEOREM FastIsFast == Spec => []FastMeansFast
<1>1. Init => TypeOK /\ FastInv
  <2>1. Init => FastInv
    BY DEF Init, FastInv, Storing, AsksWhatIsRequested, StoredSoFar, SlowUpdateIsAsked
  <2> QED
    BY <2>1, TypeInit
<1>2. TypeOK /\ FastInv /\ [Next]_vars => (TypeOK /\ FastInv)'
  BY TypeStep, FastStep
<1>3. FastInv => FastMeansFast
  BY DEF FastInv, SlowUpdateIsAsked, FastMeansFast
<1> QED
  BY <1>1, <1>2, <1>3, PTL DEF Spec

----------------------------------------------------------------------------
(* A link that is down is at rest: no procedure, no request outstanding,   *)
(* the slow profile.                                                       *)
DownAtRest ==
  ~setting.preempted /\ link = "Down" =>
    procedure = "none" /\ ~inFlight /\ current = "Idle" /\ tickAt = "start"

RestInv == TypeOK /\ DownAtRest

LEMMA RestStep == RestInv /\ [Next]_vars => RestInv'
<1> SUFFICES ASSUME RestInv, [Next]_vars PROVE DownAtRest'
  BY TypeStep DEF RestInv
<1>0. DownAtRest /\ setting' = setting
  BY DEF RestInv, Next, HostTask, Events, Answered, Connect, Disconnect, Opening, Grant, Ignore,
         PhyUpdate, DataLength, ForegroundChange, Volunteer, ParamsUpdate, Tick, TickLooks,
         TickDesires, TickTests, TickStores, TickSends, Clock, vars
<1> SUFFICES ASSUME ~setting.preempted, link' = "Down"
             PROVE  procedure' = "none" /\ ~inFlight' /\ current' = "Idle" /\ tickAt' = "start"
  BY <1>0 DEF DownAtRest
<1>1. CASE HostTask
  <2>1. tickAt = "start"
    BY <1>1 DEF HostTask
  <2>2. tickAt' = "start"
    BY <1>1, <2>1 DEF HostTask, Events, Answered, Connect, Disconnect, Opening, Grant, Ignore,
         PhyUpdate, DataLength, ForegroundChange, Volunteer, ParamsUpdate, tickVars
  <2>3. CASE Disconnect
    BY <2>2, <2>3 DEF Disconnect, ProfileAfterDrop
  <2>4. CASE Connect
    BY <2>2, <2>4 DEF Connect
  <2>5. CASE Opening
    BY <2>2, <2>5 DEF Opening, ParamsUpdate
  <2>6. CASE Grant
    BY <2>2, <2>6 DEF Grant, ParamsUpdate, Profiles
  <2>7. ASSUME NEW p \in Profiles \cup {"Other"}, Volunteer(p) PROVE FALSE
    BY <2>7 DEF Volunteer, ParamsUpdate, Profiles
  <2>8. CASE Ignore \/ PhyUpdate \/ DataLength
    BY <1>0, <2>2, <2>8 DEF Ignore, PhyUpdate, DataLength, Profiles, DownAtRest
  <2>9. CASE ForegroundChange
    BY <2>2, <2>9 DEF ForegroundChange, linkVars
  <2> QED
    BY <1>1, <2>3, <2>4, <2>5, <2>6, <2>7, <2>8, <2>9 DEF HostTask, Events, Answered
<1>2. CASE Tick
  <2>1. link = "Down" /\ tickAt # "start"
    BY <1>2 DEF Tick, TickLooks, TickDesires, TickTests, TickStores, TickSends, linkVars
  <2> QED
    BY <1>0, <2>1 DEF DownAtRest
<1>3. CASE Clock
  BY <1>0, <1>3 DEF Clock, DownAtRest, profileVars, tickVars
<1>4. CASE UNCHANGED vars
  BY <1>0, <1>4 DEF vars, profileVars, requestVars, linkVars, tickVars, DownAtRest
<1> QED
  BY <1>1, <1>2, <1>3, <1>4 DEF Next

LEMMA AtRest == Spec => []RestInv
<1>1. Init => RestInv
  BY TypeInit DEF Init, RestInv, DownAtRest
<1> QED
  BY <1>1, RestStep, PTL DEF Spec

(* Whatever the last link was doing when it died, a new one asks for the   *)
(* fast profile the moment it is up (onConnect after onDisconnect), for    *)
(* every grace time, holdoff and central, as long as the host task does    *)
(* not run inside tick().                                                  *)
THEOREM NewLinkAsksForSession == Spec => ConnectAsksForSession
<1>1. RestInv /\ [Next]_vars =>
        [~setting.preempted /\ link = "Down" /\ link' # "Down" => procedure' = "Session"]_vars
  <2> SUFFICES ASSUME RestInv, Next, ~setting.preempted, link = "Down", link' # "Down"
               PROVE  procedure' = "Session"
    OBVIOUS
  <2>1. procedure = "none" /\ ~inFlight /\ current = "Idle"
    BY DEF RestInv, DownAtRest
  <2>2. Connect
    BY <2>1 DEF Next, HostTask, Events, Answered, Disconnect, Opening, Grant, Ignore, PhyUpdate,
         DataLength, ForegroundChange, Volunteer, Tick, TickLooks, TickDesires, TickTests,
         TickStores, TickSends, Clock, linkVars, Profiles
  <2> QED
    BY <2>1, <2>2 DEF Connect, Outstanding, Ask, Start
<1> QED
  BY <1>1, AtRest, PTL DEF Spec, ConnectAsksForSession

----------------------------------------------------------------------------
(* The policy's own clock, unattended, is set by tick()'s looks, so it is  *)
(* behind the real one: while no hold was missed it shows no more than has *)
(* passed since the last hold ended.                                       *)
ClockBehind ==
  /\ link = "Down" => ~foreground /\ hold = "none" /\ procedure = "none"
  /\ link # "Down" =>
       /\ hold = "none" => ~foreground /\ (unattended = Held \/ unattended <= vacant)
       /\ hold \in {"unseen", "seen"} => foreground
       /\ hold = "seen" => unattended = Held

(* What tick() has concluded from it, step by step, is still so.           *)
Overdue == vacant = Holdoff \/ hold = "missed"
WishesInTime ==
  ~setting.preempted => /\ tickAt \in {"desires", "store"} /\ wish = "Idle" => Overdue
                        /\ tickAt = "tests" /\ desired = "Idle" => Overdue

ClockInv == TypeOK /\ ClockBehind /\ WishesInTime

LEMMA EventsClock == ASSUME TypeOK, ClockBehind, Events PROVE ClockBehind'
<1>0. /\ unattended \in Nat /\ vacant \in Nat /\ hold \in {"none", "unseen", "seen", "missed"}
      /\ Holdoff \in Nat /\ Held = Holdoff + 1 /\ Held' = Held
  BY Times DEF TypeOK, Held
<1>1. CASE Connect
  BY <1>0, <1>1 DEF Connect, ClockBehind
<1>2. CASE Disconnect
  BY <1>2 DEF Disconnect, ClockBehind
<1>3. CASE ForegroundChange
  BY <1>0, <1>3 DEF ForegroundChange, linkVars, ClockBehind
<1>4. ASSUME NEW p \in Profiles \cup {"Other"}, NEW before, link # "Down", ParamsUpdate(p, before)
      PROVE  ClockBehind'
  BY <1>0, <1>4 DEF ParamsUpdate, ClockBehind, Profiles
<1>5. CASE Ignore \/ PhyUpdate \/ DataLength
  BY <1>0, <1>5 DEF Ignore, PhyUpdate, DataLength, seenVars, ClockBehind
<1>6. CASE Opening
  BY <1>4, <1>6 DEF Opening, Profiles
<1>7. CASE Grant
  <2>1. link # "Down" /\ procedure \in Profiles
    BY <1>7 DEF Grant, ClockBehind, Profiles
  <2> QED
    BY <1>4, <1>7, <2>1 DEF Grant
<1>8. ASSUME NEW p \in Profiles \cup {"Other"}, Volunteer(p) PROVE ClockBehind'
  BY <1>4, <1>8 DEF Volunteer
<1> QED
  BY <1>1, <1>2, <1>3, <1>5, <1>6, <1>7, <1>8 DEF Events, Answered

LEMMA ClockStep == ClockInv /\ [Next]_vars => ClockInv'
<1> SUFFICES ASSUME ClockInv, [Next]_vars PROVE ClockBehind' /\ WishesInTime'
  BY TypeStep DEF ClockInv
<1>0. /\ TypeOK /\ ClockBehind /\ WishesInTime
      /\ unattended \in Nat /\ unattended <= Held /\ vacant \in Nat /\ vacant <= Holdoff
      /\ hold \in {"none", "unseen", "seen", "missed"}
      /\ Holdoff \in Nat /\ Held = Holdoff + 1 /\ Held' = Held
  BY Times DEF ClockInv, TypeOK, Held
<1>1. CASE HostTask
  <2>1. ClockBehind'
    BY <1>0, <1>1, EventsClock DEF HostTask
  <2>2. setting' = setting /\ tickAt' = tickAt
    BY <1>1 DEF HostTask, Events, Answered, Connect, Disconnect, Opening, Grant, Ignore,
         PhyUpdate, DataLength, ForegroundChange, Volunteer, ParamsUpdate, tickVars
  <2>3. setting.preempted \/ tickAt = "start"
    BY <1>1 DEF HostTask
  <2> QED
    BY <2>1, <2>2, <2>3 DEF WishesInTime
<1>2. CASE TickLooks
  <2>1. link # "Down" /\ link' = link /\ vacant' = vacant /\ foreground' = foreground /\ setting' = setting
        /\ hold' = (IF foreground THEN "seen" ELSE hold) /\ tickAt' = "desires"
    BY <1>2 DEF TickLooks, linkVars
  <2>2. unattended' = (IF foreground THEN Held ELSE IF unattended = Held THEN 0 ELSE unattended)
    BY <1>2 DEF TickLooks
  <2>3. ClockBehind'
    BY <1>0, <2>1, <2>2 DEF ClockBehind
  <2>4. wish' = "Idle" => ~foreground /\ unattended = Holdoff
    <3>1. wish' = Wanted(foreground, IF unattended = Held THEN 0 ELSE unattended)
      BY <1>2 DEF TickLooks
    <3>2. Holdoff > 0
      BY TimesAssumption
    <3> QED
      BY <1>0, <3>1, <3>2 DEF Wanted
  <2>5. wish' = "Idle" => Overdue'
    BY <1>0, <2>1, <2>4 DEF ClockBehind, Overdue
  <2> QED
    BY <2>1, <2>3, <2>5 DEF WishesInTime
<1>3. CASE TickDesires
  <2>1. UNCHANGED <<link, foreground, hold, procedure, unattended, vacant, setting, wish>>
        /\ tickAt = "desires" /\ tickAt' = "tests" /\ desired' = wish
    BY <1>3 DEF TickDesires, linkVars, seenVars
  <2> QED
    BY <1>0, <2>1 DEF ClockBehind, WishesInTime, Overdue
<1>4. CASE TickTests
  <2>1. UNCHANGED <<link, foreground, hold, procedure, unattended, vacant, setting, desired>>
        /\ tickAt = "tests"
        /\ (tickAt' = "start" \/ (tickAt' = "store" /\ wish' = desired))
    BY <1>4 DEF TickTests, profileVars, linkVars, seenVars
  <2> QED
    BY <1>0, <2>1 DEF ClockBehind, WishesInTime, Overdue
<1>5. ASSUME NEW part \in Stores, TickStores(part) PROVE ClockBehind' /\ WishesInTime'
  <2>1. UNCHANGED <<link, foreground, hold, procedure, unattended, vacant, setting, tickAt, wish, desired>>
    BY <1>5 DEF TickStores, linkVars, seenVars
  <2> QED
    BY <1>0, <2>1 DEF ClockBehind, WishesInTime, Overdue
<1>6. CASE TickSends
  <2>1. UNCHANGED <<link, foreground, hold, unattended, vacant, setting>> /\ tickAt' = "start"
        /\ (link = "Down" => procedure' = procedure)
    BY <1>6 DEF TickSends, seenVars
  <2> QED
    BY <1>0, <2>1 DEF ClockBehind, WishesInTime
<1>7. CASE Clock
  <2>1. UNCHANGED <<link, foreground, hold, procedure, setting>> /\ tickAt = "start" /\ tickAt' = "start"
        /\ unattended' = (IF unattended >= Holdoff THEN unattended ELSE unattended + 1)
        /\ vacant' = (IF foreground \/ hold = "missed" \/ vacant = Holdoff THEN vacant ELSE vacant + 1)
    BY <1>7 DEF Clock, tickVars
  <2> QED
    BY <1>0, <2>1 DEF ClockBehind, WishesInTime
<1>8. CASE UNCHANGED vars
  BY <1>0, <1>8 DEF vars, profileVars, linkVars, tickVars, seenVars, ClockBehind, WishesInTime, Overdue
<1> QED
  BY <1>1, <1>2, <1>3, <1>4, <1>5, <1>6, <1>7, <1>8 DEF Next, Tick

(* The link is asked to relax only after nobody has held the screen for    *)
(* the whole holdoff, as a clock of its own measures it, or a hold was too *)
(* short for tick() to see; for every grace time, holdoff and central, as  *)
(* long as the host task does not run inside tick().                       *)
THEOREM RelaxesOnlyUnattended == Spec => RelaxesAfterHoldoff
<1>1. Init => ClockInv
  <2>1. Init => ClockBehind /\ WishesInTime
    BY DEF Init, ClockBehind, WishesInTime
  <2> QED
    BY <2>1, TypeInit DEF ClockInv
<1>2. ClockInv /\ [Next]_vars =>
        [~setting.preempted /\ procedure # "Idle" /\ procedure' = "Idle" =>
           vacant = Holdoff \/ hold = "missed"]_vars
  <2> SUFFICES ASSUME ClockInv, Next, ~setting.preempted, procedure # "Idle", procedure' = "Idle"
               PROVE  Overdue
    BY DEF Overdue
  <2>1. TickSends
    BY DEF Next, HostTask, Events, Answered, Connect, Ask, Start, Disconnect, Opening, Grant, Ignore,
         PhyUpdate, DataLength, ForegroundChange, Volunteer, ParamsUpdate, Tick, TickLooks,
         TickDesires, TickTests, TickStores, Clock, linkVars
  <2>2. tickAt = "store" /\ wish = "Idle"
    BY <2>1 DEF TickSends, Start
  <2> QED
    BY <2>2 DEF ClockInv, WishesInTime
<1> QED
  BY <1>1, <1>2, ClockStep, PTL DEF Spec, RelaxesAfterHoldoff

----------------------------------------------------------------------------
(* A chain of procedures, with a central that answers.  A pending procedure*)
(* has seen one tick at most; the chain - parameters, PHY, data length - is*)
(* run once a link, so it is over while the link is still unattended for   *)
(* less than the holdoff, and until then tick() wants what it already has. *)
Ticks == IF old THEN 1 ELSE 0
Recent(n) == unattended = Held \/ unattended <= n + Ticks

AskedIsPending ==
  tickAt # "store" =>
    /\ inFlight <=> procedure \in Profiles
    /\ procedure \in Profiles => asked = procedure /\ requested = procedure /\ waited <= Ticks
ChainOnTime ==
  /\ link # "Down" /\ ~phyAsked => procedure = "Session" /\ Recent(0)
  /\ procedure \in {"phy", "dle"} => current = "Session" /\ requested = "Session" /\ phyAsked
  /\ procedure = "phy" => Recent(1)
  /\ procedure = "dle" => Recent(2)

(* What tick() has concluded meanwhile: it wants what the chain needs, and *)
(* it makes a request, store by store, only when no procedure is pending.  *)
WantsChain ==
  procedure \in {"phy", "dle"} => /\ tickAt = "desires" => wish = "Session"
                                  /\ tickAt = "tests" => desired = "Session"
AsksAlone ==
  tickAt = "store" => /\ procedure = "none"
                      /\ "requested" \notin stores => requested = wish
                      /\ "inFlight" \notin stores => inFlight
                      /\ "units" \notin stores => asked = wish
                      /\ "rest" \notin stores => waited = 0

Chain == ~clash /\ AskedIsPending /\ ChainOnTime /\ WantsChain /\ AsksAlone
Cooperative == setting.obliging /\ ~setting.preempted
ChainInv == RestInv /\ (Cooperative => Chain)

LEMMA ChainInit == Init => ChainInv
<1> SUFFICES ASSUME Init PROVE ChainInv
  OBVIOUS
<1>1. RestInv
  BY TypeInit DEF Init, RestInv, DownAtRest
<1>2. Chain
  BY Times DEF Init, Chain, AskedIsPending, ChainOnTime, WantsChain, AsksAlone, Ticks, Profiles
<1> QED
  BY <1>1, <1>2 DEF ChainInv

(* The host task's events, with tick() out of the way.                     *)
LEMMA ChainEvents ==
  ASSUME RestInv, Chain, Cooperative, tickAt = "start", Events
  PROVE  Chain'
<1> USE DEF Profiles
<1>0. /\ TypeOK /\ ~clash /\ AskedIsPending /\ ChainOnTime
      /\ waited \in Nat /\ unattended \in Nat /\ Held \in Nat
      /\ inFlight \in BOOLEAN /\ phyAsked \in BOOLEAN
  BY Times DEF RestInv, TypeOK, Chain
<1>t. tickAt' = "start"
  BY DEF Events, Answered, Connect, Disconnect, Opening, Grant, Ignore, PhyUpdate, DataLength,
         ForegroundChange, Volunteer, ParamsUpdate, tickVars
<1> SUFFICES ~clash' /\ AskedIsPending' /\ ChainOnTime'
  BY <1>t DEF Chain, WantsChain, AsksAlone
<1>1. CASE Connect
  <2>1. procedure = "none" /\ ~inFlight /\ current = "Idle"
    BY <1>1 DEF Connect, RestInv, DownAtRest, Cooperative
  <2>2. Ask("Session")
    BY <1>1, <2>1 DEF Connect, Outstanding
  <2>3. procedure' = "Session" /\ ~clash' /\ ~old'
    BY <1>0, <2>1, <2>2 DEF Ask, Start
  <2>4. AskedIsPending'
    BY <2>2, <2>3 DEF Ask, AskedIsPending, Ticks
  <2>5. ChainOnTime'
    BY <1>1, <2>3 DEF Connect, ChainOnTime, Recent, Ticks
  <2> QED
    BY <1>0, <1>1, <2>3, <2>4, <2>5 DEF Connect, Chain
<1>2. CASE Disconnect
  BY <1>0, <1>2 DEF Disconnect, Chain, AskedIsPending, ChainOnTime
<1>3. CASE Opening
  <2>1. ParamsUpdate("Other", procedure) /\ link = "Other" /\ link' = "Other"
    BY <1>3 DEF Opening, ParamsUpdate
  <2>2. CASE procedure \in Profiles
    <3>1. ~Matches("Other") /\ inFlight
      BY <1>0, <2>2 DEF AskedIsPending, Matches, RestInv, TypeOK
    <3>2. /\ inFlight' /\ procedure' = procedure /\ ~clash' /\ phyAsked' = phyAsked
          /\ old' = old
      BY <1>0, <2>1, <2>2, <3>1 DEF ParamsUpdate, TypeOK
    <3>3. UNCHANGED <<requested, asked, waited, unattended>>
      BY <2>1 DEF ParamsUpdate
    <3>4. AskedIsPending'
      BY <1>0, <2>2, <3>2, <3>3 DEF AskedIsPending, Ticks
    <3>5. ChainOnTime'
      BY <1>0, <2>1, <2>2, <3>2, <3>3 DEF ChainOnTime, Recent, Ticks
    <3> QED
      BY <1>0, <3>2, <3>3, <3>4, <3>5 DEF Chain
  <2>3. CASE procedure \notin Profiles
    <3>1. phyAsked /\ ~inFlight
      BY <1>0, <2>1, <2>3 DEF ChainOnTime, AskedIsPending
    <3>2. /\ ~inFlight' /\ procedure' = procedure /\ ~clash' /\ phyAsked'
          /\ old' = (old /\ procedure # "none")
      BY <1>0, <2>1, <3>1 DEF ParamsUpdate
    <3>3. UNCHANGED <<waited, unattended>>
      BY <2>1 DEF ParamsUpdate
    <3>4. procedure \in {"phy", "dle"} => current' = "Session" /\ requested' = "Session"
      BY <1>0, <2>1 DEF ParamsUpdate, ChainOnTime
    <3>5. ChainOnTime'
      BY <1>0, <2>3, <3>2, <3>3, <3>4 DEF ChainOnTime, Recent, Ticks
    <3> QED
      BY <1>0, <2>3, <3>2, <3>3, <3>5 DEF Chain, AskedIsPending
  <2> QED
    BY <2>2, <2>3
<1>4. CASE Grant
  <2>1. ParamsUpdate(procedure, "none") /\ procedure \in Profiles
    BY <1>4 DEF Grant
  <2>2. inFlight /\ requested = procedure /\ asked = procedure
    BY <1>0, <2>1 DEF AskedIsPending
  <2>3. ~inFlight' /\ current' = requested /\ requested' = requested /\ phyAsked'
        /\ ~clash' /\ ~old' /\ UNCHANGED unattended
    BY <1>0, <2>1, <2>2 DEF ParamsUpdate, Matches
  <2>4. CASE phyAsked
    <3>1. procedure' = "none"
      BY <2>1, <2>4 DEF ParamsUpdate
    <3> QED
      BY <1>0, <2>3, <3>1 DEF Chain, AskedIsPending, ChainOnTime
  <2>5. CASE ~phyAsked
    <3>1. procedure' = "phy"
      BY <2>1, <2>3, <2>5 DEF ParamsUpdate
    <3>2. link # "Down"
      BY <1>0, <2>1 DEF RestInv, DownAtRest, Cooperative
    <3>3. procedure = "Session" /\ Recent(0)
      BY <1>0, <2>5, <3>2 DEF ChainOnTime
    <3>4. Recent(1)'
      BY <1>0, <2>3, <3>3 DEF Recent, Ticks
    <3> QED
      BY <1>0, <2>2, <2>3, <3>1, <3>3, <3>4 DEF Chain, AskedIsPending, ChainOnTime
  <2> QED
    BY <2>4, <2>5
<1>5. ASSUME NEW p \in Profiles \cup {"Other"}, Volunteer(p) PROVE ~clash' /\ AskedIsPending' /\ ChainOnTime'
  <2>1. ParamsUpdate(p, procedure) /\ procedure \notin Profiles /\ link # "Down"
    BY <1>5 DEF Volunteer
  <2>2. phyAsked /\ ~inFlight
    BY <1>0, <2>1 DEF ChainOnTime, AskedIsPending
  <2>3. /\ ~inFlight' /\ procedure' = procedure /\ ~clash' /\ phyAsked'
        /\ old' = (old /\ procedure # "none")
        /\ UNCHANGED <<unattended, requested>>
    BY <1>0, <2>1, <2>2 DEF ParamsUpdate
  <2>4. procedure \in {"phy", "dle"} => current' = "Session" /\ requested' = "Session"
    BY <1>0, <2>1, <2>3 DEF ParamsUpdate, ChainOnTime
  <2>5. ChainOnTime'
    BY <1>0, <2>1, <2>3, <2>4 DEF ChainOnTime, Recent, Ticks
  <2> QED
    BY <1>0, <2>1, <2>3, <2>5 DEF Chain, AskedIsPending
<1>6. CASE Ignore
  BY <1>6 DEF Ignore, Cooperative
<1>7. CASE PhyUpdate
  <2>1. procedure = "phy" /\ procedure' \in {"none", "dle"} /\ ~old'
        /\ UNCHANGED <<current, requested, unattended, phyAsked, link, clash, inFlight>>
    BY <1>7 DEF PhyUpdate, profileVars, requestVars
  <2>2. Recent(2)'
    BY <1>0, <2>1 DEF ChainOnTime, Recent, Ticks
  <2> QED
    BY <1>0, <2>1, <2>2 DEF Chain, AskedIsPending, ChainOnTime
<1>8. CASE DataLength
  <2>1. procedure = "dle" /\ procedure' = "none"
        /\ UNCHANGED <<phyAsked, link, clash, inFlight>>
    BY <1>8 DEF DataLength, requestVars, chainVars
  <2> QED
    BY <1>0, <2>1 DEF Chain, AskedIsPending, ChainOnTime
<1>9. CASE ForegroundChange
  BY <1>0, <1>9 DEF ForegroundChange, profileVars, requestVars, linkVars, chainVars,
                    Chain, AskedIsPending, ChainOnTime, Recent, Ticks
<1> QED
  BY <1>1, <1>2, <1>3, <1>4, <1>5, <1>6, <1>7, <1>8, <1>9 DEF Events, Answered

(* What tick() decides: nothing while a procedure is pending. *)
LEMMA ChainTick ==
  ASSUME 3 * Grace < Holdoff, RestInv, Chain, Cooperative, Tick
  PROVE  Chain'
<1> USE DEF Profiles
<1>0. /\ TypeOK /\ ~clash /\ AskedIsPending /\ ChainOnTime /\ WantsChain /\ AsksAlone
      /\ waited \in Nat /\ unattended \in Nat /\ Held = Holdoff + 1 /\ Grace \in Nat /\ Grace >= 1
      /\ inFlight \in BOOLEAN /\ Holdoff \in Nat
  BY Times DEF RestInv, TypeOK, Chain
<1>1. CASE TickLooks
  <2> DEFINE idleFor == IF unattended = Held THEN 0 ELSE unattended
  <2>1. /\ unattended' = (IF foreground THEN Held ELSE idleFor) /\ wish' = Wanted(foreground, idleFor)
        /\ tickAt = "start" /\ tickAt' = "desires"
        /\ UNCHANGED <<current, requested, inFlight, asked, waited, link, procedure, old, clash, phyAsked>>
    BY <1>1 DEF TickLooks, profileVars, requestVars, linkVars, chainVars
  <2>2. (Recent(0) => Recent(0)') /\ (Recent(1) => Recent(1)') /\ (Recent(2) => Recent(2)')
    BY <1>0, <2>1 DEF Recent, Ticks
  <2>3. AskedIsPending' /\ AsksAlone'
    BY <1>0, <2>1 DEF AskedIsPending, AsksAlone, Ticks
  <2>4. ChainOnTime'
    BY <1>0, <2>1, <2>2 DEF ChainOnTime
  <2>5. procedure \in {"phy", "dle"} => wish' = "Session"
    <3> SUFFICES ASSUME procedure \in {"phy", "dle"} PROVE wish' = "Session"
      OBVIOUS
    <3>1. Recent(1) \/ Recent(2)
      BY <1>0 DEF ChainOnTime
    <3>2. idleFor < Holdoff
      BY <1>0, <3>1 DEF Recent, Ticks
    <3> QED
      BY <2>1, <3>2 DEF Wanted
  <2> QED
    BY <1>0, <2>1, <2>3, <2>4, <2>5 DEF Chain, WantsChain
<1>2. CASE TickDesires
  <2>1. /\ tickAt = "desires" /\ tickAt' = "tests" /\ desired' = wish
        /\ UNCHANGED <<current, requested, inFlight, asked, waited, unattended, link, procedure, old,
                       clash, phyAsked>>
    BY <1>2 DEF TickDesires, requestVars, linkVars, chainVars
  <2> QED
    BY <1>0, <2>1 DEF Chain, AskedIsPending, ChainOnTime, WantsChain, AsksAlone, Recent, Ticks
<1>3. CASE TickTests
  <2>1. /\ tickAt = "tests" /\ inFlight' = Outstanding
        /\ UNCHANGED <<current, requested, asked, waited, unattended, link, procedure, old, clash, phyAsked>>
    BY <1>3 DEF TickTests, profileVars, linkVars, chainVars
  <2>2. Outstanding <=> procedure \in Profiles
    BY <1>0, <2>1 DEF Outstanding, AskedIsPending, Ticks
  <2>3. AskedIsPending'
    BY <1>0, <2>1, <2>2 DEF AskedIsPending, Ticks
  <2>4. ChainOnTime'
    BY <1>0, <2>1 DEF ChainOnTime, Recent, Ticks
  <2>5. CASE ~Outstanding /\ desired # current
    <3>1. tickAt' = "store" /\ stores' = Stores
      BY <1>3, <2>5 DEF TickTests
    <3>2. procedure = "none"
      BY <1>0, <2>1, <2>2, <2>5 DEF TypeOK, Procedures, WantsChain, ChainOnTime
    <3> QED
      BY <1>0, <2>1, <2>3, <2>4, <3>1, <3>2 DEF Chain, WantsChain, AsksAlone, Stores
  <2>6. CASE ~(~Outstanding /\ desired # current)
    <3>1. tickAt' = "start"
      BY <1>3, <2>6 DEF TickTests
    <3> QED
      BY <1>0, <2>1, <2>3, <2>4, <3>1 DEF Chain, WantsChain, AsksAlone
  <2> QED
    BY <2>5, <2>6
<1>4. ASSUME NEW part \in Stores, TickStores(part) PROVE Chain'
  <2>1. /\ tickAt = "store" /\ tickAt' = "store" /\ part \in stores /\ stores' = stores \ {part}
        /\ requested' = (IF part = "requested" THEN wish ELSE requested)
        /\ asked' = (IF part = "units" THEN wish ELSE asked)
        /\ UNCHANGED <<current, unattended, link, procedure, old, clash, phyAsked, wish>>
    BY <1>4 DEF TickStores, linkVars, chainVars
  <2>2. inFlight' <=> (inFlight \/ part = "inFlight")
    BY <1>4 DEF TickStores
  <2>3. waited' = (IF part = "rest" THEN 0 ELSE waited)
    BY <1>4 DEF TickStores
  <2>4. procedure = "none"
    BY <1>0, <2>1 DEF AsksAlone
  <2>5. AsksAlone'
    BY <1>0, <2>1, <2>2, <2>3 DEF AsksAlone
  <2>6. ChainOnTime'
    BY <1>0, <2>1, <2>4 DEF ChainOnTime
  <2> QED
    BY <1>0, <2>1, <2>4, <2>5, <2>6 DEF Chain, AskedIsPending, WantsChain
<1>5. CASE TickSends
  <2>1. procedure = "none" /\ link # "Down" /\ wish \in {"Session", "Idle"} /\ requested = wish
        /\ inFlight /\ asked = wish /\ waited = 0
    BY <1>0, <1>5 DEF TickSends, AsksAlone, RestInv, DownAtRest, Cooperative, TypeOK
  <2>2. /\ procedure' = wish /\ ~clash' /\ ~old' /\ tickAt' = "start"
        /\ UNCHANGED <<requested, asked, waited, inFlight, link, phyAsked>>
    BY <1>0, <1>5, <2>1 DEF TickSends, Start, chainVars, profileVars, requestVars
  <2>3. phyAsked
    BY <1>0, <2>1 DEF ChainOnTime
  <2> QED
    BY <2>1, <2>2, <2>3 DEF Chain, AskedIsPending, ChainOnTime, WantsChain, AsksAlone, Ticks
<1> QED
  BY <1>1, <1>2, <1>3, <1>4, <1>5 DEF Tick

LEMMA ChainStep ==
  ASSUME 3 * Grace < Holdoff, ChainInv, [Next]_vars
  PROVE  ChainInv'
<1> USE DEF Profiles
<1>0. RestInv' /\ RestInv /\ setting' = setting
  BY RestStep DEF ChainInv, Next, HostTask, Events, Answered, Connect, Disconnect, Opening, Grant,
         Ignore, PhyUpdate, DataLength, ForegroundChange, Volunteer, ParamsUpdate, Tick, TickLooks,
         TickDesires, TickTests, TickStores, TickSends, Clock, vars
<1> SUFFICES ASSUME Cooperative, Chain PROVE Chain'
  BY <1>0 DEF ChainInv, Cooperative
<1>1. CASE HostTask
  BY <1>0, <1>1, ChainEvents DEF HostTask, Cooperative
<1>2. CASE Tick
  BY <1>0, <1>2, ChainTick
<1>3. CASE Clock
  <2>1. /\ tickAt = "start" /\ tickAt' = "start" /\ ~old
        /\ waited' = (IF waited > Grace THEN waited ELSE waited + 1)
        /\ unattended' = (IF unattended >= Holdoff THEN unattended ELSE unattended + 1)
        /\ UNCHANGED <<current, requested, inFlight, asked, link, procedure, clash, phyAsked>>
    BY <1>3 DEF Clock, profileVars, chainVars, tickVars
  <2>2. waited \in Nat /\ unattended \in Nat /\ Held = Holdoff + 1 /\ Holdoff \in Nat /\ Grace \in Nat
        /\ Held' = Held /\ Grace >= 1
    BY <1>0, Times DEF RestInv, TypeOK, Held
  <2>3. procedure # "none" => Ticks = 0 /\ Ticks' = 1
    BY <1>3 DEF Clock, Ticks
  <2>4. ASSUME procedure # "none", NEW n \in {0, 1, 2}, Recent(n) PROVE Recent(n)'
    <3>1. unattended = Held \/ unattended <= n
      BY <2>2, <2>3, <2>4 DEF Recent
    <3>2. unattended' = Held \/ unattended' <= n + 1
      BY <2>1, <2>2, <3>1
    <3> QED
      BY <2>2, <2>3, <2>4, <3>2 DEF Recent
  <2>5. AskedIsPending /\ ChainOnTime /\ ~clash
    BY DEF Chain
  <2>6. AskedIsPending'
    <3>1. ASSUME procedure \in Profiles PROVE waited' <= Ticks'
      BY <2>1, <2>2, <2>3, <2>5, <3>1 DEF AskedIsPending
    <3> QED
      BY <2>1, <2>5, <3>1 DEF AskedIsPending
  <2>7. ChainOnTime'
    BY <2>1, <2>4, <2>5 DEF ChainOnTime
  <2> QED
    BY <2>1, <2>5, <2>6, <2>7 DEF Chain, WantsChain, AsksAlone
<1>4. CASE UNCHANGED vars
  BY <1>4 DEF vars, profileVars, requestVars, linkVars, chainVars, tickVars, Chain, AskedIsPending,
              ChainOnTime, WantsChain, AsksAlone, Recent, Ticks
<1> QED
  BY <1>1, <1>2, <1>3, <1>4 DEF Next

(* Parameters, PHY and data length are never negotiated on top of each     *)
(* other with a central that answers, as long as the host task does not    *)
(* run inside tick() and the three of them fit into the holdoff, as        *)
(* kIdleHoldoffMs and kConnParamsGraceMs let them.                         *)
THEOREM NeverTwoProcedures ==
  ASSUME 3 * Grace < Holdoff
  PROVE  Spec => []OneProcedure
<1>1. ChainInv /\ [Next]_vars => ChainInv'
  BY ChainStep
<1>2. ChainInv => OneProcedure
  BY DEF ChainInv, Chain, Cooperative, OneProcedure
<1> QED
  BY ChainInit, <1>1, <1>2, PTL DEF Spec
=============================================================================
