-------------------------- MODULE PeerIndexProofs --------------------------
(***************************************************************************)
(* Proofs about PeerIndex: the cap on the index, that a peer whose token   *)
(* the card has is enrolled only if the user accepted it, and that with a  *)
(* card that works and one job at a time a pairing lasts.                  *)
(***************************************************************************)
EXTENDS PeerIndex, FiniteSetTheorems, TLAPS

(* A job that came from a HELLO has a peer; what is saved without an        *)
(* eviction before it fits already.                                         *)
OfHello == {"match", "load", "save", "token", "admit", "touch", "touchSave", "answer"}
JobFits(jobs) == \A t \in Tasks :
  /\ jobs[t].at \in OfHello => jobs[t].peer \in Peers
  /\ jobs[t].at \in {"touchSave", "forget", "wipe"} => Cardinality(jobs[t].copy.peers) <= MaxPeers

Jobs == {jobs \in [Tasks -> Job] : JobFits(jobs)}
TInv == TypeOK /\ job \in Jobs

LEMMA EmptyFits == Empty \in Index /\ Cardinality(Empty.peers) <= MaxPeers
  BY FS_EmptySet, MaxPeersAssumption DEF Empty, Index

LEMMA IndexFinite == ASSUME NEW idx \in Index PROVE Cardinality(idx.peers) \in Nat
  <1>1. idx.peers \in SUBSET Peers BY DEF Index
  <1>2. IsFiniteSet(idx.peers) BY <1>1, PeersAssumption, FS_Subset
  <1> QED BY <1>2, FS_CardinalityType

LEMMA RefreshedType ==
  ASSUME NEW idx \in Index, NEW p \in Peers
  PROVE  /\ Refreshed(idx, p) \in Index
         /\ Refreshed(idx, p).peers = idx.peers \cup {p}
         /\ \A q : <<p, q>> \notin Refreshed(idx, p).older
  BY DEF Index, Refreshed

LEMMA ForgottenType ==
  ASSUME NEW idx \in Index, NEW gone
  PROVE  /\ Forgotten(idx, gone) \in Index
         /\ Forgotten(idx, gone).peers = idx.peers \ gone
         /\ Forgotten(idx, gone).older \subseteq idx.older
  BY DEF Index, Forgotten

LEMMA ForgottenFits ==
  ASSUME NEW idx \in Index, NEW gone, Cardinality(idx.peers) <= MaxPeers
  PROVE  Cardinality(Forgotten(idx, gone).peers) <= MaxPeers
  <1>1. idx.peers \in SUBSET Peers BY DEF Index
  <1>2. IsFiniteSet(idx.peers) BY <1>1, PeersAssumption, FS_Subset
  <1>3. Forgotten(idx, gone).peers \subseteq idx.peers BY ForgottenType
  <1>4. /\ IsFiniteSet(Forgotten(idx, gone).peers)
        /\ Cardinality(Forgotten(idx, gone).peers) <= Cardinality(idx.peers)
    BY <1>2, <1>3, FS_Subset
  <1>5. Cardinality(Forgotten(idx, gone).peers) \in Nat /\ Cardinality(idx.peers) \in Nat
    BY <1>2, <1>4, FS_CardinalityType
  <1> QED BY <1>4, <1>5, MaxPeersAssumption

LEMMA IdleJob == Idle \in Job /\ Idle.at = "idle"
  BY EmptyFits DEF Idle, Job

LEMMA TInit == Init => TInv
  <1> SUFFICES ASSUME Init PROVE TInv OBVIOUS
  <1>1. TypeOK BY IdleJob, EmptyFits DEF Init, TypeOK
  <1>2. JobFits(job) BY IdleJob DEF Init, JobFits, OfHello
  <1> QED BY <1>1, <1>2 DEF TInv, Jobs, TypeOK

(* The ways in which a step changes the jobs. *)
LEMMA StepJob ==
  ASSUME job \in Jobs, NEW t \in Tasks, NEW at \in {"load", "token", "admit", "touch", "answer"},
         job[t].at \in OfHello, Step(t, at)
  PROVE  job' \in Jobs
  BY DEF Jobs, JobFits, Step, Job, OfHello

LEMMA FinishJob == ASSUME job \in Jobs, NEW t \in Tasks, Finish(t) PROVE job' \in Jobs
  BY IdleJob DEF Jobs, JobFits, Finish, OfHello

LEMMA CopyJob ==
  ASSUME job \in Jobs, NEW t \in Tasks, NEW at \in {"save", "touchSave"}, NEW idx \in Index,
         job[t].at \in OfHello, at = "touchSave" => Cardinality(idx.peers) <= MaxPeers,
         Copy(t, at, idx)
  PROVE  job' \in Jobs
  <1> DEFINE moved == [job[t] EXCEPT !.at = at, !.copy = idx]
  <1>1. job[t] \in Job /\ job[t].peer \in Peers /\ job \in [Tasks -> Job]
    BY DEF Jobs, JobFits
  <1>2. moved \in Job BY <1>1 DEF Job
  <1>3. moved.at = at /\ moved.copy = idx /\ moved.peer = job[t].peer BY <1>1 DEF Job
  <1>4. job' = [job EXCEPT ![t] = moved] BY DEF Copy
  <1> HIDE DEF moved
  <1>5. job' \in [Tasks -> Job] BY <1>1, <1>2, <1>4
  <1>6. \A u \in Tasks : job'[u] = IF u = t THEN moved ELSE job[u] BY <1>1, <1>4
  <1>7. JobFits(job') BY <1>1, <1>3, <1>6 DEF Jobs, JobFits
  <1> QED BY <1>5, <1>7 DEF Jobs

LEMMA NewJob ==
  ASSUME job \in Jobs, NEW t \in Tasks, NEW at \in {"match", "load"}, NEW p \in Peers,
         job[t] = Idle, Start(t, at, p)
  PROVE  job' \in Jobs
  <1> DEFINE moved == [job[t] EXCEPT !.at = at, !.peer = p]
  <1>1. job[t] \in Job /\ job \in [Tasks -> Job]
    BY DEF Jobs
  <1>2. moved \in Job BY <1>1 DEF Job
  <1>3. moved.at = at /\ moved.peer = p BY <1>1 DEF Job
  <1>4. job' = [job EXCEPT ![t] = moved] BY DEF Start
  <1> HIDE DEF moved
  <1>5. job' \in [Tasks -> Job] BY <1>1, <1>2, <1>4
  <1>6. \A u \in Tasks : job'[u] = IF u = t THEN moved ELSE job[u] BY <1>1, <1>4
  <1>7. JobFits(job') BY <1>3, <1>6 DEF Jobs, JobFits, OfHello
  <1> QED BY <1>5, <1>7 DEF Jobs

LEMMA ExcuseType ==
  ASSUME TypeOK, NEW what \in SUBSET {"card", "overlap"}, Excuse(what)
  PROVE  excuse' \in SUBSET {"card", "overlap"}
  BY DEF TypeOK, Excuse

LEMMA OverlapType == ASSUME NEW t PROVE Overlap(t) \in SUBSET {"card", "overlap"}
  BY DEF Overlap

LEMMA StoredType ==
  ASSUME TypeOK, NEW p \in Peers, NEW what \in {"none", "theirs", "other"},
         stored' = [stored EXCEPT ![p] = what]
  PROVE  stored' \in [Peers -> {"none", "theirs", "other"}]
  BY DEF TypeOK

LEMMA HelloTypes == ASSUME TInv, NEW p \in Peers, Hello(p) PROVE TInv'
  <1> USE DEF files, ghosts, TInv
  <1>1. excuse' \in SUBSET {"card", "overlap"}
    BY OverlapType, ExcuseType DEF Hello
  <1>2. job' \in Jobs
    <2>1. CASE job' = job BY <2>1
    <2>2. CASE Start("host", "match", p)
      BY <2>2, NewJob DEF Hello, Tasks
    <2> QED BY <2>1, <2>2 DEF Hello
  <1> QED BY <1>1, <1>2 DEF Hello, TypeOK, Jobs

LEMMA MatchTypes == ASSUME TInv, Match PROVE TInv'
  <1> USE DEF files, ghosts, TInv
  <1>1. job["host"].at \in OfHello /\ job["host"].peer \in Peers /\ "host" \in Tasks
    BY DEF Match, Jobs, JobFits, Tasks, OfHello
  <1>2. job' \in Jobs BY <1>1, StepJob, FinishJob DEF Match, Ask
  <1> QED BY <1>1, <1>2 DEF Match, Ask, TypeOK, Jobs

LEMMA PairTypes == ASSUME TInv, Accept \/ Refuse PROVE TInv'
  <1> USE DEF files, ghosts, TInv
  <1>1. CASE Accept
    <2>1. excuse' \in SUBSET {"card", "overlap"}
      BY <1>1, OverlapType, ExcuseType DEF Accept
    <2>2. pending \in Peers BY <1>1 DEF Accept, TypeOK
    <2>3. job' \in Jobs BY <1>1, <2>2, NewJob DEF Accept, Tasks
    <2> QED BY <1>1, <2>1, <2>2, <2>3 DEF Accept, TypeOK, Jobs
  <1>2. CASE Refuse BY <1>2 DEF Refuse, TypeOK
  <1> QED BY <1>1, <1>2

LEMMA LoadTypes == ASSUME TInv, NEW t \in Tasks, Load(t) PROVE TInv'
  <1> USE DEF files, ghosts, TInv
  <1>0. job[t].at \in OfHello /\ job[t].peer \in Peers
    BY DEF Load, Jobs, JobFits, OfHello
  <1>1. CASE Finish(t) /\ UNCHANGED <<promised, excuse>>
    <2>1. job' \in Jobs BY <1>1, FinishJob
    <2> QED BY <1>1, <2>1 DEF Load, TypeOK, Jobs
  <1>2. ASSUME NEW loaded \in {index, Empty},
               Copy(t, "save", Refreshed(loaded, job[t].peer)),
               promised' = {p \in promised : AmongLatest(Refreshed(seen, job[t].peer), p)},
               Excuse(IF loaded = index THEN {} ELSE {"card"})
        PROVE  TInv'
    <2>1. Refreshed(loaded, job[t].peer) \in Index
      BY <1>0, EmptyFits, RefreshedType DEF TypeOK
    <2>2. job' \in Jobs BY <1>0, <1>2, <2>1, CopyJob
    <2>3. excuse' \in SUBSET {"card", "overlap"} BY <1>2, ExcuseType
    <2>4. promised' \in SUBSET Peers BY <1>2 DEF TypeOK
    <2> QED BY <1>2, <2>2, <2>3, <2>4 DEF Load, TypeOK, Jobs
  <1> QED BY <1>1, <1>2 DEF Load

LEMMA EvictTypes == ASSUME TInv, NEW t \in Tasks, Evict(t) PROVE TInv'
  <1> USE DEF files, ghosts, TInv
  <1>1. PICK p \in job[t].copy.peers :
          /\ Copy(t, "save", Forgotten(job[t].copy, {p}))
          /\ \/ stored' = [stored EXCEPT ![p] = "none"] /\ UNCHANGED excuse
             \/ Excuse({"card"}) /\ UNCHANGED stored
    BY DEF Evict
  <1>2. job[t].copy \in Index /\ p \in Peers
    BY DEF Jobs, Job, Index
  <1>3. Forgotten(job[t].copy, {p}) \in Index BY <1>2, ForgottenType
  <1>4. job' \in Jobs
    BY <1>1, <1>3, CopyJob DEF Evict, OfHello
  <1>5. stored' \in [Peers -> {"none", "theirs", "other"}] BY <1>1, <1>2, StoredType DEF TypeOK
  <1>6. excuse' \in SUBSET {"card", "overlap"} BY <1>1, ExcuseType DEF TypeOK
  <1> QED BY <1>4, <1>5, <1>6 DEF Evict, TypeOK, Jobs

LEMMA SaveTypes == ASSUME TInv, NEW t \in Tasks, Save(t) PROVE TInv'
  <1> USE DEF files, ghosts, TInv
  <1>0. job[t].copy \in Index /\ job[t].at \in OfHello /\ job[t].peer \in Peers
    BY DEF Save, Jobs, JobFits, Job, OfHello
  <1>1. index' \in Index /\ Cardinality(index'.peers) <= MaxPeers
    <2>1. Cardinality(job[t].copy.peers) <= MaxPeers
      BY <1>0, IndexFinite, MaxPeersAssumption DEF Save, Overflows
    <2> QED BY <1>0, <2>1, EmptyFits DEF Save, TypeOK
  <1>2. job' \in Jobs BY <1>0, StepJob, FinishJob DEF Save
  <1>3. excuse' \in SUBSET {"card", "overlap"} BY ExcuseType DEF Save, TypeOK
  <1>4. seen' \in Index BY <1>0, RefreshedType DEF Save, TypeOK
  <1> QED BY <1>1, <1>2, <1>3, <1>4 DEF Save, TypeOK, Jobs

LEMMA IssueTypes == ASSUME TInv, IssueToken PROVE TInv'
  <1> USE DEF files, ghosts, TInv
  <1>0. "main" \in Tasks /\ job["main"].at \in OfHello /\ job["main"].peer \in Peers
    BY DEF IssueToken, Jobs, JobFits, Tasks, OfHello
  <1>1. job' \in Jobs BY <1>0, StepJob, FinishJob DEF IssueToken
  <1>2. stored' \in [Peers -> {"none", "theirs", "other"}]
    BY <1>0, StoredType DEF IssueToken, TypeOK
  <1> QED BY <1>1, <1>2 DEF IssueToken, TypeOK, Jobs

LEMMA AdmitTypes == ASSUME TInv, NEW t \in Tasks, Admit(t) \/ Touch(t) \/ Answer(t) PROVE TInv'
  <1> USE DEF files, ghosts, TInv
  <1>0. job[t].at \in OfHello /\ job[t].peer \in Peers
    BY DEF Admit, Touch, Answer, Jobs, JobFits, OfHello
  <1>1. CASE Admit(t)
    <2>1. job' \in Jobs BY <1>0, <1>1, StepJob, FinishJob DEF Admit
    <2> QED BY <1>1, <2>1 DEF Admit, TypeOK, Jobs
  <1>2. CASE Touch(t)
    <2>1. CASE Step(t, "answer")
      <3>1. job' \in Jobs BY <1>0, <2>1, StepJob
      <3> QED BY <1>2, <3>1 DEF Touch, TypeOK, Jobs
    <2>2. CASE /\ job[t].peer \in index.peers
               /\ Copy(t, "touchSave", Refreshed(index, job[t].peer))
      <3>0. index \in Index /\ index.peers \cup {job[t].peer} = index.peers
        BY <2>2 DEF TypeOK
      <3>1. /\ Refreshed(index, job[t].peer) \in Index
            /\ Refreshed(index, job[t].peer).peers = index.peers
        BY <1>0, <3>0, RefreshedType
      <3>2. job' \in Jobs BY <1>0, <2>2, <3>1, CopyJob DEF TypeOK
      <3> QED BY <1>2, <3>2 DEF Touch, TypeOK, Jobs
    <2> QED BY <1>2, <2>1, <2>2 DEF Touch
  <1>3. CASE Answer(t)
    <2>1. job' \in Jobs BY <1>3, FinishJob DEF Answer
    <2>2. stored' \in [Peers -> {"none", "theirs", "other"}]
      BY <1>0, <1>3 DEF Answer, TypeOK
    <2>3. promised' \in SUBSET Peers BY <1>0, <1>3 DEF Answer, TypeOK
    <2> QED BY <1>3, <2>1, <2>2, <2>3 DEF Answer, TypeOK, Jobs
  <1> QED BY <1>1, <1>2, <1>3

LEMMA TouchSaveTypes == ASSUME TInv, NEW t \in Tasks, TouchSave(t) PROVE TInv'
  <1> USE DEF files, ghosts, TInv
  <1>0. /\ job[t].copy \in Index /\ job[t].at \in OfHello
        /\ Cardinality(job[t].copy.peers) <= MaxPeers
    BY DEF TouchSave, Jobs, JobFits, Job, OfHello
  <1>1. index' \in Index /\ Cardinality(index'.peers) <= MaxPeers
    BY <1>0, EmptyFits DEF TouchSave, TypeOK
  <1>2. job' \in Jobs BY <1>0, StepJob DEF TouchSave
  <1>3. excuse' \in SUBSET {"card", "overlap"} BY ExcuseType DEF TouchSave, TypeOK
  <1> QED BY <1>1, <1>2, <1>3 DEF TouchSave, TypeOK, Jobs

LEMMA ForgetTypes ==
  ASSUME TInv, (\E named \in SUBSET Peers : ForgetBegins(named)) \/ WipeBegins
  PROVE  TInv'
  <1> USE DEF files, ghosts, TInv
  <1>1. ASSUME NEW at \in {"forget", "wipe"}, NEW names \in SUBSET Peers, NEW left \in SUBSET Peers,
               NEW idx \in Index, Cardinality(idx.peers) <= MaxPeers,
               job' = [job EXCEPT !["main"] = [at |-> at, peer |-> NoPeer, names |-> names,
                                               left |-> left, copy |-> idx]]
        PROVE  job' \in Jobs
    BY <1>1 DEF Jobs, JobFits, Job, OfHello
  <1>2. ASSUME NEW named \in SUBSET Peers, ForgetBegins(named) PROVE TInv'
    <2>1. /\ Forgotten(index, named) \in Index
          /\ Cardinality(Forgotten(index, named).peers) <= MaxPeers
      BY ForgottenType, ForgottenFits DEF TypeOK
    <2>2. job' \in Jobs BY <1>1, <1>2, <2>1 DEF ForgetBegins
    <2>3. excuse' \in SUBSET {"card", "overlap"}
      BY <1>2, OverlapType, ExcuseType DEF ForgetBegins
    <2> QED BY <1>2, <2>2, <2>3 DEF ForgetBegins, TypeOK, Jobs
  <1>3. ASSUME WipeBegins PROVE TInv'
    <2>1. PICK listed \in {index.peers, {}} :
            /\ job' = [job EXCEPT !["main"] = [at |-> "wipe", peer |-> NoPeer, names |-> Peers,
                                               left |-> listed, copy |-> Empty]]
            /\ Excuse(Overlap("main") \cup IF listed = index.peers THEN {} ELSE {"card"})
      BY <1>3 DEF WipeBegins
    <2>2. listed \in SUBSET Peers BY DEF TypeOK, Index
    <2>3. job' \in Jobs BY <1>1, <2>1, <2>2, EmptyFits
    <2>4. excuse' \in SUBSET {"card", "overlap"}
      BY <2>1, OverlapType, ExcuseType
    <2> QED BY <1>3, <2>3, <2>4 DEF WipeBegins, TypeOK, Jobs
  <1> QED BY <1>2, <1>3

LEMMA RemoveTypes == ASSUME TInv, RemoveDir PROVE TInv'
  <1> USE DEF files, ghosts, TInv
  <1>1. PICK p \in job["main"].left :
          /\ job' = [job EXCEPT !["main"].left = @ \ {p}]
          /\ \/ stored' = [stored EXCEPT ![p] = "none"] /\ UNCHANGED excuse
             \/ Excuse({"card"}) /\ UNCHANGED stored
    BY DEF RemoveDir
  <1>2. p \in Peers BY DEF Jobs, Job, Tasks
  <1>3. job' \in Jobs
    <2> DEFINE moved == [job["main"] EXCEPT !.left = @ \ {p}]
    <2>1. job["main"] \in Job /\ job \in [Tasks -> Job] /\ "main" \in Tasks BY DEF Jobs, Tasks
    <2>2. moved \in Job BY <2>1 DEF Job
    <2>3. /\ moved.at = job["main"].at /\ moved.copy = job["main"].copy
          /\ moved.peer = job["main"].peer
      BY <2>1 DEF Job
    <2>4. job' = [job EXCEPT !["main"] = moved] BY <1>1
    <2> HIDE DEF moved
    <2>5. job' \in [Tasks -> Job] BY <2>1, <2>2, <2>4
    <2>6. \A u \in Tasks : job'[u] = IF u = "main" THEN moved ELSE job[u] BY <2>1, <2>4
    <2>7. JobFits(job') BY <2>1, <2>3, <2>6 DEF Jobs, JobFits
    <2> QED BY <2>5, <2>7 DEF Jobs
  <1>4. stored' \in [Peers -> {"none", "theirs", "other"}] BY <1>1, <1>2, StoredType DEF TypeOK
  <1>5. excuse' \in SUBSET {"card", "overlap"} BY <1>1, ExcuseType DEF TypeOK
  <1> QED BY <1>3, <1>4, <1>5 DEF RemoveDir, TypeOK, Jobs

LEMMA ForgetEndsTypes == ASSUME TInv, ForgetEnds PROVE TInv'
  <1> USE DEF files, ghosts, TInv
  <1>0. /\ job["main"].copy \in Index /\ "main" \in Tasks
        /\ Cardinality(job["main"].copy.peers) <= MaxPeers
    BY DEF ForgetEnds, Jobs, JobFits, Job, Tasks
  <1>1. index' \in Index /\ Cardinality(index'.peers) <= MaxPeers
    BY <1>0, EmptyFits DEF ForgetEnds, TypeOK
  <1>2. job' \in Jobs BY <1>0, FinishJob DEF ForgetEnds
  <1>3. excuse' \in SUBSET {"card", "overlap"} BY ExcuseType DEF ForgetEnds, TypeOK
  <1>4. seen' \in Index BY ForgottenType DEF ForgetEnds, TypeOK
  <1> QED BY <1>1, <1>2, <1>3, <1>4 DEF ForgetEnds, TypeOK, Jobs

LEMMA PowerTypes == ASSUME TInv, PowerLoss PROVE TInv'
  <1> USE DEF files, ghosts, TInv
  <1>1. job' \in Jobs BY IdleJob DEF PowerLoss, Jobs, JobFits, OfHello
  <1>2. index' \in Index /\ Cardinality(index'.peers) <= MaxPeers
    BY EmptyFits DEF PowerLoss, TypeOK
  <1>3. excuse' \in SUBSET {"card", "overlap"} BY ExcuseType DEF PowerLoss, TypeOK
  <1>4. stored' \in [Peers -> {"none", "theirs", "other"}]
    <2>1. job["main"].at = "token" => job["main"].peer \in Peers
      BY DEF Tasks, Jobs, JobFits, OfHello
    <2> QED BY <2>1, StoredType DEF PowerLoss, TypeOK
  <1>5. promised' \in SUBSET Peers BY DEF PowerLoss, TypeOK
  <1> QED BY <1>1, <1>2, <1>3, <1>4, <1>5 DEF PowerLoss, TypeOK, Jobs

LEMMA TNext == TInv /\ [Next]_vars => TInv'
  <1> SUFFICES ASSUME TInv, [Next]_vars PROVE TInv' OBVIOUS
  <1>1. CASE UNCHANGED vars
    BY <1>1 DEF vars, files, ghosts, TInv, TypeOK, Jobs, JobFits
  <1>2. CASE Next
    BY <1>2, HelloTypes, MatchTypes, PairTypes, LoadTypes, EvictTypes, SaveTypes, IssueTypes,
       AdmitTypes, TouchSaveTypes, ForgetTypes, RemoveTypes, ForgetEndsTypes, PowerTypes
    DEF Next, HostTask, Either, MainLoop, Console
  <1> QED BY <1>1, <1>2

(* The index never lists more than MaxPeers peers, and every variable has   *)
(* its type: CompanionPeerStore.cpp:205, whatever two jobs write over each  *)
(* other and wherever a save is cut off.                                    *)
THEOREM IndexTyping == Spec => []TypeOK
  <1>1. TInv => TypeOK BY DEF TInv
  <1> QED BY <1>1, TInit, TNext, PTL DEF Spec

----------------------------------------------------------------------------
(* A peer with a token file, or about to be given one. *)
Live(p) == stored[p] # "none" \/ (job["main"].at = "token" /\ job["main"].peer = p)

(* What the two tasks know of the index while they work from an old copy.  *)
(* A live peer the host task's copy has, or whose HELLO it has recognised,  *)
(* is listed still; one that is listed is in the main loop's copy, or its   *)
(* directory is about to go.                                                *)
HostKnows == \A p \in Peers : Live(p) =>
  /\ job["host"].at \in {"save", "touchSave"} /\ p \in job["host"].copy.peers => p \in index.peers
  /\ job["host"].at \in {"match", "load"} /\ p = job["host"].peer => p \in index.peers
MainKnows == \A p \in index.peers : Live(p) =>
  /\ job["main"].at \in {"save", "touchSave"} => p \in job["main"].copy.peers
  /\ job["main"].at \in {"forget", "wipe"} => p \in job["main"].copy.peers \cup job["main"].left

(* Whom the index lists, and whom the main loop will have it list, the user *)
(* has accepted.                                                            *)
Trusted ==
  /\ \A p \in index.peers : Live(p) => p \in trusted
  /\ job["main"].at \in {"save", "touchSave", "forget", "wipe"} =>
       \A p \in job["main"].copy.peers : Live(p) => p \in trusted

(* The pairing in hand survives its own eviction, and whom the console       *)
(* forgets is not in what it writes.                                        *)
Shape ==
  /\ job["host"].at \notin {"token", "forget", "wipe"}
  /\ job["main"].at \in OfHello => job["main"].peer \in trusted
  /\ job["main"].at = "save" =>
       /\ job["main"].peer \in job["main"].copy.peers
       /\ \A q \in Peers : <<job["main"].peer, q>> \notin job["main"].copy.older
  /\ job["main"].at \in {"forget", "wipe"} => job["main"].names \cap job["main"].copy.peers = {}

Kept == HostKnows /\ MainKnows /\ Trusted
KInv == TInv /\ Shape /\ ("card" \in excuse \/ Kept)

LEMMA KInit == Init => KInv
  <1> SUFFICES ASSUME Init PROVE KInv OBVIOUS
  <1>1. TInv BY TInit
  <1>2. job["host"] = Idle /\ job["main"] = Idle BY DEF Init, Tasks
  <1>3. Shape BY <1>2, IdleJob DEF Shape, OfHello
  <1>4. Kept BY <1>2, IdleJob DEF Init, Empty, Kept, HostKnows, MainKnows, Trusted
  <1> QED BY <1>1, <1>3, <1>4 DEF KInv

(* What a job is after each kind of step. *)
LEMMA Moved ==
  ASSUME TInv, NEW t \in Tasks, NEW at, Step(t, at), NEW u \in Tasks
  PROVE  /\ job'[u].at = IF u = t THEN at ELSE job[u].at
         /\ job'[u].peer = job[u].peer /\ job'[u].copy = job[u].copy
         /\ job'[u].names = job[u].names /\ job'[u].left = job[u].left
  BY DEF TInv, TypeOK, Job, Step

LEMMA Finished ==
  ASSUME TInv, NEW t \in Tasks, Finish(t), NEW u \in Tasks
  PROVE  job'[u] = IF u = t THEN Idle ELSE job[u]
  BY DEF TInv, TypeOK, Finish

LEMMA Copied ==
  ASSUME TInv, NEW t \in Tasks, NEW at \in {"save", "touchSave"}, NEW idx \in Index,
         Copy(t, at, idx), NEW u \in Tasks
  PROVE  /\ job'[u].at = IF u = t THEN at ELSE job[u].at
         /\ job'[u].copy = IF u = t THEN idx ELSE job[u].copy
         /\ job'[u].peer = job[u].peer
         /\ job'[u].names = job[u].names /\ job'[u].left = job[u].left
  <1>1. job \in [Tasks -> Job] BY DEF TInv, TypeOK
  <1>2. job[u] \in Job /\ job[t] \in Job BY <1>1
  <1>3. CASE u = t
    <2> DEFINE moved == [job[t] EXCEPT !.at = at, !.copy = idx]
    <2>1. /\ moved.at = at /\ moved.copy = idx /\ moved.peer = job[t].peer
          /\ moved.names = job[t].names /\ moved.left = job[t].left
      BY <1>2 DEF Job
    <2>2. job' = [job EXCEPT ![t] = moved] BY DEF Copy, Start
    <2> HIDE DEF moved
    <2>3. job'[u] = moved BY <1>1, <1>3, <2>2
    <2> QED BY <1>3, <2>1, <2>3
  <1>4. CASE u # t
    <2>1. job'[u] = job[u] BY <1>1, <1>4 DEF Copy
    <2> QED BY <1>4, <2>1
  <1> QED BY <1>3, <1>4

LEMMA Started ==
  ASSUME TInv, NEW t \in Tasks, NEW at \in {"match", "load"}, NEW p \in Peers,
         Start(t, at, p), NEW u \in Tasks
  PROVE  /\ job'[u].at = IF u = t THEN at ELSE job[u].at
         /\ job'[u].peer = IF u = t THEN p ELSE job[u].peer
         /\ job'[u].copy = job[u].copy
         /\ job'[u].names = job[u].names /\ job'[u].left = job[u].left
  <1>1. job \in [Tasks -> Job] BY DEF TInv, TypeOK
  <1>2. job[u] \in Job /\ job[t] \in Job BY <1>1
  <1>3. CASE u = t
    <2> DEFINE moved == [job[t] EXCEPT !.at = at, !.peer = p]
    <2>1. /\ moved.at = at /\ moved.peer = p /\ moved.copy = job[t].copy
          /\ moved.names = job[t].names /\ moved.left = job[t].left
      BY <1>2 DEF Job
    <2>2. job' = [job EXCEPT ![t] = moved] BY DEF Copy, Start
    <2> HIDE DEF moved
    <2>3. job'[u] = moved BY <1>1, <1>3, <2>2
    <2> QED BY <1>3, <2>1, <2>3
  <1>4. CASE u # t
    <2>1. job'[u] = job[u] BY <1>1, <1>4 DEF Start
    <2> QED BY <1>4, <2>1
  <1> QED BY <1>3, <1>4

LEMMA TwoTasks == "host" \in Tasks /\ "main" \in Tasks /\ "host" # "main"
  BY DEF Tasks

LEMMA ExcuseGrows == ASSUME NEW what, Excuse(what), "card" \notin excuse' PROVE "card" \notin excuse /\ "card" \notin what
  BY DEF Excuse

LEMMA HelloKeeps == ASSUME KInv, NEW p \in Peers, Hello(p) PROVE Shape' /\ ("card" \in excuse' \/ Kept')
  <1> USE TwoTasks, IdleJob DEF files, Shape, OfHello
  <1>0. TInv BY DEF KInv
  <1>1. CASE job' = job
    BY <1>1, ExcuseGrows DEF Hello, KInv, Kept, HostKnows, MainKnows, Trusted, Live
  <1>2. CASE p \in index.peers /\ Start("host", "match", p)
    <2>1. /\ job'["host"].at = "match" /\ job'["host"].peer = p
          /\ job'["main"].at = job["main"].at /\ job'["main"].peer = job["main"].peer
          /\ job'["main"].copy = job["main"].copy /\ job'["main"].names = job["main"].names
          /\ job'["main"].left = job["main"].left
      BY <1>0, <1>2, Started
    <2>2. "card" \notin excuse' => "card" \notin excuse BY ExcuseGrows DEF Hello
    <2>3. Shape' BY <2>1 DEF Hello, KInv
    <2>4. ASSUME Kept PROVE Kept'
      BY <1>2, <2>1, <2>4 DEF Hello, Kept, HostKnows, MainKnows, Trusted, Live
    <2> QED BY <2>2, <2>3, <2>4 DEF KInv
  <1> QED BY <1>1, <1>2 DEF Hello

LEMMA MatchKeeps == ASSUME KInv, Match PROVE Shape' /\ ("card" \in excuse' \/ Kept')
  <1> USE TwoTasks, IdleJob DEF files, ghosts, Shape, OfHello
  <1>0. TInv BY DEF KInv
  <1>1. CASE Step("host", "load")
    <2>1. /\ job'["host"].at = "load" /\ job'["host"].peer = job["host"].peer
          /\ job'["main"].at = job["main"].at /\ job'["main"].peer = job["main"].peer
          /\ job'["main"].copy = job["main"].copy /\ job'["main"].names = job["main"].names
          /\ job'["main"].left = job["main"].left
      BY <1>0, <1>1, Moved
    <2> QED BY <2>1 DEF Match, KInv, Kept, HostKnows, MainKnows, Trusted, Live
  <1>2. CASE Finish("host")
    <2>1. job'["host"] = Idle /\ job'["main"] = job["main"] BY <1>0, <1>2, Finished
    <2> QED BY <2>1 DEF Match, KInv, Kept, HostKnows, MainKnows, Trusted, Live
  <1> QED BY <1>1, <1>2 DEF Match, Ask

LEMMA AcceptKeeps == ASSUME KInv, Accept PROVE Shape' /\ ("card" \in excuse' \/ Kept')
  <1> USE TwoTasks, IdleJob DEF files, ghosts, Shape, OfHello
  <1>0. TInv BY DEF KInv
  <1>1. /\ job'["main"].at = "load" /\ job'["main"].peer = pending
        /\ job'["host"].at = job["host"].at /\ job'["host"].peer = job["host"].peer
        /\ job'["host"].copy = job["host"].copy
    <2>1. pending \in Peers /\ Start("main", "load", pending) BY <1>0 DEF Accept, TInv, TypeOK
    <2> QED BY <1>0, <2>1, Started
  <1>2. "card" \notin excuse' => "card" \notin excuse BY ExcuseGrows DEF Accept
  <1>3. Shape' BY <1>1 DEF Accept, KInv
  <1>4. ASSUME Kept PROVE Kept'
    BY <1>1, <1>4 DEF Accept, Kept, HostKnows, MainKnows, Trusted, Live
  <1> QED BY <1>2, <1>3, <1>4 DEF KInv

LEMMA LoadKeeps == ASSUME KInv, NEW t \in Tasks, Load(t) PROVE Shape' /\ ("card" \in excuse' \/ Kept')
  <1> USE TwoTasks, IdleJob DEF files, ghosts, Shape, OfHello
  <1>0. TInv /\ index \in Index BY DEF KInv, TInv, TypeOK
  <1>1. CASE Finish(t) /\ UNCHANGED <<promised, excuse>>
    <2>1. \A u \in Tasks : job'[u] = IF u = t THEN Idle ELSE job[u] BY <1>0, <1>1, Finished
    <2> QED BY <1>1, <2>1 DEF Load, KInv, Kept, HostKnows, MainKnows, Trusted, Live, Tasks
  <1>2. ASSUME NEW loaded \in {index, Empty},
               Copy(t, "save", Refreshed(loaded, job[t].peer)),
               Excuse(IF loaded = index THEN {} ELSE {"card"})
        PROVE  Shape' /\ ("card" \in excuse' \/ Kept')
    <2>0. job[t].peer \in Peers BY <1>0 DEF Load, TInv, Jobs, JobFits, OfHello
    <2>2. /\ Refreshed(loaded, job[t].peer) \in Index
          /\ Refreshed(loaded, job[t].peer).peers = loaded.peers \cup {job[t].peer}
          /\ \A q : <<job[t].peer, q>> \notin Refreshed(loaded, job[t].peer).older
      BY <1>0, <2>0, EmptyFits, RefreshedType
    <2>1. \A u \in Tasks :
            /\ job'[u].at = IF u = t THEN "save" ELSE job[u].at
            /\ job'[u].copy = IF u = t THEN Refreshed(loaded, job[t].peer) ELSE job[u].copy
            /\ job'[u].peer = job[u].peer
            /\ job'[u].names = job[u].names /\ job'[u].left = job[u].left
      BY <1>0, <1>2, <2>2, Copied
    <2>3. "card" \notin excuse' => "card" \notin excuse /\ loaded = index
      BY <1>2, ExcuseGrows
    <2>4. CASE t = "main"
      <3>1. Shape' BY <2>1, <2>2, <2>4 DEF Load, KInv
      <3>2. ASSUME Kept, loaded = index PROVE Kept'
        BY <2>1, <2>2, <2>4, <3>2 DEF Load, KInv, Kept, HostKnows, MainKnows, Trusted, Live
      <3> QED BY <2>3, <3>1, <3>2 DEF KInv
    <2>5. CASE t = "host"
      <3>1. Shape' BY <2>1, <2>2, <2>5 DEF Load, KInv
      <3>2. ASSUME Kept, loaded = index PROVE Kept'
        BY <2>0, <2>1, <2>2, <2>5, <3>2 DEF Load, KInv, Kept, HostKnows, MainKnows, Trusted, Live
      <3> QED BY <2>3, <3>1, <3>2 DEF KInv
    <2> QED BY <2>4, <2>5 DEF Tasks
  <1> QED BY <1>1, <1>2 DEF Load

LEMMA EvictKeeps == ASSUME KInv, NEW t \in Tasks, Evict(t) PROVE Shape' /\ ("card" \in excuse' \/ Kept')
  <1> USE TwoTasks, IdleJob DEF files, ghosts, OfHello
  <1>0. TInv /\ stored \in [Peers -> {"none", "theirs", "other"}] BY DEF KInv, TInv, TypeOK
  <1>1. PICK p \in job[t].copy.peers :
          /\ IsOldest(job[t].copy, p)
          /\ Copy(t, "save", Forgotten(job[t].copy, {p}))
          /\ \/ stored' = [stored EXCEPT ![p] = "none"] /\ UNCHANGED excuse
             \/ Excuse({"card"})
    BY DEF Evict
  <1>2. job[t].copy \in Index /\ job[t].copy.peers \subseteq Peers /\ job[t].at = "save"
    BY <1>0 DEF Evict, TInv, Jobs, Job, Index
  <1>3. /\ Forgotten(job[t].copy, {p}) \in Index
        /\ Forgotten(job[t].copy, {p}).peers = job[t].copy.peers \ {p}
        /\ Forgotten(job[t].copy, {p}).older \subseteq job[t].copy.older
    BY <1>2, ForgottenType
  <1>4. \A u \in Tasks :
          /\ job'[u].at = IF u = t THEN "save" ELSE job[u].at
          /\ job'[u].copy = IF u = t THEN Forgotten(job[t].copy, {p}) ELSE job[u].copy
          /\ job'[u].peer = job[u].peer
          /\ job'[u].names = job[u].names /\ job'[u].left = job[u].left
    BY <1>0, <1>1, <1>3, Copied
  <1>5. t = "main" => p # job["main"].peer
    <2> SUFFICES ASSUME t = "main", p = job["main"].peer PROVE FALSE OBVIOUS
    <2>1. \A q \in Peers : <<p, q>> \notin job[t].copy.older BY <1>2 DEF KInv, Shape
    <2>2. job[t].copy.peers \subseteq {p} BY <1>1, <1>2, <2>1 DEF IsOldest
    <2>3. job[t].copy.peers = {p} BY <2>2
    <2>4. Cardinality(job[t].copy.peers) = 1 BY <2>3, FS_Singleton
    <2> QED BY <2>4, MaxPeersAssumption DEF Evict, Overflows
  <1>6. Shape' BY <1>2, <1>3, <1>4, <1>5 DEF Evict, KInv, Shape, Tasks
  <1>7. CASE "card" \in excuse' BY <1>6, <1>7
  <1>8. CASE "card" \notin excuse'
    <2>1. stored' = [stored EXCEPT ![p] = "none"] /\ Kept BY <1>1, <1>8 DEF Excuse, KInv
    <2>2. \A q \in Peers : Live(q)' => Live(q) /\ (q = p => t = "host")
      BY <1>0, <1>2, <1>4, <1>5, <2>1 DEF Live, Tasks
    <2>3. HostKnows' BY <1>2, <1>3, <1>4, <2>1, <2>2 DEF Kept, HostKnows, Evict, Tasks
    <2>4. MainKnows'
      <3>1. index.peers \subseteq Peers BY <1>0 DEF TInv, TypeOK, Index
      <3> QED BY <1>2, <1>3, <1>4, <2>1, <2>2, <3>1 DEF Kept, MainKnows, Evict, Tasks
    <2>5. Trusted'
      <3>1. index.peers \subseteq Peers /\ job["main"].copy.peers \subseteq Peers
        BY <1>0 DEF TInv, TypeOK, Index, Jobs, Job
      <3> QED BY <1>2, <1>3, <1>4, <2>1, <2>2, <3>1 DEF Kept, Trusted, Evict, Tasks
    <2> QED BY <1>6, <2>3, <2>4, <2>5 DEF Kept
  <1> QED BY <1>7, <1>8

LEMMA SaveKeeps == ASSUME KInv, NEW t \in Tasks, Save(t) PROVE Shape' /\ ("card" \in excuse' \/ Kept')
  <1> USE TwoTasks, IdleJob DEF files, ghosts, OfHello
  <1>0. TInv BY DEF KInv
  <1>c. /\ job["main"].copy.peers \subseteq Peers /\ job["host"].copy.peers \subseteq Peers
        /\ index.peers \subseteq Peers
    BY <1>0 DEF TInv, TypeOK, Index, Jobs, Job
  <1>1. CASE Finish(t)
    <2>1. \A u \in Tasks : job'[u] = IF u = t THEN Idle ELSE job[u] BY <1>0, <1>1, Finished
    <2>2. Shape' BY <2>1 DEF Save, KInv, Shape, Tasks
    <2>3. "card" \in excuse'
      <3>1. \A at : Step(t, at) => job'[t].at = at BY <1>0, Moved
      <3>2. job'[t].at = "idle" BY <2>1
      <3>3. ~Step(t, IF t = "main" THEN "token" ELSE "admit") BY <3>1, <3>2
      <3> QED BY <3>3 DEF Save, Excuse
    <2> QED BY <2>2, <2>3
  <1>2. CASE Step(t, IF t = "main" THEN "token" ELSE "admit") /\ index' = job[t].copy /\ UNCHANGED excuse
    <2>1. \A u \in Tasks :
            /\ job'[u].at = IF u = t THEN (IF t = "main" THEN "token" ELSE "admit") ELSE job[u].at
            /\ job'[u].peer = job[u].peer /\ job'[u].copy = job[u].copy
            /\ job'[u].names = job[u].names /\ job'[u].left = job[u].left
      BY <1>0, <1>2, Moved
    <2>2. Shape' BY <1>2, <2>1 DEF Save, KInv, Shape, Tasks
    <2>3. ASSUME Kept, t = "main" PROVE Kept'
      <3>1. \A p \in Peers : Live(p)' => Live(p) \/ p = job["main"].peer
        BY <2>1, <2>3 DEF Save, Live
      <3>2. job["main"].peer \in job["main"].copy.peers /\ job["main"].peer \in trusted
        BY <2>3 DEF Save, KInv, Shape
      <3>3. HostKnows' BY <1>2, <1>c, <2>1, <2>3, <3>1, <3>2 DEF Save, Kept, HostKnows, MainKnows
      <3>4. MainKnows' BY <2>1, <2>3 DEF MainKnows
      <3>5. Trusted' BY <1>2, <1>c, <2>1, <2>3, <3>1, <3>2 DEF Save, Kept, Trusted
      <3> QED BY <3>3, <3>4, <3>5 DEF Kept
    <2>4. ASSUME Kept, t = "host" PROVE Kept'
      <3>1. \A p \in Peers : Live(p)' <=> Live(p)
        BY <2>1, <2>4 DEF Save, Live
      <3>3. HostKnows' BY <2>1, <2>4 DEF HostKnows
      <3>4. MainKnows'
        BY <1>2, <1>c, <2>1, <2>4, <3>1 DEF Save, Kept, HostKnows, MainKnows
      <3>5. Trusted' BY <1>2, <1>c, <2>1, <2>4, <3>1 DEF Save, Kept, HostKnows, Trusted
      <3> QED BY <3>3, <3>4, <3>5 DEF Kept
    <2> QED BY <1>2, <2>2, <2>3, <2>4 DEF KInv, Tasks
  <1> QED BY <1>1, <1>2 DEF Save

LEMMA IssueKeeps == ASSUME KInv, IssueToken PROVE Shape' /\ ("card" \in excuse' \/ Kept')
  <1> USE TwoTasks, IdleJob DEF files, ghosts, OfHello
  <1>0. TInv /\ stored \in [Peers -> {"none", "theirs", "other"}] BY DEF KInv, TInv, TypeOK
  <1>2. /\ job'["host"] = job["host"] /\ job'["main"].at \in {"idle", "admit"}
        /\ job'["main"].at = "admit" => job'["main"].peer = job["main"].peer
    <2>1. CASE Step("main", "admit")
      <3>1. job'["host"] = job["host"] BY <2>1 DEF Step, Tasks
      <3> QED BY <1>0, <2>1, <3>1, Moved
    <2>2. CASE Finish("main") BY <1>0, <2>2, Finished
    <2> QED BY <2>1, <2>2 DEF IssueToken
  <1>1. \A p \in Peers : Live(p)' => Live(p)
    <2>1. \A p \in Peers : p # job["main"].peer => stored'[p] = stored[p]
      BY <1>0 DEF IssueToken
    <2> QED BY <1>2, <2>1 DEF IssueToken, Live
  <1>3. Shape' BY <1>2 DEF IssueToken, KInv, Shape
  <1>4. index.peers \subseteq Peers BY <1>0 DEF TInv, TypeOK, Index
  <1>5. ASSUME Kept PROVE Kept'
    BY <1>1, <1>2, <1>4, <1>5 DEF IssueToken, Kept, HostKnows, MainKnows, Trusted
  <1> QED BY <1>3, <1>5 DEF KInv, IssueToken

LEMMA AdmitKeeps == ASSUME KInv, NEW t \in Tasks, Admit(t) \/ Answer(t) PROVE Shape' /\ ("card" \in excuse' \/ Kept')
  <1> USE TwoTasks, IdleJob DEF files, ghosts, OfHello
  <1>0. TInv /\ stored \in [Peers -> {"none", "theirs", "other"}] BY DEF KInv, TInv, TypeOK
  <1>1. Finish(t) \/ Step(t, "touch") BY DEF Admit, Answer
  <1>2. \A u \in Tasks : /\ job'[u].at = IF u = t THEN job'[t].at ELSE job[u].at
                         /\ u # t \/ job'[u].at # "idle" =>
                              /\ job'[u].peer = job[u].peer /\ job'[u].copy = job[u].copy
                              /\ job'[u].names = job[u].names /\ job'[u].left = job[u].left
                         /\ job'[t].at \in {"idle", "touch"}
    BY <1>0, <1>1, Moved, Finished
  <1>3. job[t].at \in {"admit", "answer"} BY DEF Admit, Answer
  <1>4. \A p \in Peers : Live(p)' => Live(p)
    BY <1>0, <1>2, <1>3 DEF Admit, Answer, Live, Tasks
  <1>5. Shape' BY <1>2, <1>3 DEF Admit, Answer, KInv, Shape, Tasks
  <1>6. index.peers \subseteq Peers /\ job["main"].copy.peers \subseteq Peers /\ index' = index
    BY <1>0 DEF TInv, TypeOK, Index, Jobs, Job, Admit, Answer
  <1>7. ASSUME Kept PROVE Kept'
    <2>1. HostKnows' BY <1>2, <1>3, <1>4, <1>6, <1>7 DEF Kept, HostKnows, Tasks
    <2>2. MainKnows' BY <1>2, <1>3, <1>4, <1>6, <1>7 DEF Kept, MainKnows, Tasks
    <2>3. Trusted' BY <1>2, <1>3, <1>4, <1>6, <1>7 DEF Kept, Trusted, Tasks, Admit, Answer
    <2> QED BY <2>1, <2>2, <2>3 DEF Kept
  <1> QED BY <1>5, <1>7 DEF KInv, Admit, Answer

LEMMA TouchKeeps == ASSUME KInv, NEW t \in Tasks, Touch(t) PROVE Shape' /\ ("card" \in excuse' \/ Kept')
  <1> USE TwoTasks, IdleJob DEF files, ghosts, OfHello
  <1>0. TInv /\ index \in Index /\ index.peers \subseteq Peers BY DEF KInv, TInv, TypeOK, Index
  <1>1. CASE Step(t, "answer")
    <2>1. \A u \in Tasks :
            /\ job'[u].at = IF u = t THEN "answer" ELSE job[u].at
            /\ job'[u].peer = job[u].peer /\ job'[u].copy = job[u].copy
            /\ job'[u].names = job[u].names /\ job'[u].left = job[u].left
      BY <1>0, <1>1, Moved
    <2>2. Shape' BY <2>1 DEF Touch, KInv, Shape, Tasks
    <2>3. ASSUME Kept PROVE Kept'
      BY <2>1, <2>3 DEF Touch, Kept, HostKnows, MainKnows, Trusted, Live, Tasks
    <2> QED BY <2>2, <2>3 DEF KInv, Touch
  <1>2. CASE job[t].peer \in index.peers /\ Copy(t, "touchSave", Refreshed(index, job[t].peer))
    <2>0. index.peers \cup {job[t].peer} = index.peers /\ job[t].peer \in Peers BY <1>0, <1>2
    <2>1. /\ Refreshed(index, job[t].peer) \in Index
          /\ Refreshed(index, job[t].peer).peers = index.peers
      BY <1>0, <2>0, RefreshedType
    <2>2. \A u \in Tasks :
            /\ job'[u].at = IF u = t THEN "touchSave" ELSE job[u].at
            /\ job'[u].copy = IF u = t THEN Refreshed(index, job[t].peer) ELSE job[u].copy
            /\ job'[u].peer = job[u].peer
            /\ job'[u].names = job[u].names /\ job'[u].left = job[u].left
      BY <1>0, <1>2, <2>1, Copied
    <2>3. Shape' BY <2>2 DEF Touch, KInv, Shape, Tasks
    <2>4. ASSUME Kept PROVE Kept'
      BY <2>1, <2>2, <2>4 DEF Touch, Kept, HostKnows, MainKnows, Trusted, Live, Tasks
    <2> QED BY <2>3, <2>4 DEF KInv, Touch
  <1> QED BY <1>1, <1>2 DEF Touch

LEMMA TouchSaveKeeps == ASSUME KInv, NEW t \in Tasks, TouchSave(t) PROVE Shape' /\ ("card" \in excuse' \/ Kept')
  <1> USE TwoTasks, IdleJob DEF files, ghosts, OfHello
  <1>0. TInv BY DEF KInv
  <1>1. /\ job["main"].copy.peers \subseteq Peers /\ job["host"].copy.peers \subseteq Peers
        /\ index.peers \subseteq Peers
    BY <1>0 DEF TInv, TypeOK, Index, Jobs, Job
  <1>2. \A u \in Tasks :
          /\ job'[u].at = IF u = t THEN "answer" ELSE job[u].at
          /\ job'[u].peer = job[u].peer /\ job'[u].copy = job[u].copy
          /\ job'[u].names = job[u].names /\ job'[u].left = job[u].left
    BY <1>0, Moved DEF TouchSave
  <1>3. Shape' BY <1>2 DEF TouchSave, KInv, Shape, Tasks
  <1>4. \A p \in Peers : Live(p)' <=> Live(p) BY <1>2 DEF TouchSave, Live, Tasks
  <1>5. ASSUME Kept, index' = job[t].copy, t = "main" PROVE Kept'
    <2>1. HostKnows' BY <1>1, <1>2, <1>4, <1>5 DEF TouchSave, Kept, HostKnows, MainKnows
    <2>2. MainKnows' BY <1>2, <1>5 DEF MainKnows
    <2>3. Trusted' BY <1>1, <1>2, <1>4, <1>5 DEF TouchSave, Kept, Trusted
    <2> QED BY <2>1, <2>2, <2>3 DEF Kept
  <1>6. ASSUME Kept, index' = job[t].copy, t = "host" PROVE Kept'
    <2>1. HostKnows' BY <1>2, <1>6 DEF HostKnows
    <2>2. MainKnows' BY <1>1, <1>2, <1>4, <1>6 DEF TouchSave, Kept, HostKnows, MainKnows
    <2>3. Trusted' BY <1>1, <1>2, <1>4, <1>6 DEF TouchSave, Kept, HostKnows, Trusted
    <2> QED BY <2>1, <2>2, <2>3 DEF Kept
  <1> QED BY <1>3, <1>5, <1>6 DEF TouchSave, KInv, Excuse, Tasks

LEMMA ForgetKeeps ==
  ASSUME KInv, (\E named \in SUBSET Peers : ForgetBegins(named)) \/ WipeBegins
  PROVE  Shape' /\ ("card" \in excuse' \/ Kept')
  <1> USE TwoTasks, IdleJob DEF files, ghosts, OfHello
  <1>0. TInv /\ index \in Index /\ index.peers \subseteq Peers BY DEF KInv, TInv, TypeOK, Index
  <1>1. ASSUME NEW at \in {"forget", "wipe"}, NEW names, NEW left, NEW idx,
               job' = [job EXCEPT !["main"] = [at |-> at, peer |-> NoPeer, names |-> names,
                                               left |-> left, copy |-> idx]]
        PROVE  /\ job'["host"] = job["host"] /\ job'["main"].at = at /\ job'["main"].names = names
               /\ job'["main"].left = left /\ job'["main"].copy = idx
    BY <1>0, <1>1 DEF TInv, TypeOK
  <1>2. ASSUME NEW named \in SUBSET Peers, ForgetBegins(named)
        PROVE  Shape' /\ ("card" \in excuse' \/ Kept')
    <2>1. /\ job'["host"] = job["host"] /\ job'["main"].at = "forget" /\ job'["main"].names = named
          /\ job'["main"].left = named /\ job'["main"].copy = Forgotten(index, named)
      BY <1>1, <1>2 DEF ForgetBegins
    <2>2. Forgotten(index, named).peers = index.peers \ named BY <1>0, ForgottenType
    <2>3. Shape' BY <2>1, <2>2 DEF KInv, Shape
    <2>4. "card" \notin excuse' => "card" \notin excuse BY <1>2, ExcuseGrows DEF ForgetBegins
    <2>5. ASSUME Kept PROVE Kept'
      BY <1>0, <1>2, <2>1, <2>2, <2>5 DEF ForgetBegins, Kept, HostKnows, MainKnows, Trusted, Live
    <2> QED BY <2>3, <2>4, <2>5 DEF KInv
  <1>3. ASSUME WipeBegins PROVE Shape' /\ ("card" \in excuse' \/ Kept')
    <2>1. PICK listed :
            /\ job' = [job EXCEPT !["main"] = [at |-> "wipe", peer |-> NoPeer, names |-> Peers,
                                               left |-> listed, copy |-> Empty]]
            /\ Excuse(Overlap("main") \cup IF listed = index.peers THEN {} ELSE {"card"})
      BY <1>3 DEF WipeBegins
    <2>2. /\ job'["host"] = job["host"] /\ job'["main"].at = "wipe" /\ job'["main"].names = Peers
          /\ job'["main"].left = listed /\ job'["main"].copy = Empty
      BY <1>1, <2>1
    <2>3. Shape' BY <2>2 DEF KInv, Shape, Empty
    <2>4. "card" \notin excuse' => "card" \notin excuse /\ listed = index.peers
      BY <2>1, ExcuseGrows
    <2>5. ASSUME Kept, listed = index.peers PROVE Kept'
      BY <1>0, <1>3, <2>2, <2>5 DEF WipeBegins, Kept, HostKnows, MainKnows, Trusted, Live, Empty
    <2> QED BY <2>3, <2>4, <2>5 DEF KInv
  <1> QED BY <1>2, <1>3

LEMMA RemoveKeeps == ASSUME KInv, RemoveDir PROVE Shape' /\ ("card" \in excuse' \/ Kept')
  <1> USE TwoTasks, IdleJob DEF files, ghosts, OfHello
  <1>0. TInv /\ index.peers \subseteq Peers /\ stored \in [Peers -> {"none", "theirs", "other"}]
    BY DEF KInv, TInv, TypeOK, Index
  <1>1. PICK p \in job["main"].left :
          /\ job' = [job EXCEPT !["main"].left = @ \ {p}]
          /\ \/ stored' = [stored EXCEPT ![p] = "none"] /\ UNCHANGED excuse
             \/ Excuse({"card"}) /\ UNCHANGED stored
    BY DEF RemoveDir
  <1>2. /\ job'["host"] = job["host"]
        /\ job'["main"].at = job["main"].at /\ job'["main"].peer = job["main"].peer
        /\ job'["main"].copy = job["main"].copy /\ job'["main"].names = job["main"].names
        /\ job'["main"].left = job["main"].left \ {p}
    <2>1. job \in [Tasks -> Job] /\ job["main"] \in Job BY <1>0 DEF TInv, TypeOK
    <2> DEFINE moved == [job["main"] EXCEPT !.left = @ \ {p}]
    <2>2. /\ moved.at = job["main"].at /\ moved.peer = job["main"].peer
          /\ moved.copy = job["main"].copy /\ moved.names = job["main"].names
          /\ moved.left = job["main"].left \ {p}
      BY <2>1 DEF Job
    <2>3. job' = [job EXCEPT !["main"] = moved] BY <1>1
    <2> HIDE DEF moved
    <2>4. job'["main"] = moved /\ job'["host"] = job["host"] BY <2>1, <2>3
    <2> QED BY <2>2, <2>4
  <1>3. Shape' BY <1>2 DEF KInv, Shape, RemoveDir
  <1>4. ASSUME stored' = [stored EXCEPT ![p] = "none"], Kept PROVE Kept'
    <2>0. p \in Peers BY <1>0 DEF TInv, Jobs, Job
    <2>1. \A q \in Peers : Live(q)' => Live(q) BY <1>0, <1>2, <1>4 DEF Live
    <2>2. job["main"].at \in {"forget", "wipe"} => ~Live(p)' BY <1>0, <1>2, <1>4, <2>0 DEF Live
    <2>3. job["main"].copy.peers \subseteq Peers BY <1>0 DEF TInv, TypeOK, Jobs, Job, Index
    <2>4. HostKnows' BY <1>2, <1>4, <2>1 DEF RemoveDir, Kept, HostKnows
    <2>5. MainKnows' BY <1>0, <1>2, <1>4, <2>1, <2>2 DEF RemoveDir, Kept, MainKnows
    <2>6. Trusted' BY <1>0, <1>2, <1>4, <2>1, <2>3 DEF RemoveDir, Kept, Trusted
    <2> QED BY <2>4, <2>5, <2>6 DEF Kept
  <1> QED BY <1>1, <1>3, <1>4 DEF KInv, Excuse

LEMMA ForgetEndsKeeps == ASSUME KInv, ForgetEnds PROVE Shape' /\ ("card" \in excuse' \/ Kept')
  <1> USE TwoTasks, IdleJob DEF files, ghosts, OfHello
  <1>0. TInv BY DEF KInv
  <1>1. /\ job["main"].copy.peers \subseteq Peers /\ index.peers \subseteq Peers
    BY <1>0 DEF TInv, TypeOK, Index, Jobs, Job
  <1>2. job'["host"] = job["host"] /\ job'["main"] = Idle
    BY <1>0, Finished DEF ForgetEnds
  <1>3. Shape' BY <1>2 DEF KInv, Shape
  <1>4. \A p \in Peers : Live(p)' <=> Live(p)
    BY <1>2 DEF ForgetEnds, Live
  <1>5. ASSUME Kept, index' = job["main"].copy PROVE Kept'
    <2>1. HostKnows' BY <1>1, <1>2, <1>4, <1>5 DEF ForgetEnds, Kept, HostKnows, MainKnows
    <2>2. MainKnows' BY <1>2 DEF MainKnows
    <2>3. Trusted' BY <1>1, <1>2, <1>4, <1>5 DEF ForgetEnds, Kept, Trusted, KInv, Shape
    <2> QED BY <2>1, <2>2, <2>3 DEF Kept
  <1> QED BY <1>3, <1>5 DEF ForgetEnds, KInv, Excuse

LEMMA PowerKeeps == ASSUME KInv, PowerLoss PROVE Shape' /\ ("card" \in excuse' \/ Kept')
  <1> USE TwoTasks, IdleJob DEF files, ghosts, OfHello
  <1>1. job'["host"] = Idle /\ job'["main"] = Idle BY DEF PowerLoss
  <1>2. Shape' BY <1>1 DEF Shape
  <1>4. stored \in [Peers -> {"none", "theirs", "other"}] /\ index.peers \subseteq Peers
    BY DEF KInv, TInv, TypeOK, Index
  <1>5. \A p \in Peers : Live(p)' => Live(p) BY <1>1, <1>4 DEF PowerLoss, Live
  <1>3. ASSUME Kept, index' = index PROVE Kept'
    BY <1>1, <1>3, <1>4, <1>5 DEF PowerLoss, Kept, HostKnows, MainKnows, Trusted
  <1> QED BY <1>2, <1>3 DEF PowerLoss, KInv, Excuse

LEMMA KNext == KInv /\ [Next]_vars => KInv'
  <1> SUFFICES ASSUME KInv, [Next]_vars PROVE KInv' OBVIOUS
  <1>1. TInv' BY TNext DEF KInv
  <1>2. CASE Next
    <2>1. CASE Refuse
      BY <1>1, <2>1 DEF Refuse, KInv, Kept, HostKnows, MainKnows, Trusted, Live, Shape, files, ghosts
    <2> QED
      BY <1>1, <1>2, <2>1, HelloKeeps, MatchKeeps, AcceptKeeps, LoadKeeps, EvictKeeps, SaveKeeps,
         IssueKeeps, AdmitKeeps, TouchKeeps, TouchSaveKeeps, ForgetKeeps, RemoveKeeps,
         ForgetEndsKeeps, PowerKeeps
      DEF Next, HostTask, Either, MainLoop, Console, KInv
  <1>3. CASE UNCHANGED vars
    BY <1>1, <1>3 DEF vars, files, ghosts, KInv, Kept, HostKnows, MainKnows, Trusted, Live, Shape
  <1> QED BY <1>2, <1>3

(* Nobody is enrolled with a token the card has unless the user accepted     *)
(* them and the console has not forgotten them since, although the two tasks *)
(* rewrite the index from old copies and the power may go: the token goes    *)
(* first (CompanionPeerStore.cpp:188) and comes last (CompanionBle.cpp:2187).*)
THEOREM NoStrangerIsEnrolled == Spec => []NoSilentStranger
  <1>1. KInv => NoSilentStranger
    BY DEF KInv, TInv, TypeOK, Index, Kept, Trusted, Live, NoSilentStranger
  <1> QED BY <1>1, KInit, KNext, PTL DEF Spec

----------------------------------------------------------------------------
(* With a card that works and one job at a time: what is enrolled.         *)
Held(p) == stored[p] # "none"
Within(idx, all) == idx.peers \subseteq all.peers /\ idx.older \subseteq all.older
Newest(idx, p) == \A q \in idx.peers :
  <<p, q>> \notin idx.older /\ (q # p => <<q, p>> \in idx.older)

(* One of the two tasks is idle. *)
Alone == \E t \in Tasks : job[t] = Idle

Listed == \A p \in Peers : Held(p) => p \in index.peers
Lasting == \A p \in promised : stored[p] = "theirs" /\ AmongLatest(seen, p)

(* A copy about to be saved has every peer with a token, orders nobody      *)
(* otherwise than they were seen, and evicts nobody promised.              *)
SaveSafe(j) == j.at = "save" =>
  /\ Within(j.copy, Refreshed(seen, j.peer)) /\ j.peer \in j.copy.peers
  /\ \A p \in Peers : Held(p) => p \in j.copy.peers
  /\ \A p \in promised : AmongLatest(Refreshed(seen, j.peer), p)

(* Once the index lists the peer, none was seen after it. *)
Admitted == {"token", "admit", "touch", "touchSave", "answer"}
AdmitSafe(j) ==
  /\ j.at \in Admitted => j.peer \in index.peers /\ Newest(seen, j.peer)
  /\ j.at \in Admitted \ {"token"} => Held(j.peer)
  /\ j.at = "touchSave" => j.copy.peers = index.peers /\ j.copy.older \subseteq seen.older

(* The console removes the tokens of whom it forgets, and only theirs. *)
ForgetSafe(j) == j.at \in {"forget", "wipe"} =>
  /\ j.names \cap promised = {} /\ \A p \in j.names \ j.left : ~Held(p)
  /\ j.copy = IF j.at = "forget" THEN Forgotten(index, j.names) ELSE Empty
  /\ j.at = "wipe" => j.names = Peers

InHand(t) ==
  /\ SaveSafe(job[t]) /\ AdmitSafe(job[t]) /\ ForgetSafe(job[t])
  /\ t = "host" /\ job[t].at \in {"load", "save"} => Held(job[t].peer)

Sticks == Alone /\ Within(index, seen) /\ Listed /\ Lasting /\ \A t \in Tasks : InHand(t)
SInv == TInv /\ (excuse = {} => Sticks)

(* Who was seen after a peer. *)
Newer(idx, p) == {q \in idx.peers : <<p, q>> \in idx.older}

LEMMA NewerFinite ==
  ASSUME NEW idx \in Index, NEW p
  PROVE  IsFiniteSet(Newer(idx, p)) /\ Cardinality(Newer(idx, p)) \in Nat
  <1>1. Newer(idx, p) \in SUBSET Peers BY DEF Newer, Index
  <1>2. IsFiniteSet(Newer(idx, p)) BY <1>1, PeersAssumption, FS_Subset
  <1> QED BY <1>2, FS_CardinalityType

(* Fewer were seen after it: it is among the latest still. *)
LEMMA FewerNewer ==
  ASSUME NEW idx, NEW all \in Index, NEW p, Newer(idx, p) \subseteq Newer(all, p),
         AmongLatest(all, p)
  PROVE  AmongLatest(idx, p)
  <1>1. IsFiniteSet(Newer(all, p)) BY NewerFinite
  <1>2. /\ IsFiniteSet(Newer(idx, p))
        /\ Cardinality(Newer(idx, p)) <= Cardinality(Newer(all, p))
    BY <1>1, FS_Subset
  <1>3. Cardinality(Newer(idx, p)) \in Nat /\ Cardinality(Newer(all, p)) \in Nat
    BY <1>1, <1>2, FS_CardinalityType
  <1>4. Cardinality(Newer(all, p)) < MaxPeers BY DEF AmongLatest, Newer
  <1>5. Cardinality(Newer(idx, p)) < MaxPeers BY <1>2, <1>3, <1>4, MaxPeersAssumption
  <1> QED BY <1>5 DEF AmongLatest, Newer

(* The oldest of an index that overflows has MaxPeers others after it. *)
LEMMA OldestIsNotLatest ==
  ASSUME NEW idx \in Index, NEW all \in Index, Within(idx, all), Overflows(idx),
         NEW p, IsOldest(idx, p)
  PROVE  ~AmongLatest(all, p)
  <1> DEFINE others == idx.peers \ {p}
  <1>1. idx.peers \in SUBSET Peers BY DEF Index
  <1>2. IsFiniteSet(idx.peers) /\ p \in idx.peers
    BY <1>1, PeersAssumption, FS_Subset DEF IsOldest
  <1>3. IsFiniteSet(others) /\ Cardinality(others) = Cardinality(idx.peers) - 1
    BY <1>2, FS_RemoveElement
  <1>4. others \subseteq Newer(all, p) BY DEF IsOldest, Within, Newer
  <1>5. Cardinality(others) <= Cardinality(Newer(all, p)) BY <1>4, NewerFinite, FS_Subset
  <1>6. /\ Cardinality(idx.peers) \in Nat /\ Cardinality(others) \in Nat
        /\ Cardinality(Newer(all, p)) \in Nat
    BY <1>2, <1>3, NewerFinite, FS_CardinalityType
  <1>7. Cardinality(idx.peers) > MaxPeers BY DEF Overflows
  <1> HIDE DEF others
  <1>8. ~(Cardinality(Newer(all, p)) < MaxPeers)
    BY <1>3, <1>5, <1>6, <1>7, MaxPeersAssumption
  <1> QED BY <1>8 DEF AmongLatest, Newer

LEMMA NewestIsLatest ==
  ASSUME NEW idx, NEW p, Newest(idx, p)
  PROVE  AmongLatest(idx, p)
  <1>1. Newer(idx, p) = {} BY DEF Newer, Newest
  <1>2. Cardinality(Newer(idx, p)) = 0 BY <1>1, FS_EmptySet
  <1>3. 0 < MaxPeers BY MaxPeersAssumption
  <1> QED BY <1>2, <1>3 DEF AmongLatest, Newer

(* The peer just seen is not the oldest of an index that overflows. *)
LEMMA SeenIsNotOldest ==
  ASSUME NEW idx \in Index, Overflows(idx), NEW p, \A q : <<p, q>> \notin idx.older
  PROVE  ~IsOldest(idx, p)
  <1> SUFFICES ASSUME IsOldest(idx, p) PROVE FALSE OBVIOUS
  <1>1. idx.peers = {p} BY DEF IsOldest
  <1>2. Cardinality(idx.peers) = 1 BY <1>1, FS_Singleton
  <1> QED BY <1>2, MaxPeersAssumption DEF Overflows

LEMMA RefreshedNewest ==
  ASSUME NEW idx \in Index, NEW p \in Peers PROVE Newest(Refreshed(idx, p), p)
  BY DEF Index, Refreshed, Newest

LEMMA RefreshedWithin ==
  ASSUME NEW idx \in Index, NEW all \in Index, NEW p \in Peers, Within(idx, all)
  PROVE  Within(Refreshed(idx, p), Refreshed(all, p))
  BY DEF Index, Refreshed, Within

LEMMA ForgottenWithin ==
  ASSUME NEW idx \in Index, NEW all \in Index, NEW gone, Within(idx, all)
  PROVE  Within(Forgotten(idx, gone), all) /\ Within(Forgotten(idx, gone), Forgotten(all, gone))
  BY DEF Index, Forgotten, Within

LEMMA TouchedWithin ==
  ASSUME NEW idx \in Index, NEW all \in Index, NEW p \in idx.peers, Within(idx, all), Newest(all, p)
  PROVE  Refreshed(idx, p).older \subseteq all.older
  <1>1. Refreshed(idx, p).older \subseteq idx.older \cup ((idx.peers \ {p}) \X {p})
    BY DEF Refreshed
  <1>2. \A q \in idx.peers \ {p} : <<q, p>> \in all.older BY DEF Within, Newest
  <1>3. (idx.peers \ {p}) \X {p} \subseteq all.older BY <1>2
  <1> QED BY <1>1, <1>3 DEF Within

(* Only the job in hand changes, and the other task has none. *)
LEMMA Solo ==
  ASSUME Sticks, NEW t \in Tasks, job[t].at # "idle", NEW u \in Tasks, u # t
  PROVE  job[u] = Idle
  <1>1. job[t] # Idle BY IdleJob
  <1> QED BY <1>1 DEF Sticks, Alone, Tasks

LEMMA IdleInHand == ASSUME NEW j, j = Idle PROVE SaveSafe(j) /\ AdmitSafe(j) /\ ForgetSafe(j)
  BY IdleJob DEF SaveSafe, AdmitSafe, ForgetSafe, Admitted

LEMMA OneInHand ==
  ASSUME NEW t \in Tasks, InHand(t)', \A u \in Tasks \ {t} : job'[u] = Idle
  PROVE  Alone' /\ \A u \in Tasks : InHand(u)'
  <1>1. PICK u \in Tasks : u # t /\ Tasks = {t, u} BY DEF Tasks
  <1>2. job'[u] = Idle BY <1>1
  <1>3. (SaveSafe(job[u]) /\ AdmitSafe(job[u]) /\ ForgetSafe(job[u]))'
    BY <1>2, IdleJob DEF SaveSafe, AdmitSafe, ForgetSafe, Admitted
  <1>4. InHand(u)' BY <1>2, <1>3, IdleJob DEF InHand
  <1>5. Alone' BY <1>2 DEF Alone
  <1> QED BY <1>1, <1>4, <1>5

LEMMA NoneInHand ==
  ASSUME \A u \in Tasks : job'[u] = Idle
  PROVE  Alone' /\ \A u \in Tasks : InHand(u)'
  <1>1. (InHand("host"))'
    BY IdleJob DEF Tasks, InHand, SaveSafe, AdmitSafe, ForgetSafe, Admitted
  <1> QED BY <1>1, OneInHand DEF Tasks

LEMMA ExcuseLess == ASSUME NEW what, Excuse(what), excuse' = {} PROVE excuse = {} /\ what = {}
  BY DEF Excuse

LEMMA NoOverlap ==
  ASSUME NEW t \in Tasks, Overlap(t) = {}, NEW u \in Tasks \ {t} PROVE job[u] = Idle
  BY DEF Overlap, Other, Tasks

(* What a step leaves alone when it changes neither the files nor the ghosts. *)
LEMMA SameFiles ==
  ASSUME Sticks, UNCHANGED <<index, stored, promised, seen>>
  PROVE  Within(index, seen)' /\ Listed' /\ Lasting'
  BY DEF Sticks, Within, Listed, Lasting, Held, AmongLatest

LEMMA SInit == Init => SInv
  <1> SUFFICES ASSUME Init PROVE SInv OBVIOUS
  <1>1. TInv BY TInit
  <1>2. \A u \in Tasks : job[u] = Idle BY DEF Init
  <1>3. \A u \in Tasks : InHand(u)
    BY <1>2, IdleInHand, IdleJob DEF InHand
  <1>4. Alone BY <1>2 DEF Alone, Tasks
  <1>5. Within(index, seen) /\ Listed /\ Lasting
    BY DEF Init, Empty, Within, Listed, Lasting, Held
  <1> QED BY <1>1, <1>3, <1>4, <1>5 DEF SInv, Sticks

LEMMA OthersStay ==
  ASSUME TInv, NEW t \in Tasks, NEW at, NEW p, NEW idx,
         Start(t, at, p) \/ Step(t, at) \/ Copy(t, at, idx) \/ Finish(t),
         NEW u \in Tasks \ {t}
  PROVE  job'[u] = job[u]
  BY DEF TInv, TypeOK, Start, Step, Copy, Finish

LEMMA Alike ==
  ASSUME TInv, Sticks, NEW t \in Tasks, job[t].at # "idle", NEW at, NEW idx,
         Step(t, at) \/ Copy(t, at, idx) \/ Finish(t), NEW u \in Tasks \ {t}
  PROVE  job'[u] = Idle
  BY OthersStay, Solo

LEMMA HelloSticks == ASSUME TInv, Sticks, NEW p \in Peers, Hello(p), excuse' = {} PROVE Sticks'
  <1> USE TwoTasks DEF files, ghosts
  <1>1. job["host"] = Idle /\ job["main"] = Idle
    BY ExcuseLess, NoOverlap DEF Hello
  <1>2. Within(index, seen)' /\ Listed' /\ Lasting' BY SameFiles DEF Hello
  <1>3. Alone' /\ \A u \in Tasks : InHand(u)'
    <2>1. CASE job' = job BY <1>1, <2>1, NoneInHand DEF Tasks
    <2>2. CASE Start("host", "match", p)
      <3>1. job'["host"].at = "match" BY <2>2, Started
      <3>2. InHand("host")' BY <3>1 DEF InHand, SaveSafe, AdmitSafe, ForgetSafe, Admitted
      <3>3. \A u \in Tasks \ {"host"} : job'[u] = Idle BY <1>1, <2>2, OthersStay DEF Tasks
      <3> QED BY <3>2, <3>3, OneInHand
    <2> QED BY <2>1, <2>2 DEF Hello
  <1> QED BY <1>2, <1>3 DEF Sticks

LEMMA MatchSticks == ASSUME TInv, Sticks, Match PROVE Sticks'
  <1> USE TwoTasks DEF files, ghosts
  <1>1. job["host"].at = "match" /\ job["host"].at # "idle" BY DEF Match
  <1>2. Within(index, seen)' /\ Listed' /\ Lasting' BY SameFiles DEF Match
  <1>3. Alone' /\ \A u \in Tasks : InHand(u)'
    <2>1. CASE stored[job["host"].peer] = "theirs" /\ Step("host", "load")
      <3>1. job'["host"].at = "load" /\ job'["host"].peer = job["host"].peer BY <2>1, Moved
      <3>2. InHand("host")'
        BY <2>1, <3>1 DEF Match, InHand, SaveSafe, AdmitSafe, ForgetSafe, Admitted, Held
      <3>3. \A u \in Tasks \ {"host"} : job'[u] = Idle BY <1>1, <2>1, Alike
      <3> QED BY <3>2, <3>3, OneInHand
    <2>2. CASE Finish("host")
      <3>1. job'["host"] = Idle BY <2>2, Finished
      <3>2. \A u \in Tasks \ {"host"} : job'[u] = Idle BY <1>1, <2>2, Alike
      <3> QED BY <3>1, <3>2, NoneInHand
    <2> QED BY <2>1, <2>2 DEF Match, Ask
  <1> QED BY <1>2, <1>3 DEF Sticks

LEMMA AcceptSticks == ASSUME TInv, Sticks, Accept, excuse' = {} PROVE Sticks'
  <1> USE TwoTasks DEF files, ghosts
  <1>1. \A u \in Tasks \ {"main"} : job[u] = Idle BY ExcuseLess, NoOverlap DEF Accept
  <1>2. Within(index, seen)' /\ Listed' /\ Lasting' BY SameFiles DEF Accept
  <1>3. pending \in Peers /\ Start("main", "load", pending) BY DEF Accept, TInv, TypeOK
  <1>4. job'["main"].at = "load" BY <1>3, Started
  <1>5. InHand("main")' BY <1>4 DEF InHand, SaveSafe, AdmitSafe, ForgetSafe, Admitted
  <1>6. \A u \in Tasks \ {"main"} : job'[u] = Idle BY <1>1, <1>3, OthersStay
  <1> QED BY <1>2, <1>5, <1>6, OneInHand DEF Sticks

(* A step that changes nothing the invariant looks at. *)
LEMMA SameSticks ==
  ASSUME Sticks, UNCHANGED <<index, stored, job, promised, seen>> PROVE Sticks'
  BY DEF Sticks, Alone, Within, Listed, Lasting, Held, AmongLatest, InHand, SaveSafe, AdmitSafe,
         ForgetSafe, Newest

(* Where the steps of a job go wrong only by the card. *)
LEMMA LoadSticks == ASSUME TInv, Sticks, NEW t \in Tasks, Load(t), excuse = {}, excuse' = {} PROVE Sticks'
  <1> USE TwoTasks DEF files, ghosts
  <1>0. /\ index \in Index /\ seen \in Index /\ job[t].peer \in Peers /\ job[t].at = "load"
        /\ promised' \subseteq promised /\ UNCHANGED <<files, seen>>
    BY DEF TInv, TypeOK, Load, Jobs, JobFits, OfHello
  <1>1. Within(index, seen)' /\ Listed' /\ Lasting'
    BY <1>0 DEF Sticks, Within, Listed, Lasting, Held, AmongLatest
  <1>2. CASE Finish(t)
    <2>1. job'[t] = Idle BY <1>2, Finished
    <2>2. \A u \in Tasks \ {t} : job'[u] = Idle BY <1>0, <1>2, Alike
    <2> QED BY <1>1, <2>1, <2>2, NoneInHand DEF Sticks
  <1>3. ASSUME NEW loaded \in {index, Empty}, Copy(t, "save", Refreshed(loaded, job[t].peer)),
               promised' = {p \in promised : AmongLatest(Refreshed(seen, job[t].peer), p)},
               Excuse(IF loaded = index THEN {} ELSE {"card"})
        PROVE  Sticks'
    <2>1. loaded = index BY <1>3 DEF Excuse
    <2>2. /\ Refreshed(index, job[t].peer) \in Index
          /\ Refreshed(index, job[t].peer).peers = index.peers \cup {job[t].peer}
      BY <1>0, RefreshedType
    <2>3. /\ job'[t].at = "save" /\ job'[t].copy = Refreshed(index, job[t].peer)
          /\ job'[t].peer = job[t].peer
      BY <1>3, <2>1, <2>2, Copied
    <2>4. Within(Refreshed(index, job[t].peer), Refreshed(seen, job[t].peer))
      BY <1>0, RefreshedWithin DEF Sticks
    <2>5. \A p \in promised' : AmongLatest(Refreshed(seen, job[t].peer), p) BY <1>3
    <2>6. SaveSafe(job[t])'
      BY <1>0, <2>2, <2>3, <2>4, <2>5
      DEF SaveSafe, Held, Within, AmongLatest, Refreshed, Sticks, Listed
    <2>7. t = "host" => Held(job[t].peer) BY <1>0 DEF Sticks, InHand
    <2>8. InHand(t)'
      BY <1>0, <2>3, <2>6, <2>7 DEF InHand, AdmitSafe, ForgetSafe, Admitted, Held
    <2>9. \A u \in Tasks \ {t} : job'[u] = Idle BY <1>0, <1>3, <2>1, Alike
    <2> QED BY <1>1, <2>8, <2>9, OneInHand DEF Sticks
  <1> QED BY <1>2, <1>3 DEF Load

LEMMA EvictSticks == ASSUME TInv, Sticks, NEW t \in Tasks, Evict(t), excuse = {}, excuse' = {} PROVE Sticks'
  <1> USE TwoTasks DEF files, ghosts
  <1> DEFINE all == Refreshed(seen, job[t].peer)
  <1>0. /\ job[t].copy \in Index /\ job[t].peer \in Peers /\ seen \in Index /\ job[t].at = "save"
        /\ Overflows(job[t].copy) /\ UNCHANGED <<index, promised, seen>>
        /\ stored \in [Peers -> {"none", "theirs", "other"}]
    BY DEF TInv, TypeOK, Evict, Jobs, JobFits, Job, OfHello
  <1>1. PICK p \in job[t].copy.peers :
          /\ IsOldest(job[t].copy, p)
          /\ Copy(t, "save", Forgotten(job[t].copy, {p}))
          /\ \/ stored' = [stored EXCEPT ![p] = "none"]
             \/ Excuse({"card"})
    BY DEF Evict
  <1>2. stored' = [stored EXCEPT ![p] = "none"] /\ p \in Peers
    BY <1>0, <1>1 DEF Excuse, Index
  <1>3. /\ all \in Index /\ SaveSafe(job[t]) /\ Within(job[t].copy, all)
        /\ \A q : <<job[t].peer, q>> \notin all.older
    BY <1>0, RefreshedType DEF Sticks, InHand, SaveSafe
  <1> HIDE DEF all
  <1>4. p \notin promised
    <2>1. ~AmongLatest(all, p) BY <1>0, <1>1, <1>3, OldestIsNotLatest
    <2> QED BY <1>0, <1>3, <2>1 DEF SaveSafe, all
  <1>5. p # job[t].peer
    <2>1. \A q : <<job[t].peer, q>> \notin job[t].copy.older BY <1>3 DEF Within
    <2> QED BY <1>0, <1>1, <2>1, SeenIsNotOldest
  <1>6. /\ Forgotten(job[t].copy, {p}) \in Index
        /\ Forgotten(job[t].copy, {p}).peers = job[t].copy.peers \ {p}
        /\ Within(Forgotten(job[t].copy, {p}), all)
    BY <1>0, <1>3, ForgottenType, ForgottenWithin
  <1>7. /\ job'[t].at = "save" /\ job'[t].copy = Forgotten(job[t].copy, {p})
        /\ job'[t].peer = job[t].peer
    BY <1>1, <1>6, Copied
  <1>8. \A q \in Peers : Held(q)' <=> Held(q) /\ q # p BY <1>0, <1>2 DEF Held
  <1>9. SaveSafe(job[t])'
    <2>1. Within(Forgotten(job[t].copy, {p}), Refreshed(seen', job[t].peer)) BY <1>0, <1>6 DEF all
    <2>2. job[t].peer \in job[t].copy.peers \ {p} BY <1>0, <1>3, <1>5 DEF SaveSafe
    <2>3. \A q \in Peers : Held(q)' => q \in job[t].copy.peers \ {p}
      BY <1>0, <1>3, <1>8 DEF SaveSafe
    <2>4. \A q \in promised' : AmongLatest(Refreshed(seen', job[t].peer), q)
      BY <1>0, <1>3 DEF SaveSafe
    <2> QED BY <1>6, <1>7, <2>1, <2>2, <2>3, <2>4 DEF SaveSafe
  <1>10. InHand(t)'
    BY <1>0, <1>5, <1>7, <1>8, <1>9 DEF InHand, AdmitSafe, ForgetSafe, Admitted, Sticks
  <1>11. \A u \in Tasks \ {t} : job'[u] = Idle BY <1>0, <1>1, Alike
  <1>12. Within(index, seen)' /\ Listed' /\ Lasting'
    <2>1. Within(index, seen)' BY <1>0 DEF Sticks, Within
    <2>2. Listed' BY <1>0, <1>8 DEF Sticks, Listed
    <2>3. \A q \in promised : q \in Peers /\ stored'[q] = stored[q]
      BY <1>0, <1>2, <1>4 DEF TInv, TypeOK
    <2>4. Lasting' BY <1>0, <2>3 DEF Sticks, Lasting, AmongLatest
    <2> QED BY <2>1, <2>2, <2>4
  <1> QED BY <1>10, <1>11, <1>12, OneInHand DEF Sticks

LEMMA SaveSticks == ASSUME TInv, Sticks, NEW t \in Tasks, Save(t), excuse = {}, excuse' = {} PROVE Sticks'
  <1> USE TwoTasks DEF files, ghosts
  <1> DEFINE at == IF t = "main" THEN "token" ELSE "admit"
  <1>0. /\ job[t].copy \in Index /\ job[t].peer \in Peers /\ seen \in Index /\ job[t].at = "save"
        /\ UNCHANGED <<stored, promised>>
    BY DEF TInv, TypeOK, Save, Jobs, JobFits, Job, OfHello
  <1>1. index' = job[t].copy /\ Step(t, at) /\ seen' = Refreshed(seen, job[t].peer)
    BY DEF Save, Excuse
  <1>2. SaveSafe(job[t]) /\ (t = "host" => Held(job[t].peer)) BY <1>0 DEF Sticks, InHand
  <1>3. Within(index, seen)' BY <1>0, <1>1, <1>2 DEF SaveSafe, Within
  <1>4. Listed' BY <1>0, <1>1, <1>2 DEF SaveSafe, Listed, Held
  <1>5. Lasting'
    <2>1. \A p \in promised : stored'[p] = "theirs" BY <1>0 DEF Sticks, Lasting
    <2>2. \A p \in promised : AmongLatest(seen', p) BY <1>0, <1>1, <1>2 DEF SaveSafe
    <2> QED BY <1>0, <2>1, <2>2 DEF Lasting, AmongLatest
  <1>6. Newest(seen, job[t].peer)'
    <2>1. Newest(seen', job[t].peer) BY <1>0, <1>1, RefreshedNewest
    <2>2. job'[t].peer = job[t].peer BY <1>1, Moved
    <2> QED BY <2>1, <2>2 DEF Newest
  <1>7. job'[t].at = at /\ job'[t].peer = job[t].peer BY <1>1, Moved
  <1>8. job'[t].peer \in index'.peers BY <1>0, <1>1, <1>2, <1>7 DEF SaveSafe
  <1>9. InHand(t)'
    <2>1. CASE t = "main"
      BY <1>6, <1>7, <1>8, <2>1 DEF InHand, SaveSafe, AdmitSafe, ForgetSafe, Admitted
    <2>2. CASE t = "host"
      BY <1>0, <1>2, <1>6, <1>7, <1>8, <2>2
      DEF InHand, SaveSafe, AdmitSafe, ForgetSafe, Admitted, Held
    <2> QED BY <2>1, <2>2 DEF Tasks
  <1>10. \A u \in Tasks \ {t} : job'[u] = Idle BY <1>0, <1>1, Alike
  <1> QED BY <1>3, <1>4, <1>5, <1>9, <1>10, OneInHand DEF Sticks

LEMMA IssueSticks == ASSUME TInv, Sticks, IssueToken PROVE Sticks'
  <1> USE TwoTasks DEF files, ghosts
  <1> DEFINE p == job["main"].peer
  <1>0. /\ p \in Peers /\ job["main"].at = "token" /\ UNCHANGED <<index, seen>>
        /\ stored \in [Peers -> {"none", "theirs", "other"}] /\ promised \subseteq Peers
        /\ promised' = promised \ {p}
    BY DEF TInv, TypeOK, IssueToken, Jobs, JobFits, OfHello
  <1>a. AdmitSafe(job["main"]) BY DEF Sticks, InHand
  <1>b. p \in index.peers /\ Newest(seen, p) BY <1>0, <1>a DEF AdmitSafe, Admitted
  <1>1. \A q \in Peers \ {p} : stored'[q] = stored[q] BY <1>0 DEF IssueToken
  <1>2. Within(index, seen)' BY <1>0 DEF Sticks, Within
  <1>3. Listed' BY <1>0, <1>b, <1>1 DEF Sticks, Listed, Held
  <1>4. Lasting' BY <1>0, <1>1 DEF Sticks, Lasting, AmongLatest
  <1>5. CASE Step("main", "admit") /\ stored' = [stored EXCEPT ![p] = "other"]
    <2>1. job'["main"].at = "admit" /\ job'["main"].peer = p BY <1>5, Moved
    <2>2. stored'[p] = "other" BY <1>0, <1>5
    <2>3. Newest(seen, job["main"].peer)' BY <1>0, <1>b, <2>1 DEF Newest
    <2>4. InHand("main")'
      BY <1>0, <1>b, <2>1, <2>2, <2>3 DEF InHand, SaveSafe, AdmitSafe, ForgetSafe, Admitted, Held
    <2>5. \A u \in Tasks \ {"main"} : job'[u] = Idle BY <1>0, <1>5, Alike
    <2> QED BY <1>2, <1>3, <1>4, <2>4, <2>5, OneInHand DEF Sticks
  <1>6. CASE Finish("main")
    <2>1. job'["main"] = Idle BY <1>6, Finished
    <2>2. \A u \in Tasks \ {"main"} : job'[u] = Idle BY <1>0, <1>6, Alike
    <2> QED BY <1>2, <1>3, <1>4, <2>1, <2>2, NoneInHand DEF Sticks
  <1> QED BY <1>5, <1>6 DEF IssueToken

LEMMA AdmitSticks == ASSUME TInv, Sticks, NEW t \in Tasks, Admit(t) PROVE Sticks'
  <1> USE TwoTasks DEF files, ghosts
  <1>0. job[t].at = "admit" /\ UNCHANGED <<files, promised, seen>> BY DEF Admit
  <1>1. Within(index, seen)' /\ Listed' /\ Lasting' BY <1>0, SameFiles
  <1>2. CASE Step(t, "touch")
    <2>1. job'[t].at = "touch" /\ job'[t].peer = job[t].peer BY <1>2, Moved
    <2>2. AdmitSafe(job[t]) BY DEF Sticks, InHand
    <2>3. Newest(seen, job[t].peer)' BY <1>0, <2>1, <2>2 DEF AdmitSafe, Admitted, Newest
    <2>4. InHand(t)'
      BY <1>0, <2>1, <2>2, <2>3 DEF InHand, SaveSafe, AdmitSafe, ForgetSafe, Admitted, Held
    <2>5. \A u \in Tasks \ {t} : job'[u] = Idle BY <1>0, <1>2, Alike
    <2> QED BY <1>1, <2>4, <2>5, OneInHand DEF Sticks
  <1>3. CASE Finish(t)
    <2>1. job'[t] = Idle BY <1>3, Finished
    <2>2. \A u \in Tasks \ {t} : job'[u] = Idle BY <1>0, <1>3, Alike
    <2> QED BY <1>1, <2>1, <2>2, NoneInHand DEF Sticks
  <1> QED BY <1>2, <1>3 DEF Admit

LEMMA TouchSticks == ASSUME TInv, Sticks, NEW t \in Tasks, Touch(t) PROVE Sticks'
  <1> USE TwoTasks DEF files, ghosts
  <1>0. /\ job[t].at = "touch" /\ UNCHANGED <<files, promised, seen>>
        /\ index \in Index /\ seen \in Index /\ job[t].peer \in Peers
    BY DEF Touch, TInv, TypeOK, Jobs, JobFits, OfHello
  <1>1. Within(index, seen)' /\ Listed' /\ Lasting' BY <1>0, SameFiles
  <1>2. AdmitSafe(job[t]) BY DEF Sticks, InHand
  <1>3. Newest(seen, job[t].peer) /\ job[t].peer \in index.peers /\ Held(job[t].peer)
    BY <1>0, <1>2 DEF AdmitSafe, Admitted
  <1>4. CASE Step(t, "answer")
    <2>1. job'[t].at = "answer" /\ job'[t].peer = job[t].peer BY <1>4, Moved
    <2>2. Newest(seen, job[t].peer)' BY <1>0, <1>3, <2>1 DEF Newest
    <2>3. InHand(t)'
      BY <1>0, <1>3, <2>1, <2>2 DEF InHand, SaveSafe, AdmitSafe, ForgetSafe, Admitted, Held
    <2>4. \A u \in Tasks \ {t} : job'[u] = Idle BY <1>0, <1>4, Alike
    <2> QED BY <1>1, <2>3, <2>4, OneInHand DEF Sticks
  <1>5. CASE Copy(t, "touchSave", Refreshed(index, job[t].peer))
    <2> DEFINE fresh == Refreshed(index, job[t].peer)
    <2>1. fresh \in Index /\ fresh.peers = index.peers \cup {job[t].peer} BY <1>0, RefreshedType
    <2>2. fresh.peers = index.peers BY <1>3, <2>1
    <2>3. fresh.older \subseteq seen.older BY <1>0, <1>3, TouchedWithin DEF Sticks
    <2>4. Copy(t, "touchSave", fresh) BY <1>5
    <2> HIDE DEF fresh
    <2>5. job'[t].at = "touchSave" /\ job'[t].peer = job[t].peer /\ job'[t].copy = fresh
      BY <2>1, <2>4, Copied
    <2>6. Newest(seen, job[t].peer)' BY <1>0, <1>3, <2>5 DEF Newest
    <2>7. InHand(t)'
      BY <1>0, <1>3, <2>2, <2>3, <2>5, <2>6
      DEF InHand, SaveSafe, AdmitSafe, ForgetSafe, Admitted, Held
    <2>8. \A u \in Tasks \ {t} : job'[u] = Idle BY <1>0, <2>4, Alike
    <2> QED BY <1>1, <2>7, <2>8, OneInHand DEF Sticks
  <1> QED BY <1>4, <1>5 DEF Touch

LEMMA TouchSaveSticks ==
  ASSUME TInv, Sticks, NEW t \in Tasks, TouchSave(t), excuse = {}, excuse' = {} PROVE Sticks'
  <1> USE TwoTasks DEF files, ghosts
  <1>0. /\ job[t].at = "touchSave" /\ Step(t, "answer") /\ index' = job[t].copy
        /\ UNCHANGED <<stored, promised, seen>>
    BY DEF TouchSave, Excuse
  <1>1. AdmitSafe(job[t]) BY DEF Sticks, InHand
  <1>2. /\ index'.peers = index.peers /\ index'.older \subseteq seen.older
        /\ Newest(seen, job[t].peer) /\ job[t].peer \in index.peers /\ Held(job[t].peer)
    BY <1>0, <1>1 DEF AdmitSafe, Admitted
  <1>3. Within(index, seen)' BY <1>0, <1>2 DEF Sticks, Within
  <1>4. Listed' BY <1>0, <1>2 DEF Sticks, Listed, Held
  <1>5. Lasting' BY <1>0 DEF Sticks, Lasting, AmongLatest
  <1>6. job'[t].at = "answer" /\ job'[t].peer = job[t].peer BY <1>0, Moved
  <1>7. Newest(seen, job[t].peer)' BY <1>0, <1>2, <1>6 DEF Newest
  <1>8. InHand(t)'
    BY <1>0, <1>2, <1>6, <1>7 DEF InHand, SaveSafe, AdmitSafe, ForgetSafe, Admitted, Held
  <1>9. \A u \in Tasks \ {t} : job'[u] = Idle BY <1>0, Alike
  <1> QED BY <1>3, <1>4, <1>5, <1>8, <1>9, OneInHand DEF Sticks

LEMMA AnswerSticks == ASSUME TInv, Sticks, NEW t \in Tasks, Answer(t) PROVE Sticks'
  <1> USE TwoTasks DEF files, ghosts
  <1> DEFINE p == job[t].peer
  <1>0. /\ job[t].at = "answer" /\ Finish(t) /\ UNCHANGED <<index, seen>> /\ p \in Peers
        /\ stored \in [Peers -> {"none", "theirs", "other"}] /\ promised \subseteq Peers
    BY DEF Answer, TInv, TypeOK, Jobs, JobFits, OfHello
  <1>1. AdmitSafe(job[t]) BY DEF Sticks, InHand
  <1>2. p \in index.peers /\ Newest(seen, p) /\ stored[p] # "none"
    BY <1>0, <1>1 DEF AdmitSafe, Admitted, Held
  <1>3. Within(index, seen)' BY <1>0 DEF Sticks, Within
  <1>4. Listed' /\ Lasting'
    <2>1. CASE UNCHANGED <<stored, promised>>
      BY <1>0, <2>1 DEF Sticks, Listed, Lasting, Held, AmongLatest
    <2>2. CASE /\ stored' = [stored EXCEPT ![p] = IF @ = "other" THEN "theirs" ELSE @]
               /\ promised' \subseteq promised \cup {p}
      <3>1. stored'[p] = "theirs" /\ \A q \in Peers \ {p} : stored'[q] = stored[q]
        BY <1>0, <1>2, <2>2
      <3>2. Listed' BY <1>0, <1>2, <3>1 DEF Sticks, Listed, Held
      <3>3. \A q \in promised \cup {p} : AmongLatest(seen, q)
        BY <1>2, NewestIsLatest DEF Sticks, Lasting
      <3>4. Lasting' BY <1>0, <2>2, <3>1, <3>3 DEF Sticks, Lasting, AmongLatest
      <3> QED BY <3>2, <3>4
    <2> QED BY <2>1, <2>2 DEF Answer
  <1>5. job'[t] = Idle BY <1>0, Finished
  <1>6. \A u \in Tasks \ {t} : job'[u] = Idle BY <1>0, Alike
  <1> QED BY <1>3, <1>4, <1>5, <1>6, NoneInHand DEF Sticks

(* The console's job as it begins: nobody it names is promised anything. *)
LEMMA ConsoleSticks ==
  ASSUME TInv, Sticks, NEW at \in {"forget", "wipe"}, NEW names, NEW left, NEW idx,
         job' = [job EXCEPT !["main"] = [at |-> at, peer |-> NoPeer, names |-> names,
                                         left |-> left, copy |-> idx]],
         \A u \in Tasks \ {"main"} : job[u] = Idle,
         UNCHANGED files, UNCHANGED seen, promised' = promised \ names,
         idx = IF at = "forget" THEN Forgotten(index, names) ELSE Empty,
         at = "wipe" => names = Peers,
         \A p \in names \ left : stored[p] = "none"
  PROVE  Sticks'
  <1> USE TwoTasks DEF files
  <1>1. /\ job'["main"].at = at /\ job'["main"].names = names
        /\ job'["main"].left = left /\ job'["main"].copy = idx
        /\ \A u \in Tasks \ {"main"} : job'[u] = Idle
    BY DEF TInv, TypeOK
  <1>2. Within(index, seen)' /\ Listed' /\ Lasting'
    BY DEF Sticks, Within, Listed, Lasting, Held, AmongLatest
  <1>3. ForgetSafe(job["main"])'
    <2>1. job'["main"].names \cap promised' = {} BY <1>1
    <2>2. \A p \in job'["main"].names \ job'["main"].left : ~Held(p)' BY <1>1 DEF Held
    <2>3. Forgotten(index, names) = Forgotten(index', names) OBVIOUS
    <2>4. job'["main"].copy = IF job'["main"].at = "forget"
                              THEN Forgotten(index', job'["main"].names) ELSE Empty
      BY <1>1, <2>3
    <2> QED BY <1>1, <2>1, <2>2, <2>4 DEF ForgetSafe
  <1>4. InHand("main")'
    BY <1>1, <1>3 DEF InHand, SaveSafe, AdmitSafe, Admitted
  <1> QED BY <1>1, <1>2, <1>4, OneInHand DEF Sticks

LEMMA ForgetSticks ==
  ASSUME TInv, Sticks, excuse = {}, excuse' = {},
         (\E named \in SUBSET Peers : ForgetBegins(named)) \/ WipeBegins
  PROVE  Sticks'
  <1> USE TwoTasks DEF files
  <1>0. promised \subseteq Peers /\ index.peers \subseteq Peers BY DEF TInv, TypeOK, Index
  <1>1. ASSUME NEW named \in SUBSET Peers, ForgetBegins(named) PROVE Sticks'
    <2>1. \A u \in Tasks \ {"main"} : job[u] = Idle
      BY <1>1, ExcuseLess, NoOverlap DEF ForgetBegins
    <2> QED BY <1>1, <2>1, ConsoleSticks DEF ForgetBegins
  <1>2. ASSUME WipeBegins PROVE Sticks'
    <2>1. PICK listed :
            /\ job' = [job EXCEPT !["main"] = [at |-> "wipe", peer |-> NoPeer, names |-> Peers,
                                               left |-> listed, copy |-> Empty]]
            /\ Excuse(Overlap("main") \cup IF listed = index.peers THEN {} ELSE {"card"})
      BY <1>2 DEF WipeBegins
    <2>2. listed = index.peers /\ Overlap("main") = {} BY <2>1, ExcuseLess
    <2>3. \A u \in Tasks \ {"main"} : job[u] = Idle BY <2>2, NoOverlap
    <2>4. \A p \in Peers \ listed : stored[p] = "none" BY <2>2 DEF Sticks, Listed, Held
    <2>5. promised' = promised \ Peers BY <1>0, <1>2 DEF WipeBegins
    <2>6. UNCHANGED files /\ UNCHANGED seen BY <1>2 DEF WipeBegins
    <2> QED BY <2>1, <2>3, <2>4, <2>5, <2>6, ConsoleSticks
  <1> QED BY <1>1, <1>2

(* Only a job that forgets has directories to remove, of those it names. *)
Leaves(j) == j.left \subseteq j.names /\ (j.left # {} => j.at \in {"forget", "wipe"})
LInv == TInv /\ \A t \in Tasks : Leaves(job[t])

LEMMA IdleLeaves == Leaves(Idle) BY DEF Leaves, Idle

LEMMA LeavesNext == LInv /\ [Next]_vars => LInv'
  <1> SUFFICES ASSUME LInv, [Next]_vars PROVE LInv' OBVIOUS
  <1> USE TwoTasks, IdleLeaves
  <1>1. TInv /\ TInv' /\ job \in [Tasks -> Job] BY TNext DEF LInv, TInv, TypeOK
  <1>2. ASSUME NEW t \in Tasks, NEW at, Step(t, at), job[t].at \notin {"forget", "wipe"},
               NEW u \in Tasks
        PROVE  Leaves(job'[u])
    <2>1. job'[u].left = job[u].left /\ job'[u].names = job[u].names BY <1>1, <1>2, Moved
    <2>2. u # t => job'[u] = job[u] BY <1>1, <1>2, OthersStay
    <2> QED BY <1>2, <2>1, <2>2 DEF LInv, Leaves
  <1>3. ASSUME NEW t \in Tasks, NEW at, NEW idx, Copy(t, at, idx),
               job[t].at \notin {"forget", "wipe"}, NEW u \in Tasks
        PROVE  Leaves(job'[u])
    <2> DEFINE moved == [job[t] EXCEPT !.at = at, !.copy = idx]
    <2>1. job[t] \in Job BY <1>1
    <2>2. moved.left = job[t].left /\ moved.names = job[t].names BY <2>1 DEF Job
    <2>3. job' = [job EXCEPT ![t] = moved] BY <1>3 DEF Copy
    <2> HIDE DEF moved
    <2>4. job'[t] = moved BY <1>1, <2>3
    <2>5. u # t => job'[u] = job[u] BY <1>1, <1>3, OthersStay
    <2> QED BY <1>3, <2>2, <2>4, <2>5 DEF LInv, Leaves
  <1>4. ASSUME NEW t \in Tasks, NEW at \in {"match", "load"}, NEW p \in Peers,
               Start(t, at, p), job[t] = Idle, NEW u \in Tasks
        PROVE  Leaves(job'[u])
    <2>1. job'[u].left = job[u].left /\ job'[u].names = job[u].names BY <1>1, <1>4, Started
    <2>2. u # t => job'[u] = job[u] BY <1>1, <1>4, OthersStay
    <2> QED BY <1>4, <2>1, <2>2 DEF LInv, Leaves, Idle
  <1>5. ASSUME NEW t \in Tasks, Finish(t), NEW u \in Tasks PROVE Leaves(job'[u])
    BY <1>1, <1>5, Finished DEF LInv
  <1>6. ASSUME NEW at \in {"forget", "wipe"}, NEW names, NEW left, left \subseteq names, NEW idx,
               job' = [job EXCEPT !["main"] = [at |-> at, peer |-> NoPeer, names |-> names,
                                               left |-> left, copy |-> idx]],
               NEW u \in Tasks
        PROVE  Leaves(job'[u])
    BY <1>1, <1>6 DEF LInv, Leaves
  <1>7. CASE job' = job BY <1>1, <1>7 DEF LInv
  <1>8. CASE HostTask BY <1>1, <1>2, <1>4, <1>5, <1>7, <1>8 DEF HostTask, Hello, Match, Ask, LInv
  <1>9. CASE Either
    <2>1. PICK t \in Tasks :
            Load(t) \/ Evict(t) \/ Save(t) \/ Admit(t) \/ Touch(t) \/ TouchSave(t) \/ Answer(t)
      BY <1>9 DEF Either
    <2>2. job[t].at \notin {"forget", "wipe"}
      BY <2>1 DEF Load, Evict, Save, Admit, Touch, TouchSave, Answer
    <2>3. (\E at : Step(t, at)) \/ (\E at, idx : Copy(t, at, idx)) \/ Finish(t)
      BY <2>1 DEF Load, Evict, Save, Admit, Touch, TouchSave, Answer
    <2> QED BY <1>1, <1>2, <1>3, <1>5, <2>2, <2>3 DEF LInv
  <1>10. CASE Accept
    <2>1. pending \in Peers BY <1>1, <1>10 DEF Accept, TInv, TypeOK
    <2> QED BY <1>1, <1>4, <1>10, <2>1 DEF Accept, LInv
  <1>11. CASE Refuse \/ UNCHANGED vars BY <1>1, <1>7, <1>11 DEF Refuse, vars, LInv
  <1>12. CASE IssueToken BY <1>1, <1>2, <1>5, <1>12 DEF IssueToken, LInv
  <1>13. CASE Console
    <2>1. CASE \E named \in SUBSET Peers : ForgetBegins(named)
      BY <1>1, <1>6, <2>1 DEF ForgetBegins, LInv
    <2>2. CASE WipeBegins
      <3>1. index.peers \subseteq Peers BY <1>1 DEF TInv, TypeOK, Index
      <3>2. PICK listed \in {index.peers, {}} :
              job' = [job EXCEPT !["main"] = [at |-> "wipe", peer |-> NoPeer, names |-> Peers,
                                              left |-> listed, copy |-> Empty]]
        BY <2>2 DEF WipeBegins
      <3> QED BY <1>1, <1>6, <3>1, <3>2 DEF LInv
    <2>3. CASE RemoveDir
      <3>1. PICK p \in job["main"].left : job' = [job EXCEPT !["main"].left = @ \ {p}]
        BY <2>3 DEF RemoveDir
      <3>2. job["main"] \in Job BY <1>1
      <3> DEFINE moved == [job["main"] EXCEPT !.left = @ \ {p}]
      <3>3. /\ moved.left = job["main"].left \ {p} /\ moved.names = job["main"].names
            /\ moved.at = job["main"].at
        BY <3>2 DEF Job
      <3>4. job' = [job EXCEPT !["main"] = moved] BY <3>1
      <3> HIDE DEF moved
      <3>5. \A u \in Tasks : job'[u] = IF u = "main" THEN moved ELSE job[u] BY <1>1, <3>4
      <3> QED BY <1>1, <3>3, <3>5 DEF LInv, Leaves
    <2>4. CASE ForgetEnds BY <1>1, <1>5, <2>4 DEF ForgetEnds, LInv
    <2> QED BY <1>13, <2>1, <2>2, <2>3, <2>4 DEF Console
  <1>14. CASE PowerLoss BY <1>1, <1>14 DEF PowerLoss, LInv
  <1> QED BY <1>8, <1>9, <1>10, <1>11, <1>12, <1>13, <1>14 DEF Next, MainLoop

LEMMA RemoveSticks == ASSUME LInv, Sticks, RemoveDir, excuse = {}, excuse' = {} PROVE Sticks'
  <1> USE TwoTasks DEF files, ghosts
  <1>1. PICK p \in job["main"].left :
          /\ job' = [job EXCEPT !["main"].left = @ \ {p}]
          /\ \/ stored' = [stored EXCEPT ![p] = "none"]
             \/ Excuse({"card"})
    BY DEF RemoveDir
  <1>2. /\ job["main"] \in Job /\ job \in [Tasks -> Job] /\ promised \subseteq Peers
        /\ stored \in [Peers -> {"none", "theirs", "other"}]
        /\ UNCHANGED <<index, promised, seen>>
    BY DEF LInv, TInv, TypeOK, RemoveDir
  <1>3. job["main"].at \in {"forget", "wipe"} /\ p \in job["main"].names
    BY <1>1 DEF LInv, Leaves
  <1>4. ForgetSafe(job["main"]) BY DEF Sticks, InHand
  <1>5. stored' = [stored EXCEPT ![p] = "none"] /\ p \in Peers /\ p \notin promised
    BY <1>1, <1>2, <1>3, <1>4 DEF Excuse, Job, ForgetSafe
  <1>6. \A q \in Peers : Held(q)' <=> Held(q) /\ q # p BY <1>2, <1>5 DEF Held
  <1>7. Within(index, seen)' BY <1>2 DEF Sticks, Within
  <1>8. Listed' BY <1>2, <1>6 DEF Sticks, Listed
  <1>9. Lasting'
    <2>1. \A q \in promised : stored'[q] = stored[q] BY <1>2, <1>5
    <2> QED BY <1>2, <2>1 DEF Sticks, Lasting, AmongLatest
  <1>10. \A u \in Tasks \ {"main"} : job'[u] = Idle
    <2>1. \A u \in Tasks \ {"main"} : job'[u] = job[u] BY <1>1, <1>2
    <2> QED BY <1>3, <2>1, Solo
  <1>11. /\ job'["main"].at = job["main"].at /\ job'["main"].names = job["main"].names
         /\ job'["main"].copy = job["main"].copy /\ job'["main"].left = job["main"].left \ {p}
    <2> DEFINE moved == [job["main"] EXCEPT !.left = @ \ {p}]
    <2>1. /\ moved.at = job["main"].at /\ moved.names = job["main"].names
          /\ moved.copy = job["main"].copy /\ moved.left = job["main"].left \ {p}
      BY <1>2 DEF Job
    <2>2. job' = [job EXCEPT !["main"] = moved] BY <1>1
    <2> HIDE DEF moved
    <2>3. job'["main"] = moved BY <1>2, <2>2
    <2> QED BY <2>1, <2>3
  <1>12. ForgetSafe(job["main"])'
    <2>1. job'["main"].names \cap promised' = {} BY <1>2, <1>3, <1>4, <1>11 DEF ForgetSafe
    <2>2. \A q \in job'["main"].names \ job'["main"].left : ~Held(q)'
      BY <1>2, <1>3, <1>4, <1>6, <1>11 DEF ForgetSafe, Job
    <2>3. job'["main"].copy = IF job'["main"].at = "forget"
                              THEN Forgotten(index', job'["main"].names) ELSE Empty
      BY <1>2, <1>3, <1>4, <1>11 DEF ForgetSafe
    <2> QED BY <1>3, <1>4, <1>11, <2>1, <2>2, <2>3 DEF ForgetSafe
  <1>13. InHand("main")'
    BY <1>3, <1>11, <1>12 DEF InHand, SaveSafe, AdmitSafe, Admitted
  <1> QED BY <1>7, <1>8, <1>9, <1>10, <1>13, OneInHand DEF Sticks

LEMMA ForgetEndsSticks == ASSUME TInv, Sticks, ForgetEnds, excuse = {}, excuse' = {} PROVE Sticks'
  <1> USE TwoTasks DEF files, ghosts
  <1> DEFINE gone == job["main"].names
  <1>0. /\ job["main"].at \in {"forget", "wipe"} /\ job["main"].left = {} /\ Finish("main")
        /\ index' = job["main"].copy /\ seen' = Forgotten(seen, gone)
        /\ UNCHANGED <<stored, promised>>
    BY DEF ForgetEnds, Excuse
  <1>1. /\ index \in Index /\ seen \in Index /\ promised \subseteq Peers
    BY DEF TInv, TypeOK
  <1>2. ForgetSafe(job["main"]) BY DEF Sticks, InHand
  <1>3. \A p \in gone : stored[p] = "none" /\ p \notin promised
    BY <1>0, <1>2 DEF ForgetSafe, Held
  <1>4. ASSUME job["main"].at = "forget" PROVE Within(index, seen)' /\ Listed' /\ Lasting'
    <2>1. index' = Forgotten(index, gone) BY <1>0, <1>2, <1>4 DEF ForgetSafe
    <2>2. index'.peers = index.peers \ gone BY <1>1, <2>1, ForgottenType
    <2>3. Within(index, seen)'
      <3>1. Within(index', seen') BY <1>0, <1>1, <2>1, ForgottenWithin DEF Sticks
      <3> QED BY <3>1 DEF Within
    <2>4. Listed' BY <1>0, <1>3, <2>2 DEF Sticks, Listed, Held
    <2>5. ASSUME NEW p \in promised PROVE AmongLatest(seen', p)
      <3>1. Newer(seen', p) \subseteq Newer(seen, p) BY <1>0 DEF Newer, Forgotten
      <3> QED BY <1>1, <3>1, FewerNewer DEF Sticks, Lasting
    <2>6. Lasting' BY <1>0, <2>5 DEF Sticks, Lasting, AmongLatest
    <2> QED BY <2>3, <2>4, <2>6
  <1>5. ASSUME job["main"].at = "wipe" PROVE Within(index, seen)' /\ Listed' /\ Lasting'
    <2>1. index' = Empty /\ gone = Peers BY <1>0, <1>2, <1>5 DEF ForgetSafe
    <2>2. Within(index, seen)' BY <2>1 DEF Within, Empty
    <2>3. Listed' BY <1>0, <1>3, <2>1 DEF Listed, Held
    <2>4. Lasting' BY <1>0, <1>1, <1>3, <2>1 DEF Lasting
    <2> QED BY <2>2, <2>3, <2>4
  <1>6. job'["main"] = Idle BY <1>0, Finished
  <1>7. \A u \in Tasks \ {"main"} : job'[u] = Idle BY <1>0, Alike
  <1> QED BY <1>0, <1>4, <1>5, <1>6, <1>7, NoneInHand DEF Sticks

LEMMA PowerSticks == ASSUME TInv, Sticks, PowerLoss, excuse = {}, excuse' = {} PROVE Sticks'
  <1> USE TwoTasks DEF files, ghosts
  <1>0. \A u \in Tasks : job'[u] = Idle BY DEF PowerLoss
  <1>1. UNCHANGED <<index, seen>> BY DEF PowerLoss, Excuse
  <1>2. Within(index, seen)' BY <1>1 DEF Sticks, Within
  <1>3. CASE UNCHANGED <<stored, promised>>
    <2>1. Listed' /\ Lasting' BY <1>1, <1>3, SameFiles
    <2> QED BY <1>0, <1>2, <2>1, NoneInHand DEF Sticks
  <1>4. CASE /\ job["main"].at = "token"
             /\ stored' = [stored EXCEPT ![job["main"].peer] = "other"]
             /\ promised' = promised \ {job["main"].peer}
    <2> DEFINE p == job["main"].peer
    <2>1. /\ promised \subseteq Peers /\ stored \in [Peers -> {"none", "theirs", "other"}]
      BY DEF TInv, TypeOK
    <2>2. \A q \in Peers \ {p} : stored'[q] = stored[q] BY <1>4, <2>1
    <2>3. AdmitSafe(job["main"]) BY DEF Sticks, InHand
    <2>4. p \in index.peers BY <1>4, <2>3 DEF AdmitSafe, Admitted
    <2>5. Listed' BY <1>1, <2>2, <2>4 DEF Sticks, Listed, Held
    <2>6. Lasting' BY <1>1, <1>4, <2>1, <2>2 DEF Sticks, Lasting, AmongLatest
    <2> QED BY <1>0, <1>2, <2>5, <2>6, NoneInHand DEF Sticks
  <1> QED BY <1>3, <1>4 DEF PowerLoss

(* Once something was lost, it stays excused. *)
LEMMA ExcuseStays == ASSUME [Next]_vars, excuse' = {} PROVE excuse = {}
  <1> USE DEF files, ghosts, Excuse
  <1>1. CASE HostTask BY <1>1 DEF HostTask, Hello, Match
  <1>2. CASE Either
    <2>1. PICK t \in Tasks :
            Load(t) \/ Evict(t) \/ Save(t) \/ Admit(t) \/ Touch(t) \/ TouchSave(t) \/ Answer(t)
      BY <1>2 DEF Either
    <2>2. CASE Load(t) BY <2>2 DEF Load
    <2>3. CASE Evict(t) BY <2>3 DEF Evict
    <2>4. CASE Save(t) \/ TouchSave(t) BY <2>4 DEF Save, TouchSave
    <2>5. CASE Admit(t) \/ Touch(t) \/ Answer(t) BY <2>5 DEF Admit, Touch, Answer
    <2> QED BY <2>1, <2>2, <2>3, <2>4, <2>5
  <1>3. CASE Console
    <2>1. CASE WipeBegins BY <2>1 DEF WipeBegins
    <2>2. CASE RemoveDir BY <2>2 DEF RemoveDir
    <2>3. CASE ForgetEnds BY <2>3 DEF ForgetEnds
    <2> QED BY <1>3, <2>1, <2>2, <2>3 DEF Console, ForgetBegins
  <1>4. CASE Accept \/ Refuse \/ IssueToken BY <1>4 DEF Accept, Refuse, IssueToken
  <1>5. CASE PowerLoss BY <1>5 DEF PowerLoss
  <1>6. CASE UNCHANGED vars BY <1>6 DEF vars
  <1> QED BY <1>1, <1>2, <1>3, <1>4, <1>5, <1>6 DEF Next, MainLoop

LEMMA SNext == SInv /\ LInv /\ [Next]_vars => SInv'
  <1> SUFFICES ASSUME SInv, LInv, [Next]_vars, excuse' = {} PROVE Sticks'
    BY TNext DEF SInv
  <1>1. excuse = {} /\ Sticks /\ TInv BY ExcuseStays DEF SInv
  <1>2. CASE Refuse \/ UNCHANGED vars
    BY <1>1, <1>2, SameSticks DEF Refuse, vars, files, ghosts
  <1>3. CASE HostTask BY <1>1, <1>3, HelloSticks, MatchSticks DEF HostTask
  <1>4. CASE Either
    BY <1>1, <1>4, LoadSticks, EvictSticks, SaveSticks, AdmitSticks, TouchSticks, TouchSaveSticks,
       AnswerSticks
    DEF Either
  <1>5. CASE Console
    BY <1>1, <1>5, ForgetSticks, RemoveSticks, ForgetEndsSticks DEF Console
  <1>6. CASE Accept \/ IssueToken BY <1>1, <1>6, AcceptSticks, IssueSticks
  <1>7. CASE PowerLoss BY <1>1, <1>7, PowerSticks
  <1> QED BY <1>2, <1>3, <1>4, <1>5, <1>6, <1>7 DEF Next, MainLoop

LEMMA SinceStart == Spec => [](SInv /\ LInv)
  <1>1. Init => LInv BY TInit, IdleLeaves DEF Init, LInv
  <1>2. SInv /\ LInv /\ [Next]_vars => (SInv /\ LInv)' BY SNext, LeavesNext
  <1> QED BY <1>1, <1>2, SInit, PTL DEF Spec

(* A phone that was told HELLO_OK stays enrolled with the token it has, until *)
(* it is forgotten, paired anew, or MaxPeers others were seen since: the      *)
(* eviction (CompanionPeerStore.cpp:205) takes the peer seen longest ago, and *)
(* nothing else takes any.                                                    *)
THEOREM PairingLasts == Spec => []PairingSticks
  <1>1. SInv => PairingSticks
    BY DEF SInv, TInv, TypeOK, Sticks, Listed, Lasting, Held, PairingSticks, EveryPairingSticks
  <1> QED BY <1>1, SinceStart, PTL

(* No token is left where no later CRESET would find it: its peer is in the  *)
(* index before issueToken (CompanionBle.cpp:2187) and leaves it after the    *)
(* directory is gone (CompanionPeerStore.cpp:188), wherever the power goes.   *)
THEOREM NoTokenUnlisted == Spec => []TokensAreListed
  <1>1. SInv => TokensAreListed BY DEF SInv, Sticks, Listed, Held, TokensAreListed
  <1> QED BY <1>1, SinceStart, PTL
=============================================================================
