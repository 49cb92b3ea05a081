----------------------------- MODULE PeerIndex -----------------------------
(***************************************************************************)
(* Who is enrolled: peers.json and the token file of each peer.  The host  *)
(* task reads and rewrites the index for every HELLO, the main loop for an *)
(* accepted pairing and for the serial console's CFORGET, CRESETTEST and   *)
(* CRESET.  Nothing is held in memory between two operations and no lock   *)
(* spans two file operations, so every read-modify-write is two steps.     *)
(***************************************************************************)
EXTENDS Integers, FiniteSets

CONSTANTS Peers,       \* (appId, installId) pairs that may connect
          NoPeer,
          MaxPeers,    \* kMaxPeers
          Faults       \* "io": an operation fails; "power": the power goes

ASSUME PeersAssumption == IsFiniteSet(Peers) /\ NoPeer \notin Peers
ASSUME MaxPeersAssumption == MaxPeers \in Nat \ {0}
ASSUME FaultsAssumption == Faults \subseteq {"io", "power"}

VARIABLES index,     \* peers.json
          stored,    \* each peer's token.bin, as the phone's own token sees it
          pending,   \* g_pendingPairing
          job,       \* what the host task and the main loop are in the middle of
          trusted,   \* for the properties: accepted by the user, not forgotten since
          promised,  \* told HELLO_OK while trusted, not paired anew or forgotten since
          seen,      \* the index as it would be if no save were lost
          excuse     \* "card": a failed read, save or remove; "overlap": two jobs at once

files  == <<index, stored>>
ghosts == <<trusted, promised, seen, excuse>>
vars   == <<files, pending, job, ghosts>>

(* An index: its peers, and which of two was seen last.  The code numbers  *)
(* them with a counter of the file; only the order of the numbers is used. *)
Index == [peers : SUBSET Peers, older : SUBSET (Peers \X Peers)]
Empty == [peers |-> {}, older |-> {}]

Forgotten(idx, gone) ==
  [peers |-> idx.peers \ gone,
   older |-> {o \in idx.older : o[1] \notin gone /\ o[2] \notin gone}]

InOrderOfArrival(idx, p) ==
  IF p \in idx.peers THEN idx
  ELSE [peers |-> idx.peers \cup {p}, older |-> idx.older \cup (idx.peers \X {p})]

Refreshed(idx, p) ==
  [peers |-> idx.peers \cup {p},
   older |-> {o \in idx.older : p \notin {o[1], o[2]}} \cup ((idx.peers \ {p}) \X {p})]

IsOldest(idx, p) == p \in idx.peers /\ \A q \in idx.peers \ {p} : <<p, q>> \in idx.older

OverflowsByTwo(idx) == Cardinality(idx.peers) > MaxPeers + 1
Overflows(idx) == Cardinality(idx.peers) > MaxPeers

AmongLatest(idx, p) == Cardinality({q \in idx.peers : <<p, q>> \in idx.older}) < MaxPeers

Tasks == {"host", "main"}
Idle == [at |-> "idle", peer |-> NoPeer, copy |-> Empty, names |-> {}, left |-> {}]
Job == [at    : {"idle", "match", "load", "save", "token", "admit", "touch", "touchSave",
                 "answer", "forget", "wipe"},
        peer  : Peers \cup {NoPeer},
        copy  : Index,              \* the JsonDocument
        names : SUBSET Peers,       \* forget: whom
        left  : SUBSET Peers]       \* forget: whose directory is still to go

(* One entry for each peer, by construction of the set; the cap is the code's. *)
TypeOK ==
  /\ index \in Index /\ Cardinality(index.peers) <= MaxPeers
  /\ stored \in [Peers -> {"none", "theirs", "other"}]
  /\ pending \in Peers \cup {NoPeer}
  /\ job \in [Tasks -> Job]
  /\ trusted \in SUBSET Peers /\ promised \in SUBSET Peers /\ seen \in Index
  /\ excuse \in SUBSET {"card", "overlap"}

Init ==
  /\ index = Empty /\ stored = [p \in Peers |-> "none"]
  /\ pending = NoPeer /\ job = [t \in Tasks |-> Idle]
  /\ trusted = {} /\ promised = {} /\ seen = Empty /\ excuse = {}

Fails == "io" \in Faults

Start(t, at, p)   == job' = [job EXCEPT ![t].at = at, ![t].peer = p]
Step(t, at)       == job' = [job EXCEPT ![t].at = at]
Copy(t, at, idx)  == job' = [job EXCEPT ![t].at = at, ![t].copy = idx]
Finish(t)         == job' = [job EXCEPT ![t] = Idle]

Excuse(what) == excuse' = excuse \cup what
Other(t)     == IF t = "host" THEN "main" ELSE "host"
Overlap(t)   == IF job[Other(t)] = Idle THEN {} ELSE {"overlap"}

----------------------------------------------------------------------------
(* handleHello up to its decision, on the host task.  The phone may have   *)
(* lost its token.                                                         *)

Ask(p) ==
  /\ Finish("host")
  /\ pending' = IF pending = NoPeer THEN p ELSE pending    \* HELLO_DENIED_BUSY

Hello(p) ==
  /\ job["host"] = Idle
  /\ Excuse(Overlap("host"))
  /\ \/ /\ p \in index.peers                                    \* isEnrolled
        /\ Start("host", "match", p)
        /\ UNCHANGED pending
     \/ /\ p \notin index.peers \/ Fails
        /\ job' = job
        /\ pending' = IF pending = NoPeer THEN p ELSE pending
  /\ UNCHANGED <<files, trusted, promised, seen>>

Match ==
  /\ job["host"].at = "match"
  /\ \/ stored[job["host"].peer] = "theirs" /\ Step("host", "load") /\ UNCHANGED pending
     \/ Ask(job["host"].peer)          \* another token, none, or an unreadable file
  /\ UNCHANGED <<files, ghosts>>

(* resolvePairing: the slot is free again before the storage is touched. *)
Accept ==
  /\ job["main"] = Idle /\ pending # NoPeer
  /\ pending' = NoPeer
  /\ Start("main", "load", pending)
  /\ trusted' = trusted \cup {pending} /\ Excuse(Overlap("main"))
  /\ UNCHANGED <<files, promised, seen>>

Refuse ==
  /\ job["main"] = Idle /\ pending # NoPeer
  /\ pending' = NoPeer
  /\ UNCHANGED <<files, job, ghosts>>

----------------------------------------------------------------------------
(* ensurePeer, by either task.  An unreadable index is an empty one.       *)

Load(t) ==
  /\ job[t].at = "load"
  /\ \/ \E loaded \in {index} \cup (IF Fails THEN {Empty} ELSE {}) :
          /\ Copy(t, "save", Refreshed(loaded, job[t].peer))
          /\ promised' = {p \in promised : AmongLatest(Refreshed(seen, job[t].peer), p)}
          /\ Excuse(IF loaded = index THEN {} ELSE {"card"})
     \/ Fails /\ Finish(t) /\ UNCHANGED <<promised, excuse>>     \* no directory: HELLO_DENIED_STORAGE
  /\ UNCHANGED <<files, pending, trusted, seen>>

(* evictOverflow: the directory goes, token first, then the entry. *)
EvictEntryOnly(t) ==
  /\ job[t].at = "save" /\ Overflows(job[t].copy)
  /\ \E p \in job[t].copy.peers :
       /\ IsOldest(job[t].copy, p)
       /\ Copy(t, "save", Forgotten(job[t].copy, {p}))
  /\ UNCHANGED <<files, pending, ghosts>>

Evict(t) ==
  /\ job[t].at = "save" /\ Overflows(job[t].copy)
  /\ \E p \in job[t].copy.peers :
       /\ IsOldest(job[t].copy, p)
       /\ Copy(t, "save", Forgotten(job[t].copy, {p}))
       /\ \/ stored' = [stored EXCEPT ![p] = "none"] /\ UNCHANGED excuse
          \/ Fails /\ Excuse({"card"}) /\ UNCHANGED stored
  /\ UNCHANGED <<index, pending, trusted, promised, seen>>

(* peers.json is written in place. *)
Save(t) ==
  /\ job[t].at = "save" /\ ~Overflows(job[t].copy)
  /\ \/ index' = job[t].copy /\ Step(t, IF t = "main" THEN "token" ELSE "admit")
        /\ seen' = Refreshed(seen, job[t].peer) /\ UNCHANGED excuse
     \/ /\ Fails /\ index' \in {index, Empty} /\ Finish(t)
        /\ Excuse({"card"}) /\ UNCHANGED seen
  /\ UNCHANGED <<stored, pending, trusted, promised>>

(* issueToken; until HELLO_OK arrives the phone does not have it. *)
IssueToken ==
  /\ job["main"].at = "token"
  /\ \/ Step("main", "admit") /\ stored' = [stored EXCEPT ![job["main"].peer] = "other"]
     \/ /\ Fails /\ Finish("main")
        /\ \E torn \in {"other", stored[job["main"].peer]} :
             stored' = [stored EXCEPT ![job["main"].peer] = torn]
  /\ promised' = promised \ {job["main"].peer}
  /\ UNCHANGED <<index, pending, trusted, seen, excuse>>

----------------------------------------------------------------------------
(* admitPeer, by either task: a session, touch, HELLO_OK                   *)

Admit(t) ==
  /\ job[t].at = "admit"
  /\ Step(t, "touch") \/ Finish(t)           \* HELLO_DENIED_NO_SLOTS
  /\ UNCHANGED <<files, pending, ghosts>>

Touch(t) ==
  /\ job[t].at = "touch"
  /\ \/ /\ job[t].peer \in index.peers
        /\ Copy(t, "touchSave", Refreshed(index, job[t].peer))
     \/ /\ job[t].peer \notin index.peers \/ Fails
        /\ Step(t, "answer")
  /\ UNCHANGED <<files, pending, ghosts>>

TouchSave(t) ==
  /\ job[t].at = "touchSave" /\ Step(t, "answer")
  /\ \/ index' = job[t].copy /\ UNCHANGED excuse
     \/ Fails /\ index' \in {index, Empty} /\ Excuse({"card"})
  /\ UNCHANGED <<stored, pending, trusted, promised, seen>>

(* The phone keeps the token HELLO_OK carries; the notification may be lost. *)
Answer(t) ==
  /\ job[t].at = "answer" /\ Finish(t)
  /\ \/ /\ stored' = [stored EXCEPT ![job[t].peer] = IF @ = "other" THEN "theirs" ELSE @]
        /\ promised' = promised \cup (({job[t].peer} \cap trusted) \ job["main"].names)
     \/ UNCHANGED <<stored, promised>>
  /\ UNCHANGED <<index, pending, trusted, seen, excuse>>

----------------------------------------------------------------------------
(* The serial console, on the main loop: forgetPeer and                    *)
(* forgetPeersWithNamePrefix ("forget"), forgetAllPeers ("wipe")           *)

ForgetBegins(named) ==
  /\ job["main"] = Idle /\ named # {} /\ named \subseteq index.peers
  /\ job' = [job EXCEPT !["main"] = [at |-> "forget", peer |-> NoPeer, names |-> named,
                                     left |-> named, copy |-> Forgotten(index, named)]]
  /\ promised' = promised \ named /\ Excuse(Overlap("main"))
  /\ UNCHANGED <<files, pending, trusted, seen>>

WipeBegins ==
  /\ job["main"] = Idle
  /\ \E listed \in {index.peers} \cup (IF Fails THEN {{}} ELSE {}) :
       /\ job' = [job EXCEPT !["main"] = [at |-> "wipe", peer |-> NoPeer, names |-> Peers,
                                          left |-> listed, copy |-> Empty]]
       /\ Excuse(Overlap("main") \cup IF listed = index.peers THEN {} ELSE {"card"})
  /\ promised' = {}
  /\ UNCHANGED <<files, pending, trusted, seen>>

RemovesAllButTheToken ==
  \E p \in job["main"].left :
    /\ job' = [job EXCEPT !["main"].left = @ \ {p}]
    /\ UNCHANGED <<files, pending, ghosts>>

RemoveDir ==
  \E p \in job["main"].left :
    /\ job' = [job EXCEPT !["main"].left = @ \ {p}]
    /\ \/ stored' = [stored EXCEPT ![p] = "none"] /\ UNCHANGED excuse
       \/ Fails /\ Excuse({"card"}) /\ UNCHANGED stored
    /\ UNCHANGED <<index, pending, trusted, promised, seen>>

(* The console answers ok whether or not the index could be written. *)
ForgetEnds ==
  /\ job["main"].at \in {"forget", "wipe"} /\ job["main"].left = {}
  /\ Finish("main") /\ trusted' = trusted \ job["main"].names
  /\ seen' = Forgotten(seen, job["main"].names)
  /\ \/ index' = job["main"].copy /\ UNCHANGED excuse
     \/ Fails /\ index' \in {index, Empty} /\ Excuse({"card"})
  /\ UNCHANGED <<stored, pending, promised>>

----------------------------------------------------------------------------
(* A token or an index being written when the power goes is torn: one that *)
(* no phone knows, one that does not parse.                                 *)
PowerLoss ==
  /\ "power" \in Faults
  /\ job' = [t \in Tasks |-> Idle] /\ pending' = NoPeer
  /\ \/ UNCHANGED <<index, excuse>>
     \/ /\ \E t \in Tasks : job[t].at \in {"save", "touchSave", "forget"}
        /\ index' = Empty /\ Excuse({"card"})
  /\ \/ UNCHANGED <<stored, promised>>
     \/ /\ job["main"].at = "token"
        /\ stored' = [stored EXCEPT ![job["main"].peer] = "other"]
        /\ promised' = promised \ {job["main"].peer}
  /\ UNCHANGED <<trusted, seen>>

HostTask == (\E p \in Peers : Hello(p)) \/ Match
Either == \E t \in Tasks :
  Load(t) \/ Evict(t) \/ Save(t) \/ Admit(t) \/ Touch(t) \/ TouchSave(t) \/ Answer(t)
Console == (\E named \in SUBSET Peers : ForgetBegins(named)) \/ WipeBegins \/ RemoveDir \/ ForgetEnds
MainLoop == Accept \/ Refuse \/ IssueToken \/ Console

Next == HostTask \/ Either \/ MainLoop \/ PowerLoss

Spec == Init /\ [][Next]_vars

----------------------------------------------------------------------------
(* Properties *)

(* Nobody connects without a prompt that the user did not accept, or that  *)
(* the console has since forgotten: a peer that is enrolled and whose token *)
(* the card has was accepted, and not forgotten since -- even when two jobs *)
(* overlap or the power goes, because a forgotten peer's token is gone      *)
(* before the answer, so an index rewritten from an older copy lists a peer *)
(* without one.                                                             *)
NoSilentStranger ==
  "card" \in excuse \/
  \A p \in index.peers : stored[p] = "theirs" => p \in trusted

(* A pairing lasts: a phone that was told HELLO_OK is enrolled with the     *)
(* token it has, until the console forgets it, it is paired again, or        *)
(* MaxPeers other peers were seen since.                                    *)
EveryPairingSticks == \A p \in promised : p \in index.peers /\ stored[p] = "theirs"

(* The same, as long as the card works and no two jobs overlap. *)
PairingSticks == excuse = {} => EveryPairingSticks

(* No token is left behind for a peer the index does not list, where no     *)
(* later CRESET would find it.                                              *)
TokensAreListed == excuse = {} => \A p \in Peers : stored[p] # "none" => p \in index.peers
=============================================================================
