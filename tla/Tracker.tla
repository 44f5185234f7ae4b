------------------------------- MODULE Tracker -------------------------------
(***************************************************************************)
(* The scheduler half of a Session (internal/gsp_sdk/server): the peers    *)
(* registered with the central sender, the chunks each one owns, and the   *)
(* leases that count how many transfers the tracker has sent to a source.  *)
(*                                                                         *)
(* Every handler runs on its own connection goroutine and takes s.mu once  *)
(* or several times; each critical section is one action here.  Requests   *)
(* and reports travel on pooled connections of their own, so they arrive   *)
(* late, twice, or after the registration connection has gone.             *)
(***************************************************************************)
EXTENDS Integers, FiniteSets

CONSTANTS
    Central,             \* s.UUID, the session that runs the tracker
    Receivers,           \* UUIDs of the other nodes; a UUID registers once
    Zones,               \* machine rooms
    ZoneOf,              \* the zone each receiver announces or is derived for
    MaxChunks,           \* chunk indexes a request may name: 0..MaxChunks-1
    MaxInflight,         \* maxInflight, 2 in the code
    BackoffOverloadConn, \* backoffOverloadConn, 4 in the code
    MaxPrefetch,         \* maxPrefetchPerZonePerTick, 4 in the code
    Writers,             \* bound: goroutines that write answers to wantChunk
    MaxLeases            \* bound: leases outstanding at once

ASSUME TrackerConstants ==
    /\ Central \notin Receivers
    /\ ZoneOf \in [Receivers -> Zones]
    /\ MaxChunks \in Nat
    /\ MaxInflight \in Nat \ {0}
    /\ BackoffOverloadConn \in Nat
    /\ MaxPrefetch \in Nat \ {0}
    /\ MaxLeases \in Nat

\* What makes the backoff command dead code: 2 <= 4 in the source.
ASSUME OverloadAboveInflight == MaxInflight <= BackoffOverloadConn

Node == Receivers \cup {Central}
Index == 0 .. MaxChunks - 1
NoFile == -1
LeaseKey == Receivers \X Index      \* leaseKey(requester, index)

VARIABLES
    Peers,        \* registered UUIDs (the keys of s.Peers)
    handler,      \* the PeerReg goroutine of each receiver
    connNum,      \* Peer.connNum
    leases,       \* keys of Peer.leases
    overdue,      \* the leases whose deadline has passed
    cooling,      \* peers whose cooldownTil lies ahead
    ChunkOwners,  \* s.ChunkOwners
    PeerOwners,   \* s.PeerOwners, of the receivers
    chunkNum,     \* chunks of the file being served, or NoFile
    responding,   \* wantChunk answers leased but not yet written out
    named         \* history: the lease that the last step was asked to give back

peerVars == <<Peers, handler>>
leaseVars == <<connNum, leases, overdue>>
ownerVars == <<ChunkOwners, PeerOwners, chunkNum>>
vars == <<peerVars, leaseVars, cooling, ownerVars, responding, named>>

HandlerState == {"none", "acked", "added", "zoned", "gone"}

(***************************************************************************)
(* The one type invariant: every field of Session and Peer holds values    *)
(* the handlers can store, and only leases that exist can be overdue.      *)
(***************************************************************************)
TypeOK ==
    /\ Peers \subseteq Node
    /\ handler \in [Receivers -> HandlerState]
    /\ connNum \in [Node -> Nat]
    /\ leases \in [Node -> SUBSET LeaseKey]
    /\ overdue \in [Node -> SUBSET LeaseKey]
    /\ \A n \in Node : overdue[n] \subseteq leases[n]
    /\ cooling \subseteq Receivers
    /\ ChunkOwners \in [Index -> SUBSET Node]
    /\ PeerOwners \in [Receivers -> SUBSET Index]
    /\ chunkNum \in {NoFile} \cup 0 .. MaxChunks
    /\ responding \subseteq Writers \X Node \X LeaseKey
    /\ named \subseteq Node \X LeaseKey

-----------------------------------------------------------------------------
\* NewGspSession, followed by MarkSender on a sender's session but not on a
\* receiver's own, which answers the same requests.
Init ==
    /\ Peers \in {{}, {Central}}
    /\ handler = [u \in Receivers |-> "none"]
    /\ connNum = [n \in Node |-> 0]
    /\ leases = [n \in Node |-> {}]
    /\ overdue = [n \in Node |-> {}]
    /\ cooling = {}
    /\ ChunkOwners = [i \in Index |-> {}]
    /\ PeerOwners = [u \in Receivers |-> {}]
    /\ chunkNum = NoFile
    /\ responding = {} /\ named = {}

-----------------------------------------------------------------------------
(* Registration: one PeerReg handler per receiver. *)

\* The request is accepted and {"ready":true} written, before AddPeer runs:
\* from here on the receiver may use the tracker.
PeerRegAck(u) ==
    /\ handler[u] = "none"
    /\ handler' = [handler EXCEPT ![u] = "acked"]
    /\ named' = {}
    /\ UNCHANGED <<Peers, leaseVars, cooling, ownerVars, responding>>

\* A new entry starts without leases, load or cooldown; an entry that exists
\* only changes its connection.
AddPeer(u) ==
    /\ handler[u] = "acked"
    /\ handler' = [handler EXCEPT ![u] = "added"]
    /\ Peers' = Peers \cup {u}
    /\ IF u \in Peers
         THEN UNCHANGED <<leaseVars, cooling>>
         ELSE /\ connNum' = [connNum EXCEPT ![u] = 0]
              /\ leases' = [leases EXCEPT ![u] = {}]
              /\ overdue' = [overdue EXCEPT ![u] = {}]
              /\ cooling' = cooling \ {u}
    /\ named' = {}
    /\ UNCHANGED <<ownerVars, responding>>

SetPeerZone(u) ==
    /\ handler[u] = "added"
    /\ handler' = [handler EXCEPT ![u] = "zoned"]
    /\ named' = {}
    /\ UNCHANGED <<Peers, leaseVars, cooling, ownerVars, responding>>

\* RemovePeer: the entry goes with everything stored in it, and the peer
\* leaves both ownership maps.
DropOwner(u) ==
    /\ ChunkOwners' = [i \in Index |->
                         IF i \in PeerOwners[u] THEN ChunkOwners[i] \ {u}
                                                ELSE ChunkOwners[i]]
    /\ PeerOwners' = [PeerOwners EXCEPT ![u] = {}]

\* The registration connection ends (peer closed, died, or the session stops).
RemovePeer(u) ==
    /\ handler[u] = "zoned"
    /\ handler' = [handler EXCEPT ![u] = "gone"]
    /\ Peers' = Peers \ {u}
    /\ connNum' = [connNum EXCEPT ![u] = 0]
    /\ leases' = [leases EXCEPT ![u] = {}]
    /\ overdue' = [overdue EXCEPT ![u] = {}]
    /\ cooling' = cooling \ {u}
    /\ DropOwner(u)
    /\ named' = {}
    /\ UNCHANGED <<chunkNum, responding>>

-----------------------------------------------------------------------------
(* wantChunk: expire, choose, lease; then write the answer outside the lock *)

Less(a, b) == IF a > b THEN a - b ELSE 0

NotExpiredLoad(n) == connNum[n]

\* expireLeasesLocked: one decrement, never below zero, per overdue lease.
ExpiredLoad(n) == Less(connNum[n], Cardinality(overdue[n]))
ExpiredLeases(n) == leases[n] \ overdue[n]

EligibleAtLimit(p, r, i) ==
    /\ p \in ChunkOwners[i]
    /\ p \in Peers
    /\ p \notin {r, Central}
    /\ p \notin cooling
    /\ ExpiredLoad(p) <= MaxInflight

\* The peers candidatesLocked keeps; the central session always joins them.
\* Scores only order this set: speeds, failures and locality are left to the
\* choice of the first candidate.
Eligible(p, r, i) ==
    /\ p \in ChunkOwners[i]
    /\ p \in Peers
    /\ p \notin {r, Central}
    /\ p \notin cooling
    /\ ExpiredLoad(p) < MaxInflight

candidatesLocked(r, i) ==
    {p \in Receivers : Eligible(p, r, i)} \cup {Central}

leaseCountedTwice(s, k) ==
    /\ Peers' = Peers \cup {s}
    /\ connNum' = [n \in Node |->
                     IF n = s THEN ExpiredLoad(n) + 1 ELSE ExpiredLoad(n)]
    /\ leases' = [n \in Node |->
                     IF n = s THEN ExpiredLeases(n) \cup {k}
                              ELSE ExpiredLeases(n)]
    /\ overdue' = [n \in Node |-> {}]

\* leaseLocked on the expired state: a lease that exists is only renewed, and
\* a session without an entry of its own gets one.
leaseLocked(s, k) ==
    /\ Peers' = Peers \cup {s}
    /\ connNum' = [n \in Node |->
                     IF n = s /\ k \notin ExpiredLeases(n)
                       THEN ExpiredLoad(n) + 1 ELSE ExpiredLoad(n)]
    /\ leases' = [n \in Node |->
                     IF n = s THEN ExpiredLeases(n) \cup {k}
                              ELSE ExpiredLeases(n)]
    /\ overdue' = [n \in Node |-> {}]

\* A requester that gave up may ask again while its first answer is still being
\* written by another goroutine w.
WantRequest(w, r, i) ==
    /\ handler[r] # "none"
    /\ \A a \in responding : a[1] # w
    /\ Cardinality(UNION {{<<n, k>> : k \in leases[n]} : n \in Node})
         < MaxLeases
    /\ \E first \in candidatesLocked(r, i) :
          /\ leaseLocked(first, <<r, i>>)
          /\ responding' = responding \cup {<<w, first, <<r, i>>>>}
    /\ named' = {}
    /\ UNCHANGED <<handler, cooling, ownerVars>>

Responded(a) ==
    /\ responding' = responding \ {a}
    /\ named' = {}
    /\ UNCHANGED <<peerVars, leaseVars, cooling, ownerVars>>

GiveBackOfAnyone(s, k) ==
    /\ named' = {<<s, k>>}
    /\ \/ \E j \in leases[s] :
             /\ j[2] = k[2]
             /\ connNum' = [connNum EXCEPT ![s] = Less(@, 1)]
             /\ leases' = [leases EXCEPT ![s] = @ \ {j}]
             /\ overdue' = [overdue EXCEPT ![s] = @ \ {j}]
       \/ (\A j \in leases[s] : j[2] # k[2]) /\ UNCHANGED leaseVars

\* release and the first half of UpdatePeer: give back a lease if it is held.
GiveBack(s, k) ==
    /\ named' = {<<s, k>>}
    /\ IF k \in leases[s]
         THEN /\ connNum' = [connNum EXCEPT ![s] = Less(@, 1)]
              /\ leases' = [leases EXCEPT ![s] = @ \ {k}]
              /\ overdue' = [overdue EXCEPT ![s] = @ \ {k}]
         ELSE UNCHANGED leaseVars

\* EncodeTo failed: q.release takes the lock again, whatever happened since.
RespondFailed(a) ==
    /\ responding' = responding \ {a}
    /\ GiveBack(a[2], a[3])
    /\ UNCHANGED <<peerVars, cooling, ownerVars>>

-----------------------------------------------------------------------------
(* Reports.  They carry no task or generation, so any receiver that was    *)
(* acknowledged may still have one under way for any chunk and provider.   *)

AddBlockOwnerUnregistered(u, i) ==
    /\ handler[u] # "none"
    /\ chunkNum # NoFile /\ i < chunkNum
    /\ ChunkOwners' = [ChunkOwners EXCEPT ![i] = @ \cup {u}]
    /\ PeerOwners' = [PeerOwners EXCEPT ![u] = @ \cup {i}]
    /\ named' = {}
    /\ UNCHANGED <<peerVars, leaseVars, cooling, chunkNum, responding>>

AddBlockOwner(u, i) ==
    /\ handler[u] # "none"
    /\ chunkNum # NoFile /\ i < chunkNum /\ u \in Peers
    /\ ChunkOwners' = [ChunkOwners EXCEPT ![i] = @ \cup {u}]
    /\ PeerOwners' = [PeerOwners EXCEPT ![u] = @ \cup {i}]
    /\ named' = {}
    /\ UNCHANGED <<peerVars, leaseVars, cooling, chunkNum, responding>>

UpdatePeerDone(p, i, r) ==
    /\ handler[r] # "none" /\ p \in Peers
    /\ GiveBack(p, <<r, i>>)
    /\ cooling' = cooling \ {p}
    /\ UNCHANGED <<peerVars, ownerVars, responding>>

\* A failed transfer also takes the chunk from the provider and cools it
\* down.  The central session keeps its chunks, and its cooldown is never read.
UpdatePeerFailed(p, i, r) ==
    /\ handler[r] # "none" /\ p \in Peers
    /\ GiveBack(p, <<r, i>>)
    /\ IF p = Central
         THEN UNCHANGED <<cooling, ChunkOwners, PeerOwners>>
         ELSE /\ ChunkOwners' = [ChunkOwners EXCEPT ![i] = @ \ {p}]
              /\ PeerOwners' = [PeerOwners EXCEPT ![p] = @ \ {i}]
              /\ cooling' = cooling \cup {p}
    /\ UNCHANGED <<peerVars, chunkNum, responding>>

-----------------------------------------------------------------------------
(* The file being served.  The application retires one before the next. *)

\* A fresh entry replaces the session's own, leases included.
BeSendMain(n) ==
    /\ chunkNum = NoFile
    /\ chunkNum' = n
    /\ Peers' = Peers \cup {Central}
    /\ connNum' = [connNum EXCEPT ![Central] = 0]
    /\ leases' = [leases EXCEPT ![Central] = {}]
    /\ overdue' = [overdue EXCEPT ![Central] = {}]
    /\ ChunkOwners' = [i \in Index |->
                         IF i < n THEN ChunkOwners[i] \cup {Central}
                                  ELSE ChunkOwners[i]]
    /\ named' = {}
    /\ UNCHANGED <<handler, PeerOwners, cooling, responding>>

ClearContent ==
    /\ chunkNum # NoFile
    /\ chunkNum' = NoFile
    /\ ChunkOwners' = [i \in Index |-> {}]
    /\ PeerOwners' = [u \in Receivers |-> {}]
    /\ connNum' = [n \in Node |-> 0]
    /\ leases' = [n \in Node |-> {}]
    /\ overdue' = [n \in Node |-> {}]
    /\ named' = {}
    /\ UNCHANGED <<peerVars, cooling, responding>>

-----------------------------------------------------------------------------
(* Time: leaseTTL and the cooldown elapse without any handler running. *)

LeaseOverdue(n, k) ==
    /\ k \in leases[n] \ overdue[n]
    /\ overdue' = [overdue EXCEPT ![n] = @ \cup {k}]
    /\ named' = {}
    /\ UNCHANGED <<peerVars, connNum, leases, cooling, ownerVars, responding>>

CooldownEnds(u) ==
    /\ u \in cooling
    /\ cooling' = cooling \ {u}
    /\ named' = {}
    /\ UNCHANGED <<peerVars, leaseVars, ownerVars, responding>>

-----------------------------------------------------------------------------
PeerReg(u) == PeerRegAck(u) \/ AddPeer(u) \/ SetPeerZone(u) \/ RemovePeer(u)

Next ==
    \/ \E u \in Receivers : PeerReg(u)
    \/ \E w \in Writers, r \in Receivers, i \in Index : WantRequest(w, r, i)
    \/ \E a \in responding : Responded(a) \/ RespondFailed(a)
    \/ \E u \in Receivers, i \in Index : AddBlockOwner(u, i)
    \/ \E p \in Node, i \in Index, r \in Receivers :
          UpdatePeerDone(p, i, r) \/ UpdatePeerFailed(p, i, r)
    \/ \E n \in 0 .. MaxChunks : BeSendMain(n)
    \/ ClearContent
    \/ \E n \in Node : \E k \in leases[n] : LeaseOverdue(n, k)
    \/ \E u \in Receivers : CooldownEnds(u)

Spec == Init /\ [][Next]_vars

-----------------------------------------------------------------------------
(* coordinateOnce reads this state under the lock and changes none of it:  *)
(* its commands are operators of the state.                                *)

ZonePeers(z) ==
    {u \in Receivers : u \in Peers /\ handler[u] = "zoned" /\ ZoneOf[u] = z}

OwnedByAll(z) == {c \in Index : \A u \in ZonePeers(z) : c \in PeerOwners[u]}

\* zoneInfo.owned
ZoneOwned(z) == UNION {PeerOwners[u] : u \in ZonePeers(z)}

\* The node closest to a full copy; ties fall to the map's iteration order.
BestPeers(z) ==
    {u \in ZonePeers(z) : \A v \in ZonePeers(z) :
        Cardinality(PeerOwners[v]) <= Cardinality(PeerOwners[u])}

\* The first MaxPrefetch chunks missing from the zone.
PrefetchIndexes(z) ==
    {c \in Index :
        /\ c < chunkNum
        /\ c \notin ZoneOwned(z)
        /\ Cardinality({d \in 0 .. c - 1 : d \notin ZoneOwned(z)}) < MaxPrefetch}

\* Commands one tick may send to a zone: one best peer gets all of them.
PrefetchCommands(z) == BestPeers(z) \X PrefetchIndexes(z)

\* Peers the coordinator would slow down, if their speed is low.
BackoffTargets == {u \in Receivers : u \in Peers /\ connNum[u] > BackoffOverloadConn}

-----------------------------------------------------------------------------
(* Properties *)

\* connNum, which scheduling and Snapshot read, is exactly the number of
\* leases held on the source: late, repeated and foreign reports (UpdatePeer),
\* failed answers (release), expiry, departures and ClearContent never make
\* the counter drift from the set it counts.
LeaseAccounting == \A n \in Node : connNum[n] = Cardinality(leases[n])

\* candidatesLocked never lets a source other than the central session carry
\* more than maxInflight leases, however requests and expiries interleave.
SourceLoadBounded == \A u \in Receivers : connNum[u] <= MaxInflight

\* ChunkOwners and PeerOwners are two indexes of one relation, restricted to
\* chunks of the file being served; the sender's own entry is in ChunkOwners
\* alone and covers that file.  Every owner is in Peers, and a receiver is there
\* exactly while its PeerReg goroutine stands between AddPeer and the deferred
\* RemovePeer: a report that arrives after its sender left cannot bring it back.
OwnershipAgrees ==
    /\ \A i \in Index, u \in Receivers :
          u \in ChunkOwners[i] <=> i \in PeerOwners[u]
    /\ \A i \in Index : ChunkOwners[i] # {} => i < chunkNum
    /\ \A i \in Index : i < chunkNum => Central \in ChunkOwners[i]
    /\ \A u \in Receivers : u \in Peers <=> handler[u] \in {"added", "zoned"}
    /\ \A i \in Index : ChunkOwners[i] \subseteq Peers

\* "A dead client cannot occupy connNum for ever": a source whose live leases
\* are below maxInflight is offered to the next request for a chunk it owns,
\* whatever leases of vanished requesters have run out on it.
DeadLeasesNeverStarve ==
    \A p \in Receivers, r \in Receivers, i \in Index :
        /\ p \in ChunkOwners[i] /\ p # r /\ p \notin cooling
        /\ Cardinality(leases[p] \ overdue[p]) < MaxInflight
        => p \in candidatesLocked(r, i)

\* coordinateOnce asks a zone for a chunk only if no registered node of the
\* zone owns it according to ChunkOwners, the index that requests are answered
\* from, and never falls silent while the zone misses a chunk of the file.
PrefetchOnlyMissing ==
    \A z \in Zones :
        LET missing == {c \in Index :
                          c < chunkNum /\ ZonePeers(z) \cap ChunkOwners[c] = {}}
        IN  /\ \A cmd \in PrefetchCommands(z) : cmd[2] \in missing
            /\ (ZonePeers(z) # {} /\ missing # {}) => PrefetchCommands(z) # {}

\* A lease that has not run out is lost only to a step that names this source,
\* requester and chunk: its requester's report (UpdatePeer) or the failure of an
\* answer that leased it (release), unless the source leaves or the file changes.
\* Expiry, renewals and the reports of others never take it, however late.
LiveLeasesKept ==
    [][chunkNum' = chunkNum =>
          \A n \in Node \cap Peers' : \A k \in leases[n] \ overdue[n] :
              k \in leases'[n] \/ <<n, k>> \in named']_vars

=============================================================================
