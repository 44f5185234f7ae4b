---------------------------- MODULE TrackerProofs ----------------------------
(***************************************************************************)
(* Proofs about the tracker for any set of receivers, any number of chunks *)
(* and any limits.  The inductive invariant is the conjunction of the type *)
(* invariant, the lease accounting (with the fact that the leases of a     *)
(* source are finitely many, without which their number means nothing),    *)
(* the load bound and the two ownership invariants.                        *)
(***************************************************************************)
EXTENDS Tracker, FiniteSetTheorems, WellFoundedInduction, NaturalsInduction, TLAPS

LeasesFinite == \A n \in Node : IsFiniteSet(leases[n])

LeaseInv == LeasesFinite /\ LeaseAccounting

-----------------------------------------------------------------------------
\* A set loses as many elements as are taken from it.
LEMMA CardinalityMinus ==
    ASSUME NEW S, NEW T, T \subseteq S, IsFiniteSet(S)
    PROVE  /\ IsFiniteSet(S \ T) /\ IsFiniteSet(T)
           /\ Cardinality(S) \in Nat /\ Cardinality(T) \in Nat
           /\ Cardinality(S \ T) \in Nat
           /\ Cardinality(S \ T) = Cardinality(S) - Cardinality(T)
<1>1. IsFiniteSet(S \ T) /\ IsFiniteSet(T)
  BY FS_Subset
<1>2. (S \ T) \cup T = S /\ (S \ T) \cap T = {}
  OBVIOUS
<1>3. Cardinality(S) = Cardinality(S \ T) + Cardinality(T) - Cardinality({})
  BY <1>1, <1>2, FS_Union, Zenon
<1>4. /\ Cardinality(S) \in Nat /\ Cardinality(T) \in Nat
      /\ Cardinality(S \ T) \in Nat /\ Cardinality({}) = 0
  BY <1>1, FS_CardinalityType, FS_EmptySet
<1>. QED BY <1>1, <1>3, <1>4

\* Under the accounting, expireLeasesLocked leaves each source with a load that
\* is the number of the leases it keeps.
LEMMA ExpiryExact ==
    ASSUME TypeOK, LeaseInv, NEW n \in Node
    PROVE  /\ IsFiniteSet(ExpiredLeases(n))
           /\ ExpiredLoad(n) \in Nat
           /\ ExpiredLoad(n) = Cardinality(ExpiredLeases(n))
           /\ ExpiredLoad(n) <= connNum[n]
<1>1. overdue[n] \subseteq leases[n] /\ IsFiniteSet(leases[n])
      /\ connNum[n] = Cardinality(leases[n])
  BY DEF TypeOK, LeaseInv, LeasesFinite, LeaseAccounting
<1>2. /\ IsFiniteSet(leases[n] \ overdue[n])
      /\ Cardinality(leases[n]) \in Nat /\ Cardinality(overdue[n]) \in Nat
      /\ Cardinality(leases[n] \ overdue[n]) \in Nat
      /\ Cardinality(leases[n] \ overdue[n])
           = Cardinality(leases[n]) - Cardinality(overdue[n])
  BY <1>1, CardinalityMinus
<1>. QED BY <1>1, <1>2 DEF ExpiredLoad, ExpiredLeases, Less

-----------------------------------------------------------------------------
\* The initial state: nothing leased, nothing owned.
LEMMA InitTypeOK == Init => TypeOK
BY TrackerConstants DEF Init, TypeOK, Node, Index, NoFile, HandlerState

\* Every handler stores values of the declared types.
LEMMA NextTypeOK ==
    ASSUME TypeOK, LeaseInv, [Next]_vars
    PROVE  TypeOK'
<1>. USE DEF TypeOK
<1>1. ASSUME NEW u \in Receivers, PeerRegAck(u) PROVE TypeOK'
  BY <1>1 DEF PeerRegAck, HandlerState, leaseVars, ownerVars
<1>2. ASSUME NEW u \in Receivers, AddPeer(u) PROVE TypeOK'
  BY <1>2 DEF AddPeer, HandlerState, leaseVars, ownerVars, Node
<1>3. ASSUME NEW u \in Receivers, SetPeerZone(u) PROVE TypeOK'
  BY <1>3 DEF SetPeerZone, HandlerState, leaseVars, ownerVars
<1>4. ASSUME NEW u \in Receivers, RemovePeer(u) PROVE TypeOK'
  BY <1>4 DEF RemovePeer, DropOwner, HandlerState, Node
<1>5. ASSUME NEW w \in Writers, NEW r \in Receivers, NEW i \in Index, WantRequest(w, r, i)
      PROVE TypeOK'
  <2>1. PICK first \in candidatesLocked(r, i) :
           /\ leaseLocked(first, <<r, i>>)
           /\ responding' = responding \cup {<<w, first, <<r, i>>>>}
    BY <1>5 DEF WantRequest
  <2>2. first \in Node /\ <<r, i>> \in LeaseKey
    BY <2>1 DEF candidatesLocked, Node, LeaseKey
  <2>3. \A n \in Node : ExpiredLoad(n) \in Nat /\ ExpiredLeases(n) \subseteq LeaseKey
    BY ExpiryExact DEF ExpiredLeases
  <2>. QED BY <1>5, <2>1, <2>2, <2>3 DEF WantRequest, leaseLocked, ownerVars
<1>6. ASSUME NEW a \in responding, Responded(a) PROVE TypeOK'
  BY <1>6 DEF Responded, peerVars, leaseVars, ownerVars
<1>7. ASSUME NEW a \in responding, RespondFailed(a) PROVE TypeOK'
  <2>1. a[2] \in Node /\ a[3] \in LeaseKey
    OBVIOUS
  <2>. QED BY <1>7, <2>1 DEF RespondFailed, GiveBack, Less, peerVars, leaseVars, ownerVars
<1>8. ASSUME NEW u \in Receivers, NEW i \in Index, AddBlockOwner(u, i)
      PROVE TypeOK'
  BY <1>8 DEF AddBlockOwner, peerVars, leaseVars, Node
<1>9. ASSUME NEW p \in Node, NEW i \in Index, NEW r \in Receivers,
             UpdatePeerDone(p, i, r)
      PROVE TypeOK'
  BY <1>9 DEF UpdatePeerDone, GiveBack, Less, LeaseKey, peerVars, leaseVars, ownerVars
<1>10. ASSUME NEW p \in Node, NEW i \in Index, NEW r \in Receivers,
              UpdatePeerFailed(p, i, r)
       PROVE TypeOK'
  BY <1>10 DEF UpdatePeerFailed, GiveBack, Less, LeaseKey, peerVars, leaseVars, Node
<1>11. ASSUME NEW n \in 0 .. MaxChunks, BeSendMain(n) PROVE TypeOK'
  BY <1>11 DEF BeSendMain, Node
<1>12. CASE ClearContent
  BY <1>12 DEF ClearContent, peerVars
<1>13. ASSUME NEW n \in Node, NEW k \in leases[n], LeaseOverdue(n, k)
       PROVE TypeOK'
  BY <1>13 DEF LeaseOverdue, peerVars, ownerVars
<1>14. ASSUME NEW u \in Receivers, CooldownEnds(u) PROVE TypeOK'
  BY <1>14 DEF CooldownEnds, peerVars, leaseVars, ownerVars
<1>15. CASE UNCHANGED vars
  BY <1>15 DEF vars, peerVars, leaseVars, ownerVars
<1>. QED
  BY <1>1, <1>2, <1>3, <1>4, <1>5, <1>6, <1>7, <1>8, <1>9, <1>10, <1>11,
     <1>12, <1>13, <1>14, <1>15 DEF Next, PeerReg

-----------------------------------------------------------------------------
\* Giving a lease back keeps the count exact, whoever asks and however often.
LEMMA GiveBackExact ==
    ASSUME TypeOK, LeaseInv, NEW s \in Node, NEW k, GiveBack(s, k)
    PROVE  LeaseInv' /\ \A n \in Node : connNum'[n] <= connNum[n]
<1>1. CASE k \notin leases[s]
  BY <1>1 DEF GiveBack, leaseVars, LeaseInv, LeasesFinite, LeaseAccounting, TypeOK
<1>2. CASE k \in leases[s]
  <2>1. /\ connNum' = [connNum EXCEPT ![s] = Less(@, 1)]
        /\ leases' = [leases EXCEPT ![s] = @ \ {k}]
    BY <1>2 DEF GiveBack
  <2>2. /\ IsFiniteSet(leases[s] \ {k})
        /\ Cardinality(leases[s] \ {k}) = Cardinality(leases[s]) - 1
        /\ Cardinality(leases[s] \ {k}) \in Nat
    BY <1>2, FS_RemoveElement, FS_CardinalityType
       DEF LeaseInv, LeasesFinite
  <2>3. connNum[s] = Cardinality(leases[s]) /\ connNum \in [Node -> Nat]
        /\ leases \in [Node -> SUBSET LeaseKey]
    BY DEF LeaseInv, LeaseAccounting, TypeOK
  <2>4. Less(connNum[s], 1) = Cardinality(leases[s] \ {k})
    BY <2>2, <2>3 DEF Less
  <2>5. \A n \in Node : /\ connNum'[n] = IF n = s THEN Less(connNum[s], 1)
                                              ELSE connNum[n]
                        /\ leases'[n] = IF n = s THEN leases[s] \ {k}
                                             ELSE leases[n]
    BY <2>1, <2>3
  <2>6. LeaseInv'
    BY <2>2, <2>4, <2>5 DEF LeaseInv, LeasesFinite, LeaseAccounting
  <2>. QED BY <2>2, <2>3, <2>4, <2>5, <2>6
<1>. QED BY <1>1, <1>2

\* leaseLocked counts a new lease once and a renewed one not at all.
LEMMA LeaseLockedExact ==
    ASSUME TypeOK, LeaseInv, NEW s \in Node, NEW k, leaseLocked(s, k)
    PROVE  /\ LeaseInv'
           /\ \A n \in Node : n # s => connNum'[n] <= connNum[n]
           /\ connNum'[s] <= ExpiredLoad(s) + 1
<1>1. \A n \in Node : /\ IsFiniteSet(ExpiredLeases(n))
                      /\ ExpiredLoad(n) \in Nat
                      /\ ExpiredLoad(n) = Cardinality(ExpiredLeases(n))
                      /\ ExpiredLoad(n) <= connNum[n]
  BY ExpiryExact
<1>2. /\ IsFiniteSet(ExpiredLeases(s) \cup {k})
      /\ Cardinality(ExpiredLeases(s) \cup {k}) =
           IF k \in ExpiredLeases(s) THEN ExpiredLoad(s) ELSE ExpiredLoad(s) + 1
  <2>. DEFINE E == ExpiredLeases(s)
  <2>1. IsFiniteSet(E) /\ ExpiredLoad(s) = Cardinality(E)
    BY <1>1
  <2>. HIDE DEF E
  <2>2. /\ IsFiniteSet(E \cup {k})
        /\ Cardinality(E \cup {k}) =
             IF k \in E THEN Cardinality(E) ELSE Cardinality(E) + 1
    BY <2>1, FS_AddElement
  <2>. QED BY <2>1, <2>2 DEF E
<1>3. /\ \A n \in Node : connNum'[n] =
           IF n = s /\ k \notin ExpiredLeases(n)
             THEN ExpiredLoad(n) + 1 ELSE ExpiredLoad(n)
      /\ \A n \in Node : leases'[n] =
           IF n = s THEN ExpiredLeases(n) \cup {k} ELSE ExpiredLeases(n)
  BY DEF leaseLocked
<1>4. LeaseInv'
  BY <1>1, <1>2, <1>3 DEF LeaseInv, LeasesFinite, LeaseAccounting
<1>. QED BY <1>1, <1>3, <1>4

\* What a step does to leases and loads: the accounting survives, and only a
\* lease given to an eligible source raises the load of a receiver.
LEMMA NextLeaseInv ==
    ASSUME TypeOK, LeaseInv, SourceLoadBounded, [Next]_vars
    PROVE  LeaseInv' /\ SourceLoadBounded'
<1>. USE DEF TypeOK
<1>a. \A u \in Receivers : u \in Node
  BY DEF Node
<1>b. \A u \in Receivers : connNum[u] \in Nat /\ connNum[u] <= MaxInflight
  BY <1>a DEF SourceLoadBounded
<1>c. MaxInflight \in Nat /\ 0 <= MaxInflight
  BY TrackerConstants
<1>d. IsFiniteSet({}) /\ Cardinality({}) = 0
  BY FS_EmptySet
<1>e. ASSUME UNCHANGED <<connNum, leases>> PROVE LeaseInv' /\ SourceLoadBounded'
  BY <1>e DEF LeaseInv, LeasesFinite, LeaseAccounting, SourceLoadBounded
<1>f. ASSUME NEW s \in Node,
             connNum' = [connNum EXCEPT ![s] = 0],
             leases' = [leases EXCEPT ![s] = {}]
      PROVE LeaseInv' /\ SourceLoadBounded'
  <2>1. \A n \in Node : connNum'[n] = IF n = s THEN 0 ELSE connNum[n]
    BY <1>f
  <2>2. \A n \in Node : leases'[n] = IF n = s THEN {} ELSE leases[n]
    BY <1>f
  <2>. QED BY <2>1, <2>2, <1>a, <1>b, <1>c, <1>d
           DEF LeaseInv, LeasesFinite, LeaseAccounting, SourceLoadBounded
<1>g. ASSUME NEW s \in Node, NEW k, GiveBack(s, k)
      PROVE LeaseInv' /\ SourceLoadBounded'
  <2>1. LeaseInv' /\ \A n \in Node : connNum'[n] <= connNum[n]
    BY <1>g, GiveBackExact
  <2>2. \A n \in Node : connNum'[n] \in Nat
    BY <2>1, FS_CardinalityType DEF LeaseInv, LeasesFinite, LeaseAccounting
  <2>. QED BY <2>1, <2>2, <1>a, <1>b, <1>c DEF SourceLoadBounded
<1>1. ASSUME NEW u \in Receivers, PeerRegAck(u)
      PROVE LeaseInv' /\ SourceLoadBounded'
  BY <1>1, <1>e DEF PeerRegAck, leaseVars
<1>2. ASSUME NEW u \in Receivers, AddPeer(u)
      PROVE LeaseInv' /\ SourceLoadBounded'
  <2>1. CASE u \in Peers
    BY <1>2, <2>1, <1>e DEF AddPeer, leaseVars
  <2>2. CASE u \notin Peers
    BY <1>2, <2>2, <1>a, <1>f DEF AddPeer
  <2>. QED BY <2>1, <2>2
<1>3. ASSUME NEW u \in Receivers, SetPeerZone(u)
      PROVE LeaseInv' /\ SourceLoadBounded'
  BY <1>3, <1>e DEF SetPeerZone, leaseVars
<1>4. ASSUME NEW u \in Receivers, RemovePeer(u)
      PROVE LeaseInv' /\ SourceLoadBounded'
  BY <1>4, <1>a, <1>f DEF RemovePeer
<1>5. ASSUME NEW w \in Writers, NEW r \in Receivers, NEW i \in Index, WantRequest(w, r, i)
      PROVE LeaseInv' /\ SourceLoadBounded'
  <2>1. PICK first \in candidatesLocked(r, i) : leaseLocked(first, <<r, i>>)
    BY <1>5 DEF WantRequest
  <2>2. first \in Node /\ (first \in Receivers => ExpiredLoad(first) < MaxInflight)
    BY <2>1, TrackerConstants DEF candidatesLocked, Eligible, Node
  <2>3. /\ LeaseInv'
        /\ \A n \in Node : n # first => connNum'[n] <= connNum[n]
        /\ connNum'[first] <= ExpiredLoad(first) + 1
    BY <2>1, <2>2, LeaseLockedExact
  <2>4. ExpiredLoad(first) \in Nat
    BY <2>2, ExpiryExact
  <2>5. \A n \in Node : connNum'[n] \in Nat
    BY <2>3, FS_CardinalityType DEF LeaseInv, LeasesFinite, LeaseAccounting
  <2>6. ASSUME NEW u \in Receivers PROVE connNum'[u] <= MaxInflight
    BY <2>2, <2>3, <2>4, <2>5, <1>a, <1>b, <1>c
  <2>. QED BY <2>3, <2>6 DEF SourceLoadBounded
<1>6. ASSUME NEW a \in responding, Responded(a)
      PROVE LeaseInv' /\ SourceLoadBounded'
  BY <1>6, <1>e DEF Responded, leaseVars
<1>7. ASSUME NEW a \in responding, RespondFailed(a)
      PROVE LeaseInv' /\ SourceLoadBounded'
  <2>1. a[2] \in Node /\ GiveBack(a[2], a[3])
    BY <1>7 DEF RespondFailed
  <2>. QED BY <2>1, <1>g
<1>8. ASSUME NEW u \in Receivers, NEW i \in Index, AddBlockOwner(u, i)
      PROVE LeaseInv' /\ SourceLoadBounded'
  BY <1>8, <1>e DEF AddBlockOwner, leaseVars
<1>9. ASSUME NEW p \in Node, NEW i \in Index, NEW r \in Receivers,
             UpdatePeerDone(p, i, r) \/ UpdatePeerFailed(p, i, r)
      PROVE LeaseInv' /\ SourceLoadBounded'
  <2>1. GiveBack(p, <<r, i>>)
    BY <1>9 DEF UpdatePeerDone, UpdatePeerFailed
  <2>. QED BY <2>1, <1>g
<1>10. ASSUME NEW n \in 0 .. MaxChunks, BeSendMain(n)
       PROVE LeaseInv' /\ SourceLoadBounded'
  <2>1. Central \in Node
    BY DEF Node
  <2>. QED BY <1>10, <2>1, <1>f DEF BeSendMain
<1>11. CASE ClearContent
  <2>1. \A n \in Node : connNum'[n] = 0 /\ leases'[n] = {}
    BY <1>11 DEF ClearContent
  <2>. QED BY <2>1, <1>a, <1>c, <1>d
           DEF LeaseInv, LeasesFinite, LeaseAccounting, SourceLoadBounded
<1>12. ASSUME NEW n \in Node, NEW k \in leases[n], LeaseOverdue(n, k)
       PROVE LeaseInv' /\ SourceLoadBounded'
  BY <1>12, <1>e DEF LeaseOverdue
<1>13. ASSUME NEW u \in Receivers, CooldownEnds(u)
       PROVE LeaseInv' /\ SourceLoadBounded'
  BY <1>13, <1>e DEF CooldownEnds, leaseVars
<1>14. CASE UNCHANGED vars
  BY <1>14, <1>e DEF vars, leaseVars
<1>. QED
  BY <1>1, <1>2, <1>3, <1>4, <1>5, <1>6, <1>7, <1>8, <1>9, <1>10, <1>11,
     <1>12, <1>13, <1>14 DEF Next, PeerReg

\* The lease half of the inductive invariant, for every behaviour.
THEOREM LeaseInvariant == Spec => [](TypeOK /\ LeaseInv /\ SourceLoadBounded)
<1>1. Init => TypeOK /\ LeaseInv /\ SourceLoadBounded
  BY InitTypeOK, FS_EmptySet, TrackerConstants
     DEF Init, LeaseInv, LeasesFinite, LeaseAccounting, SourceLoadBounded, Node
<1>2. TypeOK /\ LeaseInv /\ SourceLoadBounded /\ [Next]_vars
        => (TypeOK /\ LeaseInv /\ SourceLoadBounded)'
  BY NextTypeOK, NextLeaseInv
<1>. QED BY <1>1, <1>2, PTL DEF Spec

\* Every field of the tracker keeps its type, in every behaviour.
THEOREM TypeCorrect == Spec => []TypeOK
BY LeaseInvariant, PTL

\* connNum is the number of leases on the source, whatever order requests,
\* reports, expiries, departures and file changes come in.
THEOREM LeasesCounted == Spec => []LeaseAccounting
<1>1. LeaseInv => LeaseAccounting
  BY DEF LeaseInv
<1>. QED BY <1>1, LeaseInvariant, PTL

\* No receiver is ever lent out more than maxInflight times.
THEOREM LoadBounded == Spec => []SourceLoadBounded
BY LeaseInvariant, PTL

\* As a consequence the overload test of coordinateOnce is never true, for any
\* limits with maxInflight <= backoffOverloadConn: no backoff is ever sent.
THEOREM BackoffUnreachable == Spec => [](BackoffTargets = {})
<1>1. TypeOK /\ SourceLoadBounded => BackoffTargets = {}
  <2>. SUFFICES ASSUME TypeOK, SourceLoadBounded, NEW u \in Receivers,
                       connNum[u] > BackoffOverloadConn
                PROVE FALSE
    BY DEF BackoffTargets
  <2>1. connNum[u] \in Nat /\ connNum[u] <= MaxInflight
    BY DEF TypeOK, Node, SourceLoadBounded
  <2>. QED BY <2>1, TrackerConstants, OverloadAboveInflight
<1>. QED BY <1>1, LeaseInvariant, PTL

-----------------------------------------------------------------------------
\* Registration, reports and file changes keep the two ownership maps mirrored
\* and confined to registered peers.
LEMMA NextOwnershipAgrees ==
    ASSUME TypeOK, OwnershipAgrees, [Next]_vars
    PROVE  OwnershipAgrees'
<1>. USE TrackerConstants DEF TypeOK, OwnershipAgrees
<1>1. ASSUME NEW u \in Receivers, PeerRegAck(u) PROVE OwnershipAgrees'
  BY <1>1 DEF PeerRegAck, ownerVars
<1>2. ASSUME NEW u \in Receivers, AddPeer(u) PROVE OwnershipAgrees'
  BY <1>2 DEF AddPeer, ownerVars
<1>3. ASSUME NEW u \in Receivers, SetPeerZone(u) PROVE OwnershipAgrees'
  BY <1>3 DEF SetPeerZone, ownerVars
<1>4. ASSUME NEW u \in Receivers, RemovePeer(u) PROVE OwnershipAgrees'
  BY <1>4 DEF RemovePeer, DropOwner
<1>5. ASSUME NEW w \in Writers, NEW r \in Receivers, NEW i \in Index, WantRequest(w, r, i)
      PROVE OwnershipAgrees'
  <2>1. PICK first \in candidatesLocked(r, i) : leaseLocked(first, <<r, i>>)
    BY <1>5 DEF WantRequest
  <2>2. first \in Receivers => first \in Peers
    BY <2>1 DEF candidatesLocked, Eligible
  <2>. QED BY <1>5, <2>1, <2>2 DEF WantRequest, leaseLocked, ownerVars
<1>6. ASSUME NEW a \in responding, Responded(a) \/ RespondFailed(a)
      PROVE OwnershipAgrees'
  BY <1>6 DEF Responded, RespondFailed, peerVars, ownerVars
<1>7. ASSUME NEW u \in Receivers, NEW i \in Index, AddBlockOwner(u, i)
      PROVE OwnershipAgrees'
  BY <1>7 DEF AddBlockOwner, peerVars
<1>8. ASSUME NEW p \in Node, NEW i \in Index, NEW r \in Receivers,
             UpdatePeerDone(p, i, r)
      PROVE OwnershipAgrees'
  BY <1>8 DEF UpdatePeerDone, peerVars, ownerVars
<1>9. ASSUME NEW p \in Node, NEW i \in Index, NEW r \in Receivers,
             UpdatePeerFailed(p, i, r)
      PROVE OwnershipAgrees'
  BY <1>9 DEF UpdatePeerFailed, peerVars, Node
<1>10. ASSUME NEW n \in 0 .. MaxChunks, BeSendMain(n) PROVE OwnershipAgrees'
  <2>1. \A i \in Index : ChunkOwners[i] = {} /\ i \in Nat
    BY <1>10 DEF BeSendMain, NoFile, Index
  <2>. QED BY <1>10, <2>1 DEF BeSendMain
<1>11. CASE ClearContent
  BY <1>11 DEF ClearContent, peerVars, NoFile, Index
<1>12. ASSUME NEW n \in Node, NEW k \in leases[n], LeaseOverdue(n, k)
       PROVE OwnershipAgrees'
  BY <1>12 DEF LeaseOverdue, peerVars, ownerVars
<1>13. ASSUME NEW u \in Receivers, CooldownEnds(u) PROVE OwnershipAgrees'
  BY <1>13 DEF CooldownEnds, peerVars, ownerVars
<1>14. CASE UNCHANGED vars
  BY <1>14 DEF vars, peerVars, ownerVars
<1>. QED
  BY <1>1, <1>2, <1>3, <1>4, <1>5, <1>6, <1>7, <1>8, <1>9, <1>10, <1>11,
     <1>12, <1>13, <1>14 DEF Next, PeerReg

\* The two ownership maps agree, name chunks of the current file only, and name
\* registered peers only; a peer is registered while its handler lives.
THEOREM OwnershipInvariant == Spec => []OwnershipAgrees
<1>1. Init => OwnershipAgrees
  BY TrackerConstants
     DEF Init, OwnershipAgrees, NoFile, Index
<1>2. TypeOK /\ OwnershipAgrees /\ [Next]_vars => OwnershipAgrees'
  BY NextOwnershipAgrees
<1>. QED BY <1>1, <1>2, TypeCorrect, PTL DEF Spec

\* A source with room among its live leases is offered for the chunks it owns,
\* so leases of vanished requesters never lock it out: expiry is exact.
THEOREM NoStarvationByDeadLeases == Spec => []DeadLeasesNeverStarve
<1>1. TypeOK /\ LeaseInv /\ OwnershipAgrees => DeadLeasesNeverStarve
  <2>. SUFFICES ASSUME TypeOK, LeaseInv, OwnershipAgrees,
                       NEW p \in Receivers, NEW r \in Receivers, NEW i \in Index,
                       p \in ChunkOwners[i], p # r, p \notin cooling,
                       Cardinality(leases[p] \ overdue[p]) < MaxInflight
                PROVE p \in candidatesLocked(r, i)
    BY DEF DeadLeasesNeverStarve
  <2>1. p \in Node /\ p # Central /\ p \in Peers
    BY TrackerConstants DEF Node, OwnershipAgrees
  <2>2. ExpiredLoad(p) < MaxInflight
    BY <2>1, ExpiryExact DEF ExpiredLeases
  <2>. QED BY <2>1, <2>2 DEF candidatesLocked, Eligible
<1>. QED BY <1>1, LeaseInvariant, OwnershipInvariant, PTL

-----------------------------------------------------------------------------
(* The coordinator's prefetch commands *)

\* A non-empty set of naturals has a least element.
LEMMA LeastElement ==
    ASSUME NEW T, T \subseteq Nat, T # {}
    PROVE  \E x \in T : \A y \in T : x <= y
<1>. DEFINE Below == {p \in Nat \X Nat : p[1] < p[2]}
<1>1. OpToRel(<, Nat) = Below
  BY Zenon DEF OpToRel
<1>2. IsWellFoundedOn(Below, Nat)
  BY <1>1, NatLessThanWellFounded, Zenon
<1>3. PICK x \in T : \A y \in T : <<y, x>> \notin Below
  BY <1>2, WFMin, Zenon
<1>4. ASSUME NEW y \in T PROVE x <= y
  <2>1. <<y, x>> \in Nat \X Nat /\ <<y, x>>[1] = y /\ <<y, x>>[2] = x
    OBVIOUS
  <2>2. ~(<<y, x>>[1] < <<y, x>>[2])
    BY <1>3, <2>1, Zenon
  <2>. QED BY <2>1, <2>2
<1>. QED BY <1>4

\* A zone with a registered node has a node closest to a full copy: the maximum
\* exists, because a node owns at most MaxChunks chunks.
LEMMA BestPeerExists ==
    ASSUME TypeOK, NEW z \in Zones, ZonePeers(z) # {}
    PROVE  BestPeers(z) # {}
<1>. DEFINE size(u) == Cardinality(PeerOwners[u])
            T == {MaxChunks - size(u) : u \in ZonePeers(z)}
<1>1. ASSUME NEW u \in ZonePeers(z)
      PROVE  size(u) \in Nat /\ size(u) <= MaxChunks
  <2>1. PeerOwners[u] \subseteq Index
    BY DEF TypeOK, ZonePeers
  <2>2. IsFiniteSet(Index) /\ Cardinality(Index) <= MaxChunks
    BY FS_Interval, TrackerConstants DEF Index
  <2>3. IsFiniteSet(PeerOwners[u]) /\ Cardinality(PeerOwners[u]) <= Cardinality(Index)
    BY <2>1, <2>2, FS_Subset
  <2>. QED BY <2>2, <2>3, FS_CardinalityType, TrackerConstants
<1>. HIDE DEF size
<1>2. T \subseteq Nat /\ T # {}
  BY <1>1, TrackerConstants
<1>3. PICK t \in T : \A y \in T : t <= y
  BY <1>2, LeastElement
<1>4. PICK u \in ZonePeers(z) : t = MaxChunks - size(u)
  OBVIOUS
<1>5. ASSUME NEW v \in ZonePeers(z) PROVE size(v) <= size(u)
  <2>1. MaxChunks - size(u) <= MaxChunks - size(v)
    BY <1>3, <1>4
  <2>. QED BY <1>1, <2>1, TrackerConstants
<1>. QED BY <1>5 DEF BestPeers, size

\* The first chunk a zone misses is always among those it is asked for.
LEMMA FirstMissingAsked ==
    ASSUME TypeOK, NEW z \in Zones, NEW c \in Index, c < chunkNum, c \notin ZoneOwned(z)
    PROVE  PrefetchIndexes(z) # {}
<1>. DEFINE T == {d \in Index : d < chunkNum /\ d \notin ZoneOwned(z)}
<1>1. T \subseteq Nat /\ T # {}
  BY DEF Index
<1>2. PICK d \in T : \A y \in T : d <= y
  BY <1>1, LeastElement
<1>3. {e \in 0 .. d - 1 : e \notin ZoneOwned(z)} = {}
  BY <1>2, TrackerConstants DEF Index, TypeOK, NoFile
<1>4. Cardinality({e \in 0 .. d - 1 : e \notin ZoneOwned(z)}) < MaxPrefetch
  BY <1>3, FS_EmptySet, TrackerConstants
<1>5. d \in PrefetchIndexes(z)
  BY <1>4 DEF PrefetchIndexes
<1>. QED BY <1>5

\* Prefetch commands name chunks that no node of the zone owns, and there is one
\* whenever a zone with registered nodes misses a chunk of the file.
THEOREM PrefetchSound == Spec => []PrefetchOnlyMissing
<1>1. TypeOK /\ OwnershipAgrees => PrefetchOnlyMissing
  <2>. SUFFICES ASSUME TypeOK, OwnershipAgrees, NEW z \in Zones
                PROVE  LET missing == {c \in Index : c < chunkNum
                                          /\ ZonePeers(z) \cap ChunkOwners[c] = {}}
                       IN  /\ \A cmd \in PrefetchCommands(z) : cmd[2] \in missing
                           /\ (ZonePeers(z) # {} /\ missing # {})
                                => PrefetchCommands(z) # {}
    BY DEF PrefetchOnlyMissing
  <2>. DEFINE missing == {c \in Index : c < chunkNum
                             /\ ZonePeers(z) \cap ChunkOwners[c] = {}}
  <2>1. ASSUME NEW c \in Index
        PROVE  c \notin ZoneOwned(z) <=> ZonePeers(z) \cap ChunkOwners[c] = {}
    <3>1. \A u \in ZonePeers(z) : u \in ChunkOwners[c] <=> c \in PeerOwners[u]
      BY DEF OwnershipAgrees, ZonePeers
    <3>. QED BY <3>1 DEF ZoneOwned
  <2>2. \A cmd \in PrefetchCommands(z) : cmd[2] \in missing
    BY <2>1 DEF PrefetchCommands, PrefetchIndexes
  <2>3. ASSUME ZonePeers(z) # {}, NEW c \in missing
        PROVE  PrefetchCommands(z) # {}
    <3>1. BestPeers(z) # {}
      BY <2>3, BestPeerExists
    <3>2. PrefetchIndexes(z) # {}
      BY <2>1, <2>3, FirstMissingAsked
    <3>3. PICK u \in BestPeers(z), i \in PrefetchIndexes(z) : TRUE
      BY <3>1, <3>2
    <3>4. <<u, i>> \in PrefetchCommands(z)
      BY DEF PrefetchCommands
    <3>. QED BY <3>4
  <2>. QED BY <2>2, <2>3
<1>. QED BY <1>1, TypeCorrect, OwnershipInvariant, PTL

-----------------------------------------------------------------------------
(* Leases that nobody may take away *)

\* A source that is not registered has no leases, so that registering it anew
\* takes none from it.
LeasesRegistered == \A n \in Node : leases[n] # {} => n \in Peers

\* Leases are made with an entry in Peers and go with it.
LEMMA NextLeasesRegistered ==
    ASSUME TypeOK, LeasesRegistered, [Next]_vars
    PROVE  LeasesRegistered'
<1>. USE DEF TypeOK, LeasesRegistered
<1>1. ASSUME NEW u \in Receivers, PeerReg(u) PROVE LeasesRegistered'
  BY <1>1 DEF PeerReg, PeerRegAck, AddPeer, SetPeerZone, RemovePeer, leaseVars, Node
<1>2. ASSUME NEW w \in Writers, NEW r \in Receivers, NEW i \in Index, WantRequest(w, r, i)
      PROVE LeasesRegistered'
  <2>1. PICK first \in candidatesLocked(r, i) : leaseLocked(first, <<r, i>>)
    BY <1>2 DEF WantRequest
  <2>. QED BY <2>1 DEF leaseLocked, ExpiredLeases
<1>3. ASSUME NEW s \in Node, NEW k, GiveBack(s, k), Peers' = Peers
      PROVE LeasesRegistered'
  BY <1>3 DEF GiveBack, leaseVars
<1>4. ASSUME NEW a \in responding, Responded(a) \/ RespondFailed(a)
      PROVE LeasesRegistered'
  <2>1. a[2] \in Node
    OBVIOUS
  <2>. QED BY <1>3, <1>4, <2>1 DEF Responded, RespondFailed, peerVars, leaseVars
<1>5. ASSUME NEW p \in Node, NEW i \in Index, NEW r \in Receivers,
             UpdatePeerDone(p, i, r) \/ UpdatePeerFailed(p, i, r)
      PROVE LeasesRegistered'
  BY <1>3, <1>5 DEF UpdatePeerDone, UpdatePeerFailed, peerVars
<1>6. ASSUME NEW n \in 0 .. MaxChunks, BeSendMain(n) PROVE LeasesRegistered'
  BY <1>6 DEF BeSendMain, Node
<1>7. CASE ClearContent
  BY <1>7 DEF ClearContent
<1>8. ASSUME UNCHANGED <<Peers, leases>> PROVE LeasesRegistered'
  BY <1>8
<1>. QED
  BY <1>1, <1>2, <1>4, <1>5, <1>6, <1>7, <1>8
     DEF Next, AddBlockOwner, LeaseOverdue, CooldownEnds, vars, peerVars, leaseVars

\* A live lease is lost only to a report of UpdatePeer, or to a failed answer's
\* release, that names its source, requester and chunk, unless the source leaves or
\* the file changes.
THEOREM LiveLeasesSafe == Spec => LiveLeasesKept
<1>. DEFINE Kept == chunkNum' = chunkNum =>
                       \A n \in Node \cap Peers' : \A k \in leases[n] \ overdue[n] :
                           k \in leases'[n] \/ <<n, k>> \in named'
<1>1. TypeOK /\ LeasesRegistered /\ [Next]_vars => [Kept]_vars
  <2>. SUFFICES ASSUME TypeOK, LeasesRegistered, Next PROVE Kept
    OBVIOUS
  <2>. USE DEF TypeOK
  <2>1. ASSUME NEW u \in Receivers, PeerReg(u) PROVE Kept
    <3>1. \A n \in Node \cap Peers' : leases[n] \subseteq leases'[n]
      BY <2>1 DEF PeerReg, PeerRegAck, AddPeer, SetPeerZone, RemovePeer, leaseVars,
                  LeasesRegistered, Node
    <3>. QED BY <3>1
  <2>2. ASSUME NEW w \in Writers, NEW r \in Receivers, NEW i \in Index, WantRequest(w, r, i) PROVE Kept
    <3>1. PICK first \in candidatesLocked(r, i) : leaseLocked(first, <<r, i>>)
      BY <2>2 DEF WantRequest
    <3>2. \A n \in Node : leases[n] \ overdue[n] \subseteq leases'[n]
      BY <3>1 DEF leaseLocked, ExpiredLeases
    <3>. QED BY <3>2
  <2>3. ASSUME NEW s \in Node, NEW k, GiveBack(s, k) PROVE Kept
    <3>1. /\ \A n \in Node : n # s => leases'[n] = leases[n]
          /\ leases[s] \subseteq leases'[s] \cup {k} /\ named' = {<<s, k>>}
      BY <2>3 DEF GiveBack, leaseVars
    <3>. QED BY <3>1
  <2>4. ASSUME NEW a \in responding, Responded(a) \/ RespondFailed(a) PROVE Kept
    <3>1. a[2] \in Node
      OBVIOUS
    <3>. QED BY <2>3, <2>4, <3>1 DEF Responded, RespondFailed, leaseVars
  <2>5. ASSUME NEW p \in Node, NEW i \in Index, NEW r \in Receivers,
               UpdatePeerDone(p, i, r) \/ UpdatePeerFailed(p, i, r)
        PROVE Kept
    BY <2>3, <2>5 DEF UpdatePeerDone, UpdatePeerFailed
  <2>6. ASSUME NEW n \in 0 .. MaxChunks, BeSendMain(n) PROVE Kept
    BY <2>6, TrackerConstants DEF BeSendMain, NoFile
  <2>7. CASE ClearContent
    BY <2>7 DEF ClearContent
  <2>8. ASSUME UNCHANGED leases PROVE Kept
    BY <2>8
  <2>. QED
    BY <2>1, <2>2, <2>4, <2>5, <2>6, <2>7, <2>8
       DEF Next, AddBlockOwner, LeaseOverdue, CooldownEnds, leaseVars
<1>2. Init => LeasesRegistered
  BY DEF Init, LeasesRegistered
<1>3. TypeOK /\ LeasesRegistered /\ [Next]_vars => LeasesRegistered'
  BY NextLeasesRegistered
<1>4. Spec => [](TypeOK /\ LeasesRegistered)
  BY <1>2, <1>3, TypeCorrect, PTL DEF Spec
<1>5. Spec => [][Kept]_vars
  BY <1>1, <1>4, PTL DEF Spec
<1>. QED BY <1>5 DEF LiveLeasesKept

=============================================================================
