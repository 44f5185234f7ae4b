------------------------------ MODULE MCTracker ------------------------------
(* A small tracker: two receivers in one zone, two chunks. *)
EXTENDS Tracker, TLC

MCZoneOf == [u \in Receivers |-> CHOOSE z \in Zones : TRUE]

TrackerSymmetry == Permutations(Receivers) \cup Permutations(Writers)

\* All but the history variable named: each step sets it anew and none reads it.
TrackerView ==
    <<Peers, handler, connNum, leases, overdue, cooling, ChunkOwners, PeerOwners,
      chunkNum, responding>>
=============================================================================
