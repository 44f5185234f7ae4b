------------------------------- MODULE MCSwarm -------------------------------
(* Two receivers; receivers, chunks and versions are interchangeable. *)
EXTENDS Swarm, TLC

SwarmSymmetry ==
    Permutations(Receivers) \cup Permutations(Chunk) \cup Permutations(Version)
=============================================================================
