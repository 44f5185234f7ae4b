------------------------------ MODULE Delivery ------------------------------
(***************************************************************************)
(* What a download task promises, without workers, sources or messages: it *)
(* gathers the chunks of one file, each once, and either delivers all of   *)
(* them or gives up and keeps none.  A node may be given task after task.  *)
(* Download (one run of the engine) and Swarm (every receiver of the       *)
(* network) are shown to implement it.                                     *)
(***************************************************************************)
CONSTANTS
    Node,   \* who downloads
    Chunk   \* the chunks of the file

VARIABLES
    stored,   \* the chunks of its task's file that each node holds
    outcome   \* of its last task

vars == <<stored, outcome>>

Init ==
    /\ stored = [n \in Node |-> {}]
    /\ outcome \in [Node -> {"idle", "running"}]

Begin(n) ==
    /\ outcome[n] # "running"
    /\ outcome' = [outcome EXCEPT ![n] = "running"]
    /\ stored' = [stored EXCEPT ![n] = {}]

Store(n, i) ==
    /\ outcome[n] = "running" /\ i \notin stored[n]
    /\ stored' = [stored EXCEPT ![n] = @ \cup {i}]
    /\ UNCHANGED outcome

Deliver(n) ==
    /\ outcome[n] = "running" /\ stored[n] = Chunk
    /\ outcome' = [outcome EXCEPT ![n] = "delivered"]
    /\ UNCHANGED stored

GiveUp(n) ==
    /\ outcome[n] = "running"
    /\ outcome' = [outcome EXCEPT ![n] = "failed"]
    /\ stored' = [stored EXCEPT ![n] = {}]

Next ==
    \E n \in Node :
        Begin(n) \/ (\E i \in Chunk : Store(n, i)) \/ Deliver(n) \/ GiveUp(n)

Spec == Init /\ [][Next]_vars

\* A task that was begun ends: no node runs one for ever.
Ends == \A n \in Node : []<>(outcome[n] # "running")

=============================================================================
