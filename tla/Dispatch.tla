------------------------------ MODULE Dispatch ------------------------------
(***************************************************************************)
(* The control plane of the web application.  The sender's App probes the  *)
(* chosen receivers, starts one task (one ID) on those that are ready,     *)
(* polls them until none runs, and cancels by ID; next to that operation a *)
(* distribution loop admits every receiver it sees.  Each receiver's agent *)
(* answers control calls on handler goroutines that outlive the caller's   *)
(* connection, and runs at most one task.                                  *)
(*                                                                         *)
(* The source file and the set of registered receivers do not change here. *)
(***************************************************************************)
EXTENDS Naturals, FiniteSets

CONSTANTS
    Receivers,   \* the agents registered with the sender
    Early,       \* those online while a distribution admits receivers
    MaxTasks,    \* bound on the task IDs that key() makes
    LateStart    \* may a cancel overtake the start of the same task?

ASSUME DispatchConstants ==
    /\ IsFiniteSet(Receivers) /\ Early \subseteq Receivers
    /\ MaxTasks \in Nat
    /\ LateStart \in BOOLEAN

VARIABLES
    task,      \* agent.task: ID (0 before the first) and status
    stopped,   \* the context of the agent's running task is cancelled
    handlers,  \* "start" calls the agents have yet to finish
    nextID,    \* the next value of key()
    op,        \* App.op and the frame of its function
    waiting,   \* receivers whose goroutine of the current fan-out runs
    view,      \* the function's own copy of App.probes
    shown,     \* App.probes
    probeKey,  \* the selection App.probeKey stands for, {} if none
    dist,      \* App.distribution, and accepting and the keys of members in its loop
    joining,   \* receivers with a start call of the loop under way
    members    \* the loop's own map

agentVars == <<task, stopped, handlers>>
opVars == <<op, waiting, view>>
distVars == <<dist, joining, members>>
vars == <<agentVars, nextID, opVars, shown, probeKey, distVars>>

TaskID == 0 .. MaxTasks
TaskStatus == {"idle", "running", "seeding", "failed", "cancelled"}
Task == [id : TaskID, status : TaskStatus]

\* PeerState: Ready and Task; ID 0 stands for a nil Task.
Peer == [id : TaskID, status : TaskStatus, ready : BOOLEAN]
NoPeer == [id |-> 0, status |-> "idle", ready |-> FALSE]

Op == [phase : {"idle", "start", "monitor", "cancel"},
       status : {"none", "running", "completed", "failed", "cancelled"},
       cancelled : BOOLEAN, id : TaskID, chosen : SUBSET Receivers,
       missed : BOOLEAN]  \* a cancel call did not reach its receiver

\* A start call: which agent, which task, and whether it has passed the first
\* look at the agent's task.
Handler == [to : Receivers, id : TaskID, place : {"sent", "probing"}]

Dist == [id : TaskID, active : BOOLEAN, accepting : BOOLEAN, seen : SUBSET Receivers]

(***************************************************************************)
(* The one type invariant; the start calls an actor waits for are its own  *)
(* and at most one handler works for each.                                 *)
(***************************************************************************)
TypeOK ==
    /\ task \in [Receivers -> Task]
    /\ stopped \in [Receivers -> BOOLEAN]
    /\ handlers \subseteq Handler
    /\ nextID \in 1 .. MaxTasks + 1
    /\ op \in Op
    /\ waiting \subseteq Receivers
    /\ view \in [Receivers -> Peer]
    /\ shown \in [Receivers -> Peer]
    /\ probeKey \subseteq Receivers
    /\ dist \in Dist
    /\ joining \subseteq Receivers \ dist.seen
    /\ members \in [Receivers -> Peer]
    /\ \A g, h \in handlers : g.to = h.to /\ g.id = h.id => g = h

Init ==
    /\ task = [r \in Receivers |-> [id |-> 0, status |-> "idle"]]
    /\ stopped = [r \in Receivers |-> FALSE]
    /\ handlers = {}
    /\ nextID = 1
    /\ op = [phase |-> "idle", status |-> "none", cancelled |-> FALSE,
             id |-> 0, chosen |-> {}, missed |-> FALSE]
    /\ waiting = {}
    /\ view = [r \in Receivers |-> NoPeer]
    /\ shown = [r \in Receivers |-> NoPeer]
    /\ probeKey = {}
    /\ dist = [id |-> 0, active |-> FALSE, accepting |-> FALSE, seen |-> {}]
    /\ joining = {}
    /\ members = [r \in Receivers |-> NoPeer]

-----------------------------------------------------------------------------
(* The operation: begin admits one at a time *)

Idle == op.status # "running"
Running(m) == {r \in Receivers : m[r].status = "running"}

\* The function returns, and its locals go.  The ID is remembered for
\* CancelStops if every receiver was told of the cancel.
End(status) ==
    /\ op' = [phase |-> "idle", status |-> status, cancelled |-> FALSE,
              id |-> IF status = "cancelled" /\ ~op.missed THEN op.id ELSE 0,
              chosen |-> {}, missed |-> FALSE]
    /\ view' = [r \in Receivers |-> NoPeer]

\* POST /api/cancel.
Cancel ==
    /\ ~Idle /\ ~op.cancelled
    /\ op' = [op EXCEPT !.cancelled = TRUE]
    /\ UNCHANGED <<agentVars, nextID, waiting, view, shown, probeKey, distVars>>

-----------------------------------------------------------------------------
(* probe *)

\* One call per chosen receiver, answered at any moment and kept until all
\* are in.  A busy agent answers with an error; so may the checks of the
\* target, and a call may fail.  The results replace what was known of the
\* chosen ones, their tasks excepted; a cancelled probe keeps none.
Probe(S) ==
    /\ Idle
    /\ \E ready \in SUBSET {r \in S : task[r].status # "running"} :
          shown' = [r \in Receivers |->
                      IF r \in S THEN [shown[r] EXCEPT !.ready = r \in ready]
                                 ELSE shown[r]]
    /\ probeKey' = S
    /\ op' = [op EXCEPT !.status = "completed", !.id = 0]
    /\ UNCHANGED <<agentVars, nextID, waiting, view, distVars>>

-----------------------------------------------------------------------------
(* dispatch *)

\* Refused while the distribution admits receivers, and unless the last probe
\* was for this very selection; otherwise the whole of App.probes is copied.
BeginDispatch(S) ==
    /\ Idle /\ ~dist.active /\ probeKey = S
    /\ nextID <= MaxTasks
    /\ op' = [phase |-> "start", status |-> "running", cancelled |-> FALSE,
              id |-> nextID, chosen |-> S, missed |-> FALSE]
    /\ nextID' = nextID + 1
    /\ view' = shown
    /\ waiting' = {r \in S : shown[r].ready}
    /\ handlers' = handlers \cup {[to |-> r, id |-> nextID, place |-> "sent"] :
                                   r \in waiting'}
    /\ UNCHANGED <<task, stopped, shown, probeKey, distVars>>

\* The goroutine saw the context end before it sent anything.
SkipStart(r) ==
    /\ op.phase = "start" /\ r \in waiting /\ op.cancelled
    /\ \E h \in handlers :
          /\ h = [to |-> r, id |-> op.id, place |-> "sent"]
          /\ handlers' = handlers \ {h}
    /\ waiting' = waiting \ {r}
    /\ UNCHANGED <<task, stopped, nextID, op, view, shown, probeKey, distVars>>

FailedStart(id) == [id |-> id, status |-> "failed", ready |-> FALSE]

\* The connection broke, the deadline passed, or the context ended and closed
\* it: the agent may be at any point of its handler, or past it.
StartFails(r) ==
    /\ op.phase = "start" /\ r \in waiting
    /\ waiting' = waiting \ {r}
    /\ view' = [view EXCEPT ![r] = FailedStart(op.id)]
    /\ UNCHANGED <<agentVars, nextID, op, shown, probeKey, distVars>>

\* cancelRemote asks every receiver with a task in the map.
Cancelling ==
    /\ op' = [op EXCEPT !.phase = "cancel"]
    /\ waiting' = {r \in Receivers : view[r].id # 0}
    /\ UNCHANGED view

StartsDone ==
    /\ op.phase = "start" /\ waiting = {}
    /\ IF op.cancelled
         THEN Cancelling /\ UNCHANGED <<shown, probeKey>>
         ELSE /\ shown' = view
              /\ probeKey' = {}
              /\ IF \E r \in Receivers : view[r].id = op.id /\ view[r].ready
                   THEN /\ op' = [op EXCEPT !.phase = "monitor"]
                        /\ waiting' = Running(view)
                        /\ UNCHANGED view
                   ELSE End("failed") /\ UNCHANGED waiting
    /\ UNCHANGED <<agentVars, nextID, distVars>>

-----------------------------------------------------------------------------
(* monitor: rounds of status calls, joined by wg.Wait *)

PollUnmatched(r) ==
    /\ op.phase = "monitor" /\ r \in waiting
    /\ waiting' = waiting \ {r}
    /\ view' = [view EXCEPT ![r].id = task[r].id, ![r].status = task[r].status]
    /\ UNCHANGED <<agentVars, nextID, op, shown, probeKey, distVars>>

PollIgnoringOthers(r) ==
    /\ op.phase = "monitor" /\ r \in waiting
    /\ waiting' = waiting \ {r}
    /\ view' = [view EXCEPT ![r].status =
                   IF task[r].id = view[r].id THEN task[r].status ELSE "running"]
    /\ UNCHANGED <<agentVars, nextID, op, shown, probeKey, distVars>>

\* An answer about another task counts as a failure.
PollAnswer(r) ==
    /\ op.phase = "monitor" /\ r \in waiting
    /\ waiting' = waiting \ {r}
    /\ view' = [view EXCEPT ![r].status =
                   IF task[r].id = view[r].id THEN task[r].status ELSE "failed"]
    /\ UNCHANGED <<agentVars, nextID, op, shown, probeKey, distVars>>

PollFails(r) ==
    /\ op.phase = "monitor" /\ r \in waiting
    /\ waiting' = waiting \ {r}
    /\ view' = [view EXCEPT ![r].status = "failed"]
    /\ UNCHANGED <<agentVars, nextID, op, shown, probeKey, distVars>>

\* The goroutine saw the context end before it asked.
SkipPoll(r) ==
    /\ op.phase = "monitor" /\ r \in waiting /\ op.cancelled
    /\ waiting' = waiting \ {r}
    /\ UNCHANGED <<agentVars, nextID, op, view, shown, probeKey, distVars>>

Outcome ==
    IF \E r \in Receivers : view[r].status \in {"failed", "cancelled"}
      THEN "failed" ELSE "completed"

\* storePeer for the whole map, then another round unless none runs.
RoundEnds ==
    /\ op.phase = "monitor" /\ waiting = {}
    /\ shown' = view
    /\ \/ op.cancelled /\ Cancelling
       \/ ~op.cancelled /\ Running(view) = {} /\ End(Outcome) /\ UNCHANGED waiting
       \/ /\ ~op.cancelled /\ Running(view) # {}
          /\ waiting' = Running(view)
          /\ UNCHANGED <<op, view>>
    /\ UNCHANGED <<agentVars, nextID, probeKey, distVars>>

-----------------------------------------------------------------------------
(* cancelRemote and "cancel" at the agent *)

Starting(r, id) == \E h \in handlers : h.to = r /\ h.id = id

CancelTaskRunningOnly(r) ==
    /\ op.phase = "cancel" /\ r \in waiting
    /\ LateStart \/ ~Starting(r, view[r].id)
    /\ waiting' = waiting \ {r}
    /\ stopped' = [stopped EXCEPT ![r] =
                      @ \/ (task[r] = [id |-> view[r].id, status |-> "running"]
                            /\ view[r].status = "running")]
    /\ UNCHANGED <<task, handlers, nextID, op, view, shown, probeKey, distVars>>

\* Only the task with that ID is cancelled; the call itself always succeeds.
CancelTask(r) ==
    /\ op.phase = "cancel" /\ r \in waiting
    /\ LateStart \/ ~Starting(r, view[r].id)
    /\ waiting' = waiting \ {r}
    /\ stopped' = [stopped EXCEPT ![r] =
                      @ \/ task[r] = [id |-> view[r].id, status |-> "running"]]
    /\ UNCHANGED <<task, handlers, nextID, op, view, shown, probeKey, distVars>>

\* Its three seconds pass; the result is not looked at.
CancelFails(r) ==
    /\ op.phase = "cancel" /\ r \in waiting
    /\ waiting' = waiting \ {r}
    /\ op' = [op EXCEPT !.missed = TRUE]
    /\ UNCHANGED <<agentVars, nextID, view, shown, probeKey, distVars>>

CancelsDone ==
    /\ op.phase = "cancel" /\ waiting = {}
    /\ End("cancelled")
    /\ UNCHANGED <<agentVars, nextID, waiting, shown, probeKey, distVars>>

-----------------------------------------------------------------------------
(* The distribution loop *)

\* A paused loop still polls; stopDistribution ends it before the next.
StartDistribution ==
    /\ Idle /\ ~dist.active
    /\ nextID <= MaxTasks
    /\ nextID' = nextID + 1
    /\ dist' = [id |-> nextID, active |-> TRUE, accepting |-> TRUE, seen |-> {}]
    /\ joining' = {}
    /\ members' = [r \in Receivers |-> NoPeer]
    /\ probeKey' = {}
    /\ UNCHANGED <<agentVars, opVars, shown>>

PauseDistribution ==
    /\ Idle /\ dist.active
    /\ dist' = [dist EXCEPT !.active = FALSE]
    /\ UNCHANGED <<agentVars, nextID, opVars, shown, probeKey, joining, members>>

\* A round of the loop has joined its goroutines; the next one looks again whether
\* the distribution still admits receivers.  Until then a pause changes nothing.
NewRound ==
    /\ joining = {} /\ dist.accepting # dist.active
    /\ dist' = [dist EXCEPT !.accepting = dist.active]
    /\ UNCHANGED <<agentVars, nextID, opVars, shown, probeKey, joining, members>>

\* members[r] = p and storePeer.
Member(r, p) ==
    /\ members' = [members EXCEPT ![r] = p]
    /\ shown' = [shown EXCEPT ![r] = p]

\* The probe of a receiver not yet seen failed: it is never tried again.
Exclude(r) ==
    /\ dist.accepting /\ r \notin dist.seen \cup joining
    /\ dist' = [dist EXCEPT !.seen = @ \cup {r}]
    /\ Member(r, NoPeer)
    /\ UNCHANGED <<agentVars, nextID, opVars, probeKey, joining>>

\* It succeeded, so the agent was not busy, and the start call follows.
Join(r) ==
    /\ dist.accepting /\ r \notin dist.seen \cup joining
    /\ task[r].status # "running"
    /\ joining' = joining \cup {r}
    /\ handlers' = handlers \cup {[to |-> r, id |-> dist.id, place |-> "sent"]}
    /\ UNCHANGED <<task, stopped, nextID, opVars, shown, probeKey, dist, members>>

JoinFails(r) ==
    /\ r \in joining
    /\ joining' = joining \ {r}
    /\ dist' = [dist EXCEPT !.seen = @ \cup {r}]
    /\ Member(r, FailedStart(dist.id))
    /\ UNCHANGED <<agentVars, nextID, opVars, probeKey>>

\* A running member is asked for its status; an answer about another task
\* leaves it as it was.
MemberPoll(r) ==
    /\ r \in Running(members)
    /\ \E status \in {"failed",
                      IF task[r].id = dist.id THEN task[r].status ELSE "running"} :
          Member(r, [members[r] EXCEPT !.status = status])
    /\ UNCHANGED <<agentVars, nextID, opVars, probeKey, dist, joining>>

-----------------------------------------------------------------------------
(* "start" at the agent *)

\* The answer reaches whoever still waits for it.
Answer(h, p) ==
    /\ IF op.phase = "start" /\ h.id = op.id /\ h.to \in waiting
         THEN /\ waiting' = waiting \ {h.to}
              /\ view' = [view EXCEPT ![h.to] = p]
         ELSE UNCHANGED <<waiting, view>>
    /\ IF h.id = dist.id /\ h.to \in joining
         THEN /\ joining' = joining \ {h.to}
              /\ dist' = [dist EXCEPT !.seen = @ \cup {h.to}]
              /\ Member(h.to, p)
         ELSE UNCHANGED <<joining, dist, members, shown>>
    /\ UNCHANGED <<nextID, op, probeKey>>

Started(h) == [id |-> h.id, status |-> "running", ready |-> TRUE]

\* The first look at r.task: the same task again is only acknowledged, a
\* running one makes the agent busy.
StartArrives(h) ==
    /\ h.place = "sent"
    /\ LET now == task[h.to]
           again == now.id = h.id /\ now.status \in {"running", "seeding"}
       IN IF again \/ now.status = "running"
            THEN /\ handlers' = handlers \ {h}
                 /\ Answer(h, IF again THEN [id |-> h.id, status |-> now.status, ready |-> TRUE]
                                       ELSE FailedStart(h.id))
            ELSE /\ handlers' = (handlers \ {h}) \cup {[h EXCEPT !.place = "probing"]}
                 /\ UNCHANGED <<nextID, opVars, shown, probeKey, distVars>>
    /\ UNCHANGED <<task, stopped>>

\* ProbeTarget or GetFileStatus failed, or the file's metadata changed.
StartRejected(h) ==
    /\ h.place = "probing"
    /\ handlers' = handlers \ {h}
    /\ Answer(h, FailedStart(h.id))
    /\ UNCHANGED <<task, stopped>>

LaunchUnchecked(h) ==
    /\ h.place = "probing"
    /\ handlers' = handlers \ {h}
    /\ task' = [task EXCEPT ![h.to] = [id |-> h.id, status |-> "running"]]
    /\ stopped' = [stopped EXCEPT ![h.to] = FALSE]
    /\ Answer(h, Started(h))

\* launch looks again, in the section that makes the new task.
Launch(h) ==
    /\ h.place = "probing"
    /\ handlers' = handlers \ {h}
    /\ IF task[h.to].status = "running"
         THEN Answer(h, FailedStart(h.id)) /\ UNCHANGED <<task, stopped>>
         ELSE /\ task' = [task EXCEPT ![h.to] = [id |-> h.id, status |-> "running"]]
              /\ stopped' = [stopped EXCEPT ![h.to] = FALSE]
              /\ Answer(h, Started(h))

\* The goroutine of the task: a cancelled one may still have succeeded.
TaskEnds(r) ==
    /\ task[r].status = "running"
    /\ \E status \in {"seeding", "failed"}
                       \cup (IF stopped[r] THEN {"cancelled"} ELSE {}) :
          task' = [task EXCEPT ![r].status = status]
    /\ stopped' = [stopped EXCEPT ![r] = FALSE]
    /\ UNCHANGED <<handlers, nextID, opVars, shown, probeKey, distVars>>

-----------------------------------------------------------------------------
OpStep ==
    \/ StartsDone \/ RoundEnds \/ CancelsDone
    \/ \E r \in Receivers :
          \/ SkipStart(r) \/ StartFails(r)
          \/ PollAnswer(r) \/ PollFails(r) \/ SkipPoll(r) \/ CancelTask(r) \/ CancelFails(r)

LoopStep ==
    \/ NewRound
    \/ \E r \in Early : Exclude(r) \/ Join(r) \/ JoinFails(r) \/ MemberPoll(r)

HandlerStep(h) == StartArrives(h) \/ StartRejected(h) \/ Launch(h)

Next ==
    \/ \E S \in SUBSET Receivers \ {{}} : Probe(S) \/ BeginDispatch(S)
    \/ StartDistribution \/ PauseDistribution \/ Cancel
    \/ OpStep
    \/ LoopStep
    \/ \E h \in handlers : HandlerStep(h)
    \/ \E r \in Receivers : TaskEnds(r)

Spec == Init /\ [][Next]_vars

\* Goroutines run, calls end within their deadlines, and a download ends: its
\* chunks have three attempts each.
FairSpec ==
    /\ Spec
    /\ WF_vars(OpStep)
    /\ \A r \in Receivers : WF_vars(TaskEnds(r))
    /\ \A h \in Handler : WF_vars(h \in handlers /\ HandlerStep(h))

-----------------------------------------------------------------------------
(* Properties *)

\* An operation that ends as "completed" tells the truth about every machine
\* it started: monitor saw this task, not another one, finish there, and the
\* agent still stands by it or has gone on to another task.
CompletedMeansSeeding ==
    [][op.phase = "monitor" /\ op'.status = "completed" =>
          \A r \in op.chosen : view[r].ready =>
              /\ view[r].id = op.id /\ view[r].status = "seeding"
              /\ task[r].id = op.id => task[r].status = "seeding"]_vars

\* An agent's running task is never replaced by another one, although "start"
\* leaves the lock between its look at the task and launch.
RunningNeverReplaced ==
    [][\A r \in Receivers :
          task[r].status = "running" => task'[r].id = task[r].id]_vars

\* "The task ID runs through start, polling and cancel": once a cancelled
\* dispatch has ended and every cancel call was answered, no machine goes on
\* with its task, whether or not its start call was answered.
CancelStops ==
    op.id # 0 /\ op.status = "cancelled" =>
        \A r \in Receivers :
            task[r].id = op.id /\ task[r].status = "running" => stopped[r]

\* When a distribution stops admitting machines, "those it has go on receiving
\* and seeding" (README): the task that it gave a machine is not stopped by the
\* cancelling of another operation.
DistributionUndisturbed ==
    \A r \in Receivers :
        dist.id # 0 /\ task[r].id = dist.id /\ task[r].status = "running"
            => ~stopped[r]

\* An operation ends: neither lost answers, nor a cancel, nor machines that
\* went on to other tasks keep it, and with it the application, busy.
OpEnds == ~Idle ~> Idle

=============================================================================
