--------------------------- MODULE DispatchProofs ---------------------------
(***************************************************************************)
(* Proofs about the control plane for any number of receivers and tasks.   *)
(* The arguments rest on IDs: one is used for one dispatch or one          *)
(* distribution, a receiver is asked once to start it, and as long as its  *)
(* start call is open the receiver has not had that task.                  *)
(***************************************************************************)
EXTENDS Dispatch, FiniteSetTheorems, TLAPS

\* key() never repeats an ID, and a task has one as soon as it has a status.
Fresh ==
    /\ \A h \in handlers : h.id < nextID
    /\ \A r \in Receivers : /\ task[r].id < nextID /\ view[r].id < nextID
                            /\ shown[r].id < nextID /\ members[r].id < nextID
    /\ op.id < nextID /\ dist.id < nextID
    /\ \A r \in Receivers : task[r].status = "idle" => task[r].id = 0

\* The operation and the distribution have an ID each while they use it.
Frame ==
    /\ op.phase = "idle" <=> Idle
    /\ op.phase # "idle" => op.id # 0
    /\ dist.active \/ dist.accepting => dist.id # 0
    /\ op.id # 0 => op.id # dist.id

\* A receiver with an open start call has not had the task.
Single == \A h \in handlers : task[h.to].id # h.id

\* Whoever has the task of the distribution, or will have, has been admitted.
Admitted ==
    dist.id # 0 =>
        \A r \in Receivers : task[r].id = dist.id \/ Starting(r, dist.id) =>
            r \in dist.seen \cup joining

\* Whoever has the task of the operation, or will have, is in its map.
Known ==
    op.phase # "idle" =>
        \A r \in Receivers : task[r].id = op.id \/ Starting(r, op.id) =>
            \/ op.phase = "start" /\ r \in waiting
            \/ view[r].id = op.id

\* The map's entry about this task: "seeding" is the last word about it.
Entry(r) ==
    view[r].id = op.id =>
        /\ view[r].status # "idle"
        /\ view[r].status = "seeding" =>
              /\ ~Starting(r, op.id)
              /\ task[r].id = op.id => task[r].status = "seeding"

\* A machine the map calls ready has answered the start of this task.
Told ==
    /\ op.phase # "idle" => \A r \in Receivers : Entry(r)
    /\ op.phase \in {"start", "monitor"} /\ ~op.cancelled =>
          \A r \in op.chosen : \/ op.phase = "start" /\ r \in waiting
                               \/ view[r].ready => view[r].id = op.id

\* The task neither runs at r, unless stopped, nor is on its way there.
Quiet(r) ==
    /\ ~Starting(r, op.id)
    /\ task[r].id = op.id /\ task[r].status = "running" => stopped[r]

Quieted ==
    ~LateStart =>
      /\ op.phase = "cancel" /\ ~op.missed => \A r \in Receivers \ waiting : Quiet(r)
      /\ op.phase = "idle" /\ op.id # 0 => \A r \in Receivers : Quiet(r)

IInv == TypeOK /\ Fresh /\ Frame /\ Single /\ Admitted /\ Known /\ Told /\ Quieted

-----------------------------------------------------------------------------
(* What the steps of each kind may change *)

Nobodies == [r \in Receivers |-> NoPeer]

\* The values that the answers and the end of an operation put in place.
LEMMA Peers ==
    /\ NoPeer \in Peer /\ NoPeer.id = 0 /\ NoPeer.ready = FALSE
    /\ \A i \in TaskID : /\ FailedStart(i) \in Peer /\ FailedStart(i).id = i
                         /\ FailedStart(i).status = "failed" /\ FailedStart(i).ready = FALSE
    /\ \A h \in Handler : /\ Started(h) \in Peer /\ Started(h).id = h.id
                          /\ Started(h).status = "running"
BY DispatchConstants DEF NoPeer, Peer, TaskID, TaskStatus, FailedStart, Started, Handler

\* A round of calls has been joined: on to the cancels, to (more) polling, or
\* the function returns.
RoundStep ==
    /\ op.phase # "idle" /\ waiting = {}
    /\ UNCHANGED <<agentVars, nextID, distVars>>
    /\ shown' = shown \/ shown' = view
    /\ probeKey' = probeKey \/ probeKey' = {}
    /\ op' \in Op /\ waiting' \subseteq Receivers
    /\ \/ /\ op'.phase = "cancel" /\ op'.status = "running" /\ op'.id = op.id
          /\ waiting' = {r \in Receivers : view[r].id # 0} /\ view' = view
       \/ /\ op.phase \in {"start", "monitor"} /\ ~op.cancelled
          /\ op'.phase = "monitor" /\ op'.status = "running"
          /\ op'.id = op.id /\ op'.chosen = op.chosen /\ view' = view
       \/ /\ op'.phase = "idle" /\ op'.status # "running" /\ view' = Nobodies
          /\ op'.id # 0 => op'.id = op.id /\ op.phase = "cancel" /\ ~op.missed

\* The fields of the operation when its function has returned.
LEMMA EndFields ==
    ASSUME TypeOK, NEW status \in {"completed", "failed", "cancelled"}, End(status)
    PROVE  /\ op' \in Op /\ op'.phase = "idle" /\ op'.status = status
           /\ op'.id # 0 => op'.id = op.id /\ status = "cancelled" /\ ~op.missed
           /\ view' = Nobodies
<1>1. op.id \in TaskID /\ 0 \in TaskID
  BY DispatchConstants DEF TypeOK, Op, TaskID
<1>. QED BY <1>1 DEF End, Op, Nobodies

\* The ends of the three kinds of rounds are such steps.
LEMMA Rounds ==
    ASSUME IInv, StartsDone \/ RoundEnds \/ CancelsDone
    PROVE  RoundStep
<1>a. TypeOK /\ op \in Op /\ Frame
  BY DEF IInv, TypeOK
<1>b. Running(view) \subseteq Receivers
  BY DEF Running
<1>c. op.phase # "idle" /\ waiting = {} /\ UNCHANGED <<agentVars, nextID, distVars>>
  BY DEF StartsDone, RoundEnds, CancelsDone
<1>d. op.status = "running"
  BY <1>a, <1>c DEF Frame, Idle
<1>1. ASSUME Cancelling
      PROVE  /\ op' \in Op /\ op'.phase = "cancel" /\ op'.status = "running" /\ op'.id = op.id
             /\ waiting' = {r \in Receivers : view[r].id # 0} /\ view' = view
  BY <1>a, <1>d, <1>1 DEF Cancelling, Op
<1>2. CASE StartsDone
  <2>1. op.phase = "start"
    BY <1>2 DEF StartsDone
  <2>2. CASE op.cancelled
    BY <1>1, <1>2, <1>c, <2>2 DEF StartsDone, RoundStep
  <2>3. CASE ~op.cancelled
    <3>1. shown' = view /\ probeKey' = {}
      BY <1>2, <2>3 DEF StartsDone
    <3>2. CASE End("failed") /\ UNCHANGED waiting
      BY <1>a, <1>c, <3>1, <3>2, EndFields DEF RoundStep
    <3>3. CASE /\ op' = [op EXCEPT !.phase = "monitor"]
               /\ waiting' = Running(view)
               /\ UNCHANGED view
      <4>1. /\ op' \in Op /\ op'.phase = "monitor" /\ op'.status = "running"
            /\ op'.id = op.id /\ op'.chosen = op.chosen
        BY <1>a, <1>d, <3>3 DEF Op
      <4>. QED BY <1>b, <1>c, <2>1, <2>3, <3>1, <3>3, <4>1 DEF RoundStep
    <3>. QED BY <1>2, <2>3, <3>2, <3>3 DEF StartsDone
  <2>. QED BY <2>2, <2>3
<1>3. CASE RoundEnds
  <2>1. op.phase = "monitor" /\ shown' = view /\ UNCHANGED probeKey
    BY <1>3 DEF RoundEnds
  <2>2. CASE op.cancelled /\ Cancelling
    BY <1>1, <1>c, <2>1, <2>2 DEF RoundStep
  <2>3. CASE End(Outcome) /\ UNCHANGED waiting
    <3>1. Outcome \in {"completed", "failed"}
      BY DEF Outcome
    <3>. QED BY <1>a, <1>c, <2>1, <2>3, <3>1, EndFields DEF RoundStep
  <2>4. CASE ~op.cancelled /\ waiting' = Running(view) /\ UNCHANGED <<op, view>>
    BY <1>a, <1>b, <1>c, <1>d, <2>1, <2>4 DEF RoundStep
  <2>. QED BY <1>3, <2>2, <2>3, <2>4 DEF RoundEnds
<1>4. CASE CancelsDone
  <2>1. End("cancelled") /\ UNCHANGED <<waiting, shown, probeKey>> /\ op.phase = "cancel"
    BY <1>4 DEF CancelsDone
  <2>. QED BY <1>a, <1>c, <2>1, EndFields DEF RoundStep
<1>. QED BY <1>2, <1>3, <1>4

\* A goroutine of a round of status calls is done: what it learnt of this task
\* is true.
PollStep(r) ==
    /\ op.phase = "monitor" /\ r \in waiting /\ waiting' = waiting \ {r}
    /\ UNCHANGED <<agentVars, nextID, op, shown, probeKey, distVars>>
    /\ \E s \in TaskStatus :
          /\ view' = [view EXCEPT ![r].status = s]
          /\ view[r].id = op.id =>
                /\ s # "idle"
                /\ s = "seeding" => /\ ~Starting(r, op.id)
                                    /\ task[r].id = op.id => task[r].status = "seeding"

\* So are a matching answer, a failed call and a goroutine that did not ask.
LEMMA Polls ==
    ASSUME IInv, NEW r \in Receivers, PollAnswer(r) \/ PollFails(r) \/ SkipPoll(r)
    PROVE  PollStep(r)
<1>a. /\ TypeOK /\ op.phase = "monitor" /\ op.id # 0
      /\ view \in [Receivers -> Peer] /\ task[r].status \in TaskStatus
      /\ view[r].status \in TaskStatus
  BY DEF IInv, TypeOK, Frame, Peer, Task, PollAnswer, PollFails, SkipPoll
<1>b. /\ r \in waiting /\ waiting' = waiting \ {r}
      /\ UNCHANGED <<agentVars, nextID, op, shown, probeKey, distVars>>
  BY DEF PollAnswer, PollFails, SkipPoll
<1>. DEFINE True(s) == view[r].id = op.id =>
                         /\ s # "idle"
                         /\ s = "seeding" =>
                               /\ ~Starting(r, op.id)
                               /\ task[r].id = op.id => task[r].status = "seeding"
<1>1. ASSUME NEW s \in TaskStatus, True(s), view' = [view EXCEPT ![r].status = s]
      PROVE  PollStep(r)
  BY <1>a, <1>b, <1>1 DEF PollStep
<1>2. CASE PollAnswer(r)
  <2>. DEFINE s == IF task[r].id = view[r].id THEN task[r].status ELSE "failed"
  <2>1. s \in TaskStatus
    BY <1>a DEF TaskStatus
  <2>2. task[r].id = op.id => task[r].status # "idle" /\ ~Starting(r, op.id)
    BY <1>a DEF IInv, Fresh, Single, Starting
  <2>3. True(s)
    BY <2>2
  <2>4. view' = [view EXCEPT ![r].status = s]
    BY <1>2 DEF PollAnswer
  <2>. QED BY <1>1, <2>1, <2>3, <2>4
<1>3. CASE PollFails(r)
  <2>1. "failed" \in TaskStatus /\ True("failed")
    BY DEF TaskStatus
  <2>2. view' = [view EXCEPT ![r].status = "failed"]
    BY <1>3 DEF PollFails
  <2>. QED BY <1>1, <2>1, <2>2
<1>4. CASE SkipPoll(r)
  <2>1. True(view[r].status)
    BY <1>a DEF IInv, Told, Entry
  <2>2. view' = [view EXCEPT ![r].status = view[r].status]
    BY <1>a, <1>4 DEF SkipPoll, Peer
  <2>. QED BY <1>1, <1>a, <2>1, <2>2
<1>. QED BY <1>2, <1>3, <1>4

\* The loop puts a member into both maps; who was admitted stays admitted.
Membered(r) ==
    /\ UNCHANGED <<agentVars, nextID, opVars, probeKey>>
    /\ dist' \in Dist
    /\ dist'.id = dist.id
    /\ dist'.active = dist.active /\ dist'.accepting = dist.accepting
    /\ joining' \subseteq Receivers \ dist'.seen
    /\ dist.seen \cup joining \subseteq dist'.seen \cup joining'
    /\ \E p \in Peer : p.id < nextID /\ Member(r, p)

\* A failed probe, a failed start and a poll of a member are such steps.
LEMMA Loops ==
    ASSUME IInv, NEW r \in Early, Exclude(r) \/ JoinFails(r) \/ MemberPoll(r)
    PROVE  Membered(r)
<1>a. /\ TypeOK /\ r \in Receivers /\ nextID \in Nat /\ nextID # 0
      /\ dist \in Dist
      /\ joining \subseteq Receivers \ dist.seen
      /\ members \in [Receivers -> Peer] /\ members[r].id < nextID /\ dist.id < nextID
      /\ task[r].status \in TaskStatus
  BY DispatchConstants DEF IInv, TypeOK, Fresh, Task
<1>1. CASE Exclude(r)
  <2>1. Member(r, NoPeer) /\ NoPeer \in Peer /\ NoPeer.id < nextID
    BY <1>a, <1>1, Peers DEF Exclude
  <2>. QED BY <1>a, <1>1, <2>1 DEF Exclude, Membered, Dist
<1>2. CASE JoinFails(r)
  <2>1. /\ Member(r, FailedStart(dist.id)) /\ FailedStart(dist.id) \in Peer
        /\ FailedStart(dist.id).id < nextID
    BY <1>a, <1>2, Peers DEF JoinFails, Dist
  <2>. QED BY <1>a, <1>2, <2>1 DEF JoinFails, Membered, Dist
<1>3. CASE MemberPoll(r)
  <2>1. PICK status \in {"failed", IF task[r].id = dist.id THEN task[r].status ELSE "running"} :
           Member(r, [members[r] EXCEPT !.status = status])
    BY <1>3 DEF MemberPoll
  <2>2. status \in TaskStatus
    BY <1>a, <2>1 DEF TaskStatus
  <2>3. /\ [members[r] EXCEPT !.status = status] \in Peer
        /\ [members[r] EXCEPT !.status = status].id = members[r].id
    BY <1>a, <2>2 DEF Peer
  <2>. QED BY <1>a, <1>3, <2>1, <2>3 DEF MemberPoll, Membered
<1>. QED BY <1>1, <1>2, <1>3

\* An answered start call leaves the operation alone or is what it waits for;
\* the same for the distribution.
Replied(h) ==
    \/ UNCHANGED <<waiting, view>>
    \/ /\ op.phase = "start" /\ h.id = op.id /\ h.to \in waiting
       /\ waiting' = waiting \ {h.to}
       /\ \E p \in Peer : /\ p.id = op.id /\ p.status \in {"running", "failed"}
                          /\ view' = [view EXCEPT ![h.to] = p]

Joined(h) ==
    \/ UNCHANGED <<joining, dist, members, shown>>
    \/ /\ h.id = dist.id /\ h.to \in joining
       /\ joining' = joining \ {h.to}
       /\ dist' = [dist EXCEPT !.seen = @ \cup {h.to}]
       /\ \E p \in Peer : p.id = dist.id /\ Member(h.to, p)

\* Answer is both at once.
LEMMA Answers ==
    ASSUME NEW h \in Handler, NEW p \in Peer, p.id = h.id, p.status \in {"running", "failed"},
           Answer(h, p)
    PROVE  Replied(h) /\ Joined(h) /\ UNCHANGED <<nextID, op, probeKey>>
<1>1. Replied(h)
  BY DEF Answer, Replied
<1>2. Joined(h)
  BY DEF Answer, Joined
<1>. QED BY <1>1, <1>2 DEF Answer

\* A start call is looked at, rejected, or starts its task.
Handled(h) ==
    /\ h \in Handler /\ UNCHANGED <<nextID, op, probeKey>>
    /\ Replied(h) /\ Joined(h)
    /\ \/ /\ handlers' = (handlers \ {h}) \cup {[h EXCEPT !.place = "probing"]}
          /\ UNCHANGED <<task, stopped>>
       \/ handlers' = handlers \ {h} /\ UNCHANGED <<task, stopped>>
       \/ /\ handlers' = handlers \ {h} /\ task[h.to].status # "running"
          /\ task' = [task EXCEPT ![h.to] = [id |-> h.id, status |-> "running"]]
          /\ stopped' = [stopped EXCEPT ![h.to] = FALSE]

\* Every step of a handler is one; the acknowledgement of a repeated start is
\* never needed, since the receiver has not had the task.
LEMMA Handling ==
    ASSUME IInv, NEW h \in handlers, HandlerStep(h)
    PROVE  Handled(h)
<1>a. /\ h \in Handler /\ task[h.to].id # h.id /\ h.id \in TaskID
      /\ FailedStart(h.id) \in Peer /\ FailedStart(h.id).id = h.id
      /\ FailedStart(h.id).status = "failed"
      /\ Started(h) \in Peer /\ Started(h).id = h.id /\ Started(h).status = "running"
  <2>1. h \in Handler /\ h.id \in TaskID /\ task[h.to].id # h.id
    BY DEF IInv, TypeOK, Single, Handler
  <2>. QED BY <2>1, Peers
<1>1. CASE StartArrives(h)
  <2>1. CASE task[h.to].status = "running"
    <3>1. /\ handlers' = handlers \ {h} /\ Answer(h, FailedStart(h.id))
          /\ UNCHANGED <<task, stopped>>
      BY <1>a, <1>1, <2>1 DEF StartArrives
    <3>. QED BY <1>a, <3>1, Answers DEF Handled
  <2>2. CASE task[h.to].status # "running"
    <3>1. /\ handlers' = (handlers \ {h}) \cup {[h EXCEPT !.place = "probing"]}
          /\ UNCHANGED <<task, stopped, nextID, opVars, shown, probeKey, distVars>>
      BY <1>a, <1>1, <2>2 DEF StartArrives
    <3>. QED BY <1>a, <3>1 DEF Handled, Replied, Joined, opVars, distVars
  <2>. QED BY <2>1, <2>2
<1>2. CASE StartRejected(h)
  BY <1>a, <1>2, Answers DEF StartRejected, Handled
<1>3. CASE Launch(h)
  <2>1. CASE task[h.to].status = "running"
    <3>1. /\ handlers' = handlers \ {h} /\ Answer(h, FailedStart(h.id))
          /\ UNCHANGED <<task, stopped>>
      BY <1>3, <2>1 DEF Launch
    <3>. QED BY <1>a, <3>1, Answers DEF Handled
  <2>2. CASE task[h.to].status # "running"
    <3>1. /\ handlers' = handlers \ {h} /\ Answer(h, Started(h))
          /\ task' = [task EXCEPT ![h.to] = [id |-> h.id, status |-> "running"]]
          /\ stopped' = [stopped EXCEPT ![h.to] = FALSE]
      BY <1>3, <2>2 DEF Launch
    <3>. QED BY <1>a, <2>2, <3>1, Answers DEF Handled
  <2>. QED BY <2>1, <2>2
<1>. QED BY <1>1, <1>2, <1>3 DEF HandlerStep

\* No start call appears, and a launched one is gone.
LEMMA HandlersMove ==
    ASSUME IInv, NEW h \in handlers, Handled(h)
    PROVE  /\ handlers' \subseteq Handler
           /\ \A g \in handlers' : \E f \in handlers : f.to = g.to /\ f.id = g.id
           /\ \A f, g \in handlers' : f.to = g.to /\ f.id = g.id => f = g
           /\ \/ UNCHANGED <<task, stopped>>
              \/ /\ task[h.to].status # "running"
                 /\ task' = [task EXCEPT ![h.to] = [id |-> h.id, status |-> "running"]]
                 /\ stopped' = [stopped EXCEPT ![h.to] = FALSE]
                 /\ \A g \in handlers' : g.to # h.to \/ g.id # h.id
<1>a. /\ h \in Handler /\ handlers \subseteq Handler
      /\ \A f, g \in handlers : f.to = g.to /\ f.id = g.id => f = g
  BY DEF IInv, TypeOK, Handled
<1>1. CASE handlers' = handlers \ {h}
  BY <1>a, <1>1 DEF Handled
<1>2. CASE /\ handlers' = (handlers \ {h}) \cup {[h EXCEPT !.place = "probing"]}
           /\ UNCHANGED <<task, stopped>>
  <2>. DEFINE n == [h EXCEPT !.place = "probing"]
  <2>1. n \in Handler /\ n.to = h.to /\ n.id = h.id
    BY <1>a DEF Handler
  <2>2. handlers' = (handlers \ {h}) \cup {n}
    BY <1>2
  <2>. HIDE DEF n
  <2>. QED BY <1>a, <1>2, <2>1, <2>2
<1>. QED BY <1>1, <1>2 DEF Handled

\* The start calls of a new dispatch, and of a receiver that joins.
LEMMA NewCalls ==
    ASSUME IInv, NEW S \in SUBSET Receivers, NEW i \in TaskID,
           handlers' = handlers \cup {[to |-> r, id |-> i, place |-> "sent"] : r \in S},
           \A r \in S : ~Starting(r, i)
    PROVE  /\ handlers' \subseteq Handler
           /\ \A f, g \in handlers' : f.to = g.to /\ f.id = g.id => f = g
           /\ \A g \in handlers' : g \in handlers \/ (g.to \in S /\ g.id = i)
<1>a. /\ handlers \subseteq Handler
      /\ \A f, g \in handlers : f.to = g.to /\ f.id = g.id => f = g
  BY DEF IInv, TypeOK
<1>. DEFINE N(r) == [to |-> r, id |-> i, place |-> "sent"]
<1>1. \A r \in S : N(r) \in Handler /\ N(r).to = r /\ N(r).id = i
  BY DEF Handler
<1>2. \A g \in handlers' : g \in handlers \/ \E r \in S : g = N(r)
  OBVIOUS
<1>3. \A g \in handlers : g.to \in S => g.id # i
  BY DEF Starting
<1>. HIDE DEF N
<1>. QED BY <1>a, <1>1, <1>2, <1>3

\* A dispatch begins: its ID is new, and so are its start calls.
Begun(S) ==
    /\ nextID \in TaskID /\ nextID' = nextID + 1 /\ op.phase = "idle"
    /\ op' \in Op /\ op'.phase = "start" /\ op'.status = "running" /\ op'.id = nextID
    /\ op'.chosen = S /\ view' = shown
    /\ waiting' = {r \in S : shown[r].ready}
    /\ handlers' \subseteq Handler
    /\ \A f, g \in handlers' : f.to = g.to /\ f.id = g.id => f = g
    /\ \A g \in handlers' : g \in handlers \/ (g.to \in waiting' /\ g.id = nextID)
    /\ UNCHANGED <<task, stopped, shown, probeKey, distVars>>

\* The copied map and the start calls of a dispatch.
LEMMA Begins ==
    ASSUME IInv, NEW S \in SUBSET Receivers, BeginDispatch(S)
    PROVE  Begun(S)
<1>1. nextID \in TaskID /\ nextID \in Nat /\ op.phase = "idle"
  BY DispatchConstants DEF IInv, TypeOK, Frame, BeginDispatch, TaskID
<1>2. \A r \in Receivers : ~Starting(r, nextID)
  BY <1>1 DEF IInv, TypeOK, Fresh, Starting, Handler, TaskID
<1>. DEFINE W == {r \in S : shown[r].ready}
<1>3. /\ waiting' = W /\ W \in SUBSET Receivers
      /\ handlers' = handlers \cup {[to |-> r, id |-> nextID, place |-> "sent"] : r \in W}
  BY DEF BeginDispatch
<1>4. /\ op' \in Op /\ op'.phase = "start" /\ op'.status = "running" /\ op'.id = nextID
      /\ op'.chosen = S
  BY <1>1 DEF BeginDispatch, Op
<1>. HIDE DEF W
<1>5. /\ handlers' \subseteq Handler
      /\ \A f, g \in handlers' : f.to = g.to /\ f.id = g.id => f = g
      /\ \A g \in handlers' : g \in handlers \/ (g.to \in W /\ g.id = nextID)
  <2>1. \A r \in W : ~Starting(r, nextID)
    BY <1>2, <1>3
  <2>. QED BY <1>1, <1>3, <2>1, NewCalls
<1>. QED BY <1>1, <1>3, <1>4, <1>5 DEF BeginDispatch, Begun

\* A receiver joins the distribution: it has not had its task.
Joins(r) ==
    /\ dist.accepting /\ joining' = joining \cup {r} /\ r \notin dist.seen
    /\ task[r].id # dist.id
    /\ handlers' \subseteq Handler
    /\ \A f, g \in handlers' : f.to = g.to /\ f.id = g.id => f = g
    /\ \A g \in handlers' : g \in handlers \/ (g.to = r /\ g.id = dist.id)
    /\ UNCHANGED <<task, stopped, nextID, opVars, shown, probeKey, dist, members>>

\* The distribution has not admitted the receiver, so it has not asked it.
LEMMA Joining ==
    ASSUME IInv, NEW r \in Receivers, Join(r)
    PROVE  Joins(r)
<1>1. /\ dist.accepting /\ dist.id # 0 /\ dist.id \in TaskID
      /\ r \notin dist.seen \cup joining
  BY DEF IInv, TypeOK, Frame, Join, Dist
<1>2. task[r].id # dist.id /\ ~Starting(r, dist.id)
  BY <1>1 DEF IInv, Admitted
<1>3. /\ handlers' = handlers \cup {[to |-> q, id |-> dist.id, place |-> "sent"] : q \in {r}}
      /\ {r} \in SUBSET Receivers
  BY DEF Join
<1>4. /\ handlers' \subseteq Handler
      /\ \A f, g \in handlers' : f.to = g.to /\ f.id = g.id => f = g
      /\ \A g \in handlers' : g \in handlers \/ (g.to \in {r} /\ g.id = dist.id)
  <2>1. \A q \in {r} : ~Starting(q, dist.id)
    BY <1>2
  <2>. QED BY <1>1, <1>3, <2>1, NewCalls
<1>. QED BY <1>1, <1>2, <1>4 DEF Join, Joins

\* A pause, and the loop's next look at it: nobody is admitted or forgotten.
Sampled ==
    /\ dist' \in Dist /\ dist'.id = dist.id /\ dist'.seen = dist.seen
    /\ dist'.active \/ dist'.accepting => dist.active \/ dist.accepting
    /\ UNCHANGED <<agentVars, nextID, opVars, shown, probeKey, joining, members>>

\* Neither step opens a distribution.
LEMMA Samples ==
    ASSUME TypeOK, PauseDistribution \/ NewRound
    PROVE  Sampled
BY DEF TypeOK, Dist, PauseDistribution, NewRound, Sampled

\* The steps by kind.
LEMMA Steps ==
    ASSUME IInv, [Next]_vars
    PROVE  \/ \E S \in SUBSET Receivers : Probe(S) \/ Begun(S)
           \/ StartDistribution \/ Sampled \/ Cancel
           \/ RoundStep
           \/ \E r \in Receivers :
                 \/ SkipStart(r) \/ StartFails(r) \/ PollStep(r)
                 \/ CancelTask(r) \/ CancelFails(r) \/ TaskEnds(r)
                 \/ Membered(r) \/ Joins(r)
           \/ \E h \in handlers : Handled(h)
           \/ UNCHANGED vars
<1>1. ASSUME NEW S \in SUBSET Receivers, BeginDispatch(S) PROVE Begun(S)
  BY <1>1, Begins
<1>2. ASSUME StartsDone \/ RoundEnds \/ CancelsDone PROVE RoundStep
  BY <1>2, Rounds
<1>3. ASSUME NEW r \in Receivers, PollAnswer(r) \/ PollFails(r) \/ SkipPoll(r) PROVE PollStep(r)
  BY <1>3, Polls
<1>4. ASSUME NEW r \in Early, Exclude(r) \/ JoinFails(r) \/ MemberPoll(r)
      PROVE  r \in Receivers /\ Membered(r)
  BY <1>4, Loops, DispatchConstants
<1>5. ASSUME NEW r \in Early, Join(r) PROVE r \in Receivers /\ Joins(r)
  BY <1>5, Joining, DispatchConstants
<1>6. ASSUME NEW h \in handlers, HandlerStep(h) PROVE Handled(h)
  BY <1>6, Handling
<1>7. ASSUME PauseDistribution \/ NewRound PROVE Sampled
  BY <1>7, Samples DEF IInv
<1>. QED BY <1>1, <1>2, <1>3, <1>4, <1>5, <1>6, <1>7 DEF Next, OpStep, LoopStep

-----------------------------------------------------------------------------
(* Each part of the invariant is kept *)

\* Types, and at most one start call of a task at a receiver.
LEMMA NextTypeOK ==
    ASSUME IInv, [Next]_vars
    PROVE  TypeOK'
<1>. USE DEF agentVars, opVars, distVars
<1>a. /\ TypeOK /\ op \in Op /\ op.id \in TaskID /\ handlers \subseteq Handler
      /\ task \in [Receivers -> Task] /\ view \in [Receivers -> Peer]
      /\ shown \in [Receivers -> Peer] /\ members \in [Receivers -> Peer]
      /\ stopped \in [Receivers -> BOOLEAN] /\ waiting \subseteq Receivers
      /\ dist \in Dist
      /\ joining \subseteq Receivers \ dist.seen
  BY DEF IInv, TypeOK, Op
<1>b. Nobodies \in [Receivers -> Peer]
  BY Peers DEF Nobodies
<1>1. ASSUME NEW S \in SUBSET Receivers, Probe(S) PROVE TypeOK'
  <2>1. PICK ready \in SUBSET S :
           shown' = [r \in Receivers |->
                       IF r \in S THEN [shown[r] EXCEPT !.ready = r \in ready] ELSE shown[r]]
    BY <1>1 DEF Probe
  <2>a. ASSUME NEW p \in Peer, NEW b \in BOOLEAN PROVE [p EXCEPT !.ready = b] \in Peer
    BY <2>a DEF Peer
  <2>b. \A r \in Receivers : (r \in ready) \in BOOLEAN
    OBVIOUS
  <2>c. \A r \in Receivers : [shown[r] EXCEPT !.ready = r \in ready] \in Peer
    BY <1>a, <2>a, <2>b
  <2>2. shown' \in [Receivers -> Peer]
    BY <1>a, <2>1, <2>c
  <2>d. 0 \in TaskID /\ op' = [op EXCEPT !.status = "completed", !.id = 0]
    BY <1>1, DispatchConstants DEF Probe, TaskID
  <2>3. op' \in Op
    BY <1>a, <2>d DEF Op
  <2>. QED BY <1>a, <1>1, <2>2, <2>3 DEF Probe, TypeOK
<1>2. ASSUME NEW S \in SUBSET Receivers, Begun(S) PROVE TypeOK'
  <2>1. nextID + 1 \in 1 .. MaxTasks + 1
    BY <1>2, DispatchConstants DEF Begun, TaskID
  <2>. QED BY <1>a, <1>2, <2>1 DEF Begun, TypeOK
<1>3. CASE StartDistribution
  <2>1. nextID \in TaskID /\ nextID' \in 1 .. MaxTasks + 1
    BY <1>a, <1>3, DispatchConstants DEF StartDistribution, TypeOK, TaskID
  <2>2. members' \in [Receivers -> Peer]
    BY <1>b, <1>3 DEF StartDistribution, Nobodies
  <2>3. /\ dist' \in Dist
        /\ joining' \subseteq Receivers \ dist'.seen
    BY <1>3, <2>1 DEF StartDistribution, Dist
  <2>. QED BY <1>a, <1>3, <2>1, <2>2, <2>3 DEF StartDistribution, TypeOK
<1>4. CASE Sampled
  BY <1>a, <1>4 DEF Sampled, TypeOK
<1>5. CASE Cancel
  <2>1. op' \in Op
    BY <1>a, <1>5 DEF Cancel, Op
  <2>. QED BY <1>a, <1>5, <2>1 DEF Cancel, TypeOK
<1>6. CASE RoundStep
  <2>1. view' \in [Receivers -> Peer] /\ shown' \in [Receivers -> Peer]
    BY <1>a, <1>b, <1>6 DEF RoundStep
  <2>. QED BY <1>a, <1>6, <2>1 DEF RoundStep, TypeOK
<1>7. ASSUME NEW r \in Receivers, SkipStart(r) PROVE TypeOK'
  BY <1>a, <1>7 DEF SkipStart, TypeOK
<1>8. ASSUME NEW r \in Receivers, StartFails(r) PROVE TypeOK'
  <2>1. view' \in [Receivers -> Peer]
    BY <1>a, <1>8, Peers DEF StartFails
  <2>. QED BY <1>a, <1>8, <2>1 DEF StartFails, TypeOK
<1>9. ASSUME NEW r \in Receivers, PollStep(r) PROVE TypeOK'
  <2>a. PICK s \in TaskStatus : view' = [view EXCEPT ![r].status = s]
    BY <1>9 DEF PollStep
  <2>1. view' \in [Receivers -> Peer]
    BY <1>a, <2>a DEF Peer
  <2>. QED BY <1>a, <1>9, <2>1 DEF PollStep, TypeOK
<1>10. ASSUME NEW r \in Receivers, CancelTask(r) PROVE TypeOK'
  <2>1. stopped' \in [Receivers -> BOOLEAN]
    BY <1>a, <1>10 DEF CancelTask
  <2>. QED BY <1>a, <1>10, <2>1 DEF CancelTask, TypeOK
<1>11. ASSUME NEW r \in Receivers, CancelFails(r) PROVE TypeOK'
  <2>1. op' \in Op
    BY <1>a, <1>11 DEF CancelFails, Op
  <2>. QED BY <1>a, <1>11, <2>1 DEF CancelFails, TypeOK
<1>12. ASSUME NEW r \in Receivers, TaskEnds(r) PROVE TypeOK'
  <2>1. PICK status \in {"seeding", "failed", "cancelled"} :
           task' = [task EXCEPT ![r].status = status]
    BY <1>12 DEF TaskEnds
  <2>2. task' \in [Receivers -> Task]
    BY <1>a, <2>1 DEF Task, TaskStatus
  <2>3. stopped' \in [Receivers -> BOOLEAN]
    BY <1>a, <1>12 DEF TaskEnds
  <2>. QED BY <1>a, <1>12, <2>2, <2>3 DEF TaskEnds, TypeOK
<1>13. ASSUME NEW r \in Receivers, Membered(r) PROVE TypeOK'
  <2>1. members' \in [Receivers -> Peer] /\ shown' \in [Receivers -> Peer]
    BY <1>a, <1>13 DEF Membered, Member
  <2>. QED BY <1>a, <1>13, <2>1 DEF Membered, TypeOK
<1>14. ASSUME NEW r \in Receivers, Joins(r) PROVE TypeOK'
  BY <1>a, <1>14 DEF Joins, TypeOK
<1>15. ASSUME NEW h \in handlers, Handled(h) PROVE TypeOK'
  <2>1. h.to \in Receivers /\ h.id \in TaskID
    BY <1>a DEF Handler
  <2>2. waiting' \subseteq Receivers /\ view' \in [Receivers -> Peer]
    BY <1>a, <1>15 DEF Handled, Replied
  <2>3. /\ dist' \in Dist
        /\ joining' \subseteq Receivers \ dist'.seen
    BY <1>a, <1>15, <2>1 DEF Handled, Joined, Dist
  <2>4. members' \in [Receivers -> Peer] /\ shown' \in [Receivers -> Peer]
    BY <1>a, <1>15 DEF Handled, Joined, Member
  <2>5. task' \in [Receivers -> Task] /\ stopped' \in [Receivers -> BOOLEAN]
    <3>. DEFINE t == [id |-> h.id, status |-> "running"]
    <3>1. t \in Task
      BY <2>1 DEF Task, TaskStatus
    <3>2. \/ UNCHANGED <<task, stopped>>
          \/ task' = [task EXCEPT ![h.to] = t] /\ stopped' = [stopped EXCEPT ![h.to] = FALSE]
      BY <1>15 DEF Handled
    <3>. HIDE DEF t
    <3>. QED BY <1>a, <3>1, <3>2
  <2>6. /\ handlers' \subseteq Handler
        /\ \A f, g \in handlers' : f.to = g.to /\ f.id = g.id => f = g
    BY <1>15, HandlersMove
  <2>. QED BY <1>a, <1>15, <2>2, <2>3, <2>4, <2>5, <2>6 DEF Handled, TypeOK
<1>16. CASE UNCHANGED vars
  BY <1>a, <1>16 DEF vars, TypeOK
<1>. QED
  BY <1>1, <1>2, <1>3, <1>4, <1>5, <1>6, <1>7, <1>8, <1>9, <1>10, <1>11, <1>12, <1>13, <1>14,
     <1>15, <1>16, Steps

\* IDs are made by counting, and copied.
LEMMA NextFresh ==
    ASSUME IInv, [Next]_vars
    PROVE  Fresh'
<1>. USE DEF agentVars, opVars, distVars
<1>a. /\ TypeOK /\ op \in Op /\ op.id \in Nat /\ dist.id \in Nat /\ nextID \in Nat /\ nextID # 0
      /\ task \in [Receivers -> Task] /\ view \in [Receivers -> Peer]
      /\ shown \in [Receivers -> Peer] /\ members \in [Receivers -> Peer]
      /\ dist \in Dist
  BY DispatchConstants DEF IInv, TypeOK, Op, TaskID, Dist
<1>b. /\ \A h \in handlers : h.id \in Nat
      /\ \A r \in Receivers : /\ task[r].id \in Nat /\ view[r].id \in Nat
                              /\ shown[r].id \in Nat /\ members[r].id \in Nat
  BY <1>a, DispatchConstants DEF TypeOK, Handler, Task, Peer, TaskID
<1>c. Fresh
  BY DEF IInv
<1>d. \A r \in Receivers : Nobodies[r].id = 0
  BY Peers DEF Nobodies
<1>1. ASSUME NEW S \in SUBSET Receivers, Probe(S) PROVE Fresh'
  <2>1. PICK ready \in SUBSET S :
           shown' = [r \in Receivers |->
                       IF r \in S THEN [shown[r] EXCEPT !.ready = r \in ready] ELSE shown[r]]
    BY <1>1 DEF Probe
  <2>2. \A r \in Receivers : shown'[r].id = shown[r].id
    BY <1>a, <2>1 DEF Peer
  <2>3. op'.id = 0
    BY <1>a, <1>1 DEF Probe, Op
  <2>. QED BY <1>a, <1>c, <1>1, <2>2, <2>3 DEF Probe, Fresh
<1>2. ASSUME NEW S \in SUBSET Receivers, Begun(S) PROVE Fresh'
  BY <1>a, <1>b, <1>c, <1>2 DEF Begun, Fresh
<1>3. CASE StartDistribution
  <2>1. dist'.id = nextID /\ nextID' = nextID + 1 /\ members' = Nobodies
    BY <1>3 DEF StartDistribution, Nobodies
  <2>. QED BY <1>a, <1>b, <1>c, <1>d, <1>3, <2>1 DEF StartDistribution, Fresh
<1>4. CASE Sampled
  <2>1. dist'.id = dist.id
    BY <1>a, <1>4 DEF Sampled
  <2>. QED BY <1>c, <1>4, <2>1 DEF Sampled, Fresh
<1>5. CASE Cancel
  <2>1. op'.id = op.id
    BY <1>a, <1>5 DEF Cancel, Op
  <2>. QED BY <1>c, <1>5, <2>1 DEF Cancel, Fresh
<1>6. CASE RoundStep
  <2>1. op'.id \in {0, op.id} /\ (view' = view \/ view' = Nobodies)
    BY <1>6 DEF RoundStep
  <2>2. UNCHANGED <<task, handlers, nextID, dist, members>> /\ (shown' = shown \/ shown' = view)
    BY <1>6 DEF RoundStep
  <2>. QED BY <1>a, <1>c, <1>d, <2>1, <2>2 DEF Fresh
<1>7. ASSUME NEW r \in Receivers, SkipStart(r) PROVE Fresh'
  BY <1>c, <1>7 DEF SkipStart, Fresh
<1>8. ASSUME NEW r \in Receivers, StartFails(r) PROVE Fresh'
  <2>1. \A q \in Receivers : view'[q] = view[q] \/ view'[q].id = op.id
    BY <1>a, <1>8 DEF StartFails, FailedStart
  <2>. QED BY <1>c, <1>8, <2>1 DEF StartFails, Fresh
<1>9. ASSUME NEW r \in Receivers, PollStep(r) PROVE Fresh'
  <2>1. PICK s \in TaskStatus : view' = [view EXCEPT ![r].status = s]
    BY <1>9 DEF PollStep
  <2>2. \A q \in Receivers : view'[q].id = view[q].id
    BY <1>a, <2>1 DEF Peer
  <2>. QED BY <1>c, <1>9, <2>2 DEF PollStep, Fresh
<1>10. ASSUME NEW r \in Receivers, CancelTask(r) PROVE Fresh'
  BY <1>c, <1>10 DEF CancelTask, Fresh
<1>11. ASSUME NEW r \in Receivers, CancelFails(r) PROVE Fresh'
  <2>1. op'.id = op.id
    BY <1>a, <1>11 DEF CancelFails, Op
  <2>. QED BY <1>c, <1>11, <2>1 DEF CancelFails, Fresh
<1>12. ASSUME NEW r \in Receivers, TaskEnds(r) PROVE Fresh'
  <2>1. PICK status \in {"seeding", "failed", "cancelled"} :
           task' = [task EXCEPT ![r].status = status]
    BY <1>12 DEF TaskEnds
  <2>2. \A q \in Receivers : /\ task'[q].id = task[q].id
                             /\ task'[q].status = "idle" => task[q].status = "idle"
    BY <1>a, <2>1 DEF Task
  <2>. QED BY <1>c, <1>12, <2>2 DEF TaskEnds, Fresh
<1>13. ASSUME NEW r \in Receivers, Membered(r) PROVE Fresh'
  <2>1. \A q \in Receivers : /\ members'[q] = members[q] \/ members'[q].id < nextID
                             /\ shown'[q] = shown[q] \/ shown'[q].id < nextID
    BY <1>a, <1>13 DEF Membered, Member
  <2>. QED BY <1>c, <1>13, <2>1 DEF Membered, Fresh
<1>14. ASSUME NEW r \in Receivers, Joins(r) PROVE Fresh'
  BY <1>c, <1>14 DEF Joins, Fresh
<1>15. ASSUME NEW h \in handlers, Handled(h) PROVE Fresh'
  <2>1. UNCHANGED <<nextID, op>>
    BY <1>15 DEF Handled
  <2>2. \A q \in Receivers : view'[q] = view[q] \/ view'[q].id = op.id
    BY <1>a, <1>15 DEF Handled, Replied
  <2>3. \A q \in Receivers : /\ members'[q] = members[q] \/ members'[q].id = dist.id
                             /\ shown'[q] = shown[q] \/ shown'[q].id = dist.id
    BY <1>a, <1>15 DEF Handled, Joined, Member
  <2>4. dist'.id = dist.id
    BY <1>a, <1>15 DEF Handled, Joined, Dist
  <2>5. \A q \in Receivers : \/ task'[q] = task[q]
                             \/ task'[q].id = h.id /\ task'[q].status = "running"
    BY <1>a, <1>15 DEF Handled
  <2>6. \A g \in handlers' : \E f \in handlers : f.to = g.to /\ f.id = g.id
    BY <1>15, HandlersMove
  <2>. QED BY <1>c, <1>15, <2>1, <2>2, <2>3, <2>4, <2>5, <2>6 DEF Fresh
<1>16. CASE UNCHANGED vars
  BY <1>c, <1>16 DEF vars, Fresh
<1>. QED
  BY <1>1, <1>2, <1>3, <1>4, <1>5, <1>6, <1>7, <1>8, <1>9, <1>10, <1>11, <1>12, <1>13, <1>14,
     <1>15, <1>16, Steps

\* The two users of IDs do not share one.
LEMMA NextFrame ==
    ASSUME IInv, [Next]_vars
    PROVE  Frame'
<1>. USE DEF agentVars, opVars, distVars
<1>a. /\ TypeOK /\ op \in Op /\ op.id \in Nat /\ dist.id \in Nat /\ nextID \in Nat /\ nextID # 0
      /\ dist \in Dist
      /\ op.id # nextID /\ dist.id # nextID
  BY DispatchConstants DEF IInv, TypeOK, Op, TaskID, Fresh, Dist
<1>b. Frame
  BY DEF IInv
<1>1. ASSUME NEW S \in SUBSET Receivers, Probe(S) PROVE Frame'
  <2>1. op'.id = 0 /\ op'.phase = op.phase /\ op.phase = "idle" /\ op'.status = "completed"
    BY <1>a, <1>b, <1>1 DEF Probe, Op, Frame
  <2>. QED BY <1>b, <1>1, <2>1 DEF Probe, Frame, Idle
<1>2. ASSUME NEW S \in SUBSET Receivers, Begun(S) PROVE Frame'
  BY <1>a, <1>b, <1>2 DEF Begun, Frame, Idle
<1>3. CASE StartDistribution
  BY <1>a, <1>b, <1>3 DEF StartDistribution, Frame, Idle
<1>4. CASE Sampled
  <2>1. dist'.id = dist.id /\ (dist'.active \/ dist'.accepting => dist.active \/ dist.accepting)
    BY <1>a, <1>4 DEF Sampled
  <2>. QED BY <1>b, <1>4, <2>1 DEF Sampled, Frame, Idle
<1>5. CASE op'.id = op.id /\ op'.phase = op.phase /\ op'.status = op.status /\ UNCHANGED dist
  BY <1>b, <1>5 DEF Frame, Idle
<1>6. CASE RoundStep
  <2>1. op'.phase = "idle" <=> op'.status # "running"
    BY <1>6 DEF RoundStep
  <2>2. op'.id # 0 => op'.id = op.id
    BY <1>6 DEF RoundStep
  <2>3. op'.phase # "idle" => op'.id # 0
    BY <1>b, <1>6 DEF RoundStep, Frame
  <2>. QED BY <1>b, <1>6, <2>1, <2>2, <2>3 DEF RoundStep, Frame, Idle
<1>7. ASSUME NEW r \in Receivers,
             \/ SkipStart(r) \/ StartFails(r) \/ PollStep(r) \/ CancelTask(r) \/ TaskEnds(r)
             \/ Joins(r)
      PROVE  UNCHANGED <<op, dist>>
  BY <1>7 DEF SkipStart, StartFails, PollStep, CancelTask, TaskEnds, Joins
<1>8. ASSUME NEW r \in Receivers, CancelFails(r)
      PROVE  op'.id = op.id /\ op'.phase = op.phase /\ op'.status = op.status /\ UNCHANGED dist
  BY <1>a, <1>8 DEF CancelFails, Op
<1>9. Cancel => op'.id = op.id /\ op'.phase = op.phase /\ op'.status = op.status /\ UNCHANGED dist
  BY <1>a DEF Cancel, Op
<1>10. ASSUME NEW r \in Receivers, Membered(r) PROVE Frame'
  BY <1>b, <1>10 DEF Membered, Frame, Idle
<1>11. ASSUME NEW h \in handlers, Handled(h) PROVE Frame'
  <2>1. /\ dist'.id = dist.id /\ UNCHANGED op
        /\ dist'.active = dist.active /\ dist'.accepting = dist.accepting
    BY <1>a, <1>11 DEF Handled, Joined, Dist
  <2>. QED BY <1>b, <2>1 DEF Frame, Idle
<1>12. CASE UNCHANGED vars
  BY <1>5, <1>12 DEF vars
<1>. QED
  BY <1>1, <1>2, <1>3, <1>4, <1>5, <1>6, <1>7, <1>8, <1>9, <1>10, <1>11, <1>12, Steps

\* A receiver is asked once to start a task.
LEMMA NextSingle ==
    ASSUME IInv, [Next]_vars
    PROVE  Single'
<1>. USE DEF agentVars, opVars, distVars
<1>a. /\ TypeOK /\ task \in [Receivers -> Task] /\ handlers \subseteq Handler
      /\ \A h \in handlers : h.to \in Receivers
  BY DEF IInv, TypeOK, Handler
<1>b. Single
  BY DEF IInv
<1>1. CASE UNCHANGED <<task, handlers>>
  BY <1>b, <1>1 DEF Single
<1>2. ASSUME NEW S \in SUBSET Receivers, Begun(S) PROVE Single'
  <2>1. \A r \in Receivers : task[r].id # nextID
    BY DispatchConstants DEF IInv, Fresh, TypeOK, Task, TaskID
  <2>2. waiting' \subseteq Receivers
    BY <1>2 DEF Begun
  <2>. QED BY <1>b, <1>2, <2>1, <2>2 DEF Begun, Single
<1>3. ASSUME NEW r \in Receivers, Joins(r) PROVE Single'
  BY <1>b, <1>3 DEF Joins, Single
<1>4. ASSUME NEW r \in Receivers, SkipStart(r) PROVE Single'
  BY <1>b, <1>4 DEF SkipStart, Single
<1>5. ASSUME NEW r \in Receivers, TaskEnds(r) PROVE Single'
  <2>1. \A q \in Receivers : task'[q].id = task[q].id
    BY <1>a, <1>5 DEF TaskEnds, Task
  <2>. QED BY <1>a, <1>b, <1>5, <2>1 DEF TaskEnds, Single
<1>6. ASSUME NEW h \in handlers, Handled(h) PROVE Single'
  <2>1. \A g \in handlers' : \E f \in handlers : f.to = g.to /\ f.id = g.id
    BY <1>6, HandlersMove
  <2>2. CASE UNCHANGED task
    BY <1>b, <2>1, <2>2 DEF Single
  <2>3. CASE /\ task' = [task EXCEPT ![h.to] = [id |-> h.id, status |-> "running"]]
             /\ \A g \in handlers' : g.to # h.to \/ g.id # h.id
    <3>1. task'[h.to].id = h.id /\ \A q \in Receivers : q # h.to => task'[q] = task[q]
      BY <1>a, <2>3
    <3>. QED BY <1>a, <1>b, <2>1, <2>3, <3>1 DEF Single
  <2>. QED BY <1>6, <2>2, <2>3, HandlersMove
<1>7. ASSUME NEW r \in Receivers,
             \/ StartFails(r) \/ PollStep(r) \/ CancelTask(r) \/ CancelFails(r) \/ Membered(r)
      PROVE  UNCHANGED <<task, handlers>>
  BY <1>7 DEF StartFails, PollStep, CancelTask, CancelFails, Membered
<1>8. ASSUME NEW S \in SUBSET Receivers, Probe(S) PROVE UNCHANGED <<task, handlers>>
  BY <1>8 DEF Probe
<1>9. StartDistribution \/ Sampled \/ Cancel \/ RoundStep \/ UNCHANGED vars
        => UNCHANGED <<task, handlers>>
  BY DEF StartDistribution, Sampled, Cancel, RoundStep, vars
<1>. QED
  BY <1>1, <1>2, <1>3, <1>4, <1>5, <1>6, <1>7, <1>8, <1>9, Steps

\* How the agents' state moves on its own: nobody has, or waits to have, a task
\* it did not have or wait for.
Onward(r) ==
    \A i \in TaskID :
        /\ (\E g \in handlers' : g.to = r /\ g.id = i) => Starting(r, i)
        /\ task'[r].id = i => task[r].id = i \/ Starting(r, i)

\* Handlers, ending tasks and skipped calls are such moves.
LEMMA AgentsMove ==
    ASSUME IInv, NEW r \in Receivers,
           \/ \E h \in handlers : Handled(h)
           \/ \E q \in Receivers : SkipStart(q) \/ TaskEnds(q)
           \/ UNCHANGED <<task, handlers>>
    PROVE  Onward(r)
<1>a. task \in [Receivers -> Task] /\ handlers \subseteq Handler
  BY DEF IInv, TypeOK
<1>1. ASSUME NEW h \in handlers, Handled(h) PROVE Onward(r)
  <2>1. \A g \in handlers' : \E f \in handlers : f.to = g.to /\ f.id = g.id
    BY <1>1, HandlersMove
  <2>2. task'[r] = task[r] \/ (h.to = r /\ task'[r].id = h.id)
    BY <1>a, <1>1 DEF Handled
  <2>. QED BY <2>1, <2>2 DEF Onward, Starting
<1>2. ASSUME NEW q \in Receivers, SkipStart(q) PROVE Onward(r)
  BY <1>2 DEF SkipStart, Onward, Starting
<1>3. ASSUME NEW q \in Receivers, TaskEnds(q) PROVE Onward(r)
  <2>1. task'[r].id = task[r].id
    BY <1>a, <1>3 DEF TaskEnds, Task
  <2>. QED BY <1>3, <2>1 DEF TaskEnds, Onward, Starting
<1>4. CASE UNCHANGED <<task, handlers>>
  BY <1>4 DEF Onward, Starting
<1>. QED BY <1>1, <1>2, <1>3, <1>4

\* The distribution asks nobody it has not admitted.
LEMMA NextAdmitted ==
    ASSUME IInv, [Next]_vars
    PROVE  Admitted'
<1>. USE DEF agentVars, opVars, distVars
<1>a. /\ TypeOK /\ dist.id \in TaskID
      /\ dist \in Dist
  BY DEF IInv, TypeOK, Dist
<1>b. Admitted
  BY DEF IInv
<1>1. ASSUME \A r \in Receivers : Onward(r),
             dist'.id = dist.id, dist.seen \cup joining \subseteq dist'.seen \cup joining'
      PROVE  Admitted'
  BY <1>a, <1>b, <1>1 DEF Admitted, Onward, Starting
<1>2. ASSUME NEW S \in SUBSET Receivers, Begun(S) PROVE Admitted'
  <2>1. dist.id # nextID /\ UNCHANGED <<task, dist, joining>>
    BY <1>2, DispatchConstants DEF IInv, Fresh, TypeOK, TaskID, Begun
  <2>2. \A g \in handlers' : g \in handlers \/ g.id = nextID
    BY <1>2 DEF Begun
  <2>. QED BY <1>b, <2>1, <2>2 DEF Admitted, Starting
<1>3. CASE StartDistribution
  <2>1. dist'.id = nextID /\ UNCHANGED <<task, handlers>>
    BY <1>3 DEF StartDistribution
  <2>2. /\ \A r \in Receivers : task[r].id # nextID
        /\ \A h \in handlers : h.id # nextID
    BY DispatchConstants DEF IInv, Fresh, TypeOK, Task, Handler, TaskID
  <2>. QED BY <2>1, <2>2 DEF Admitted, Starting
<1>4. ASSUME NEW r \in Receivers, Joins(r) PROVE Admitted'
  BY <1>b, <1>4 DEF Joins, Admitted, Starting
<1>5. ASSUME NEW h \in handlers, Handled(h) PROVE Admitted'
  <2>1. \A r \in Receivers : Onward(r)
    BY <1>5, AgentsMove
  <2>2. dist'.id = dist.id /\ dist.seen \cup joining \subseteq dist'.seen \cup joining'
    BY <1>a, <1>5 DEF Handled, Joined, Dist
  <2>. QED BY <1>1, <2>1, <2>2
<1>6. ASSUME NEW r \in Receivers, SkipStart(r) \/ TaskEnds(r) PROVE Admitted'
  <2>1. \A q \in Receivers : Onward(q)
    BY <1>6, AgentsMove
  <2>2. UNCHANGED <<dist, joining>>
    BY <1>6 DEF SkipStart, TaskEnds
  <2>. QED BY <1>1, <2>1, <2>2
<1>7. ASSUME UNCHANGED <<task, handlers>>, dist'.id = dist.id,
             dist.seen \cup joining \subseteq dist'.seen \cup joining'
      PROVE  Admitted'
  <2>1. \A q \in Receivers : Onward(q)
    BY <1>7, AgentsMove
  <2>. QED BY <1>1, <1>7, <2>1
<1>8. ASSUME NEW r \in Receivers, Membered(r) PROVE Admitted'
  BY <1>7, <1>8 DEF Membered
<1>9. ASSUME NEW r \in Receivers, StartFails(r) \/ PollStep(r) \/ CancelTask(r) \/ CancelFails(r)
      PROVE  UNCHANGED <<task, handlers, dist, joining>>
  BY <1>9 DEF StartFails, PollStep, CancelTask, CancelFails
<1>10. ASSUME NEW S \in SUBSET Receivers, Probe(S)
       PROVE  UNCHANGED <<task, handlers, dist, joining>>
  BY <1>10 DEF Probe
<1>11. CASE Sampled
  <2>1. /\ UNCHANGED <<task, handlers, joining>> /\ dist'.id = dist.id /\ dist'.seen = dist.seen
    BY <1>a, <1>11 DEF Sampled
  <2>. QED BY <1>7, <2>1
<1>12. Cancel \/ RoundStep \/ UNCHANGED vars => UNCHANGED <<task, handlers, dist, joining>>
  BY DEF Cancel, RoundStep, vars
<1>. QED
  BY <1>2, <1>3, <1>4, <1>5, <1>6, <1>7, <1>8, <1>9, <1>10, <1>11, <1>12, Steps

\* The operation's map has every machine that can have its task.
LEMMA NextKnown ==
    ASSUME IInv, [Next]_vars
    PROVE  Known'
<1>. USE DEF agentVars, opVars, distVars
<1>a. /\ TypeOK /\ op \in Op /\ op.id \in TaskID /\ view \in [Receivers -> Peer]
      /\ handlers \subseteq Handler
      /\ \A f, g \in handlers : f.to = g.to /\ f.id = g.id => f = g
  BY DEF IInv, TypeOK, Op
<1>b. Known /\ Frame /\ Single
  BY DEF IInv
<1>. DEFINE In(r) == (op.phase = "start" /\ r \in waiting) \/ view[r].id = op.id
<1>1. ASSUME \A r \in Receivers : Onward(r), op'.phase # "idle" => op.phase # "idle",
             op'.id = op.id, \A r \in Receivers : In(r) => In(r)'
      PROVE  Known'
  BY <1>a, <1>b, <1>1 DEF Known, Onward, Starting
<1>c. ASSUME UNCHANGED <<task, handlers>>, op'.phase # "idle" => op.phase # "idle",
             op'.id = op.id, \A r \in Receivers : In(r) => In(r)'
      PROVE  Known'
  <2>1. \A q \in Receivers : Onward(q)
    BY <1>c, AgentsMove
  <2>. QED BY <1>1, <1>c, <2>1
<1>2. ASSUME NEW S \in SUBSET Receivers, Begun(S) PROVE Known'
  <2>1. \A r \in Receivers : task[r].id # nextID
    BY DispatchConstants DEF IInv, Fresh, TypeOK, Task, TaskID
  <2>2. \A h \in handlers : h.id # nextID
    BY DispatchConstants DEF IInv, Fresh, TypeOK, Handler, TaskID
  <2>. QED BY <1>2, <2>1, <2>2 DEF Begun, Known, Starting
<1>3. ASSUME NEW r \in Receivers, Joins(r) PROVE Known'
  <2>1. /\ UNCHANGED <<task, opVars>> /\ (op.id # 0 => dist.id # op.id)
        /\ \A g \in handlers' : g \in handlers \/ g.id = dist.id
    BY <1>b, <1>3 DEF Joins, Frame
  <2>. QED BY <1>b, <2>1 DEF Known, Starting, Frame
<1>4. ASSUME NEW r \in Receivers, SkipStart(r) PROVE Known'
  <2>1. PICK h \in handlers : /\ h = [to |-> r, id |-> op.id, place |-> "sent"]
                              /\ handlers' = handlers \ {h}
    BY <1>4 DEF SkipStart
  <2>2. h.to = r /\ h.id = op.id
    BY <2>1
  <2>3. task[r].id # op.id /\ \A g \in handlers' : g.to # r \/ g.id # op.id
    BY <1>a, <1>b, <2>1, <2>2 DEF Single
  <2>4. UNCHANGED <<task, op, view>> /\ waiting' = waiting \ {r}
    BY <1>4 DEF SkipStart
  <2>. QED BY <1>b, <2>1, <2>3, <2>4 DEF Known, Starting
<1>5. ASSUME NEW h \in handlers, Handled(h) PROVE Known'
  <2>1. \A r \in Receivers : Onward(r)
    BY <1>5, AgentsMove
  <2>2. \A r \in Receivers : In(r) => In(r)'
    <3>1. UNCHANGED op
      BY <1>5 DEF Handled
    <3>2. CASE UNCHANGED <<waiting, view>>
      BY <3>1, <3>2
    <3>3. CASE /\ waiting' = waiting \ {h.to}
               /\ \E p \in Peer : p.id = op.id /\ view' = [view EXCEPT ![h.to] = p]
      <4>1. \A r \in Receivers : IF r = h.to THEN view'[r].id = op.id ELSE view'[r] = view[r]
        BY <1>a, <3>3
      <4>. QED BY <3>1, <3>3, <4>1
    <3>. QED BY <1>5, <3>2, <3>3 DEF Handled, Replied
  <2>3. UNCHANGED op
    BY <1>5 DEF Handled
  <2>. QED BY <1>1, <2>1, <2>2, <2>3
<1>6. ASSUME NEW r \in Receivers, StartFails(r) PROVE Known'
  <2>1. \A q \in Receivers : IF q = r THEN view'[q].id = op.id ELSE view'[q] = view[q]
    BY <1>a, <1>6 DEF StartFails, FailedStart
  <2>2. UNCHANGED <<task, handlers, op>> /\ waiting' = waiting \ {r}
    BY <1>6 DEF StartFails
  <2>. QED BY <1>c, <2>1, <2>2
<1>7. ASSUME NEW r \in Receivers, PollStep(r) PROVE Known'
  <2>1. PICK s \in TaskStatus : view' = [view EXCEPT ![r].status = s]
    BY <1>7 DEF PollStep
  <2>2. \A q \in Receivers : view'[q].id = view[q].id
    BY <1>a, <2>1 DEF Peer
  <2>3. UNCHANGED <<task, handlers, op>> /\ op.phase = "monitor"
    BY <1>7 DEF PollStep
  <2>. QED BY <1>c, <2>2, <2>3
<1>8. ASSUME NEW r \in Receivers, CancelTask(r) \/ CancelFails(r) PROVE Known'
  <2>1. /\ UNCHANGED <<task, handlers, view>> /\ op.phase = "cancel"
        /\ op'.phase = "cancel" /\ op'.id = op.id
    BY <1>a, <1>8 DEF CancelTask, CancelFails, Op
  <2>. QED BY <1>c, <2>1
<1>9. CASE Cancel
  <2>1. UNCHANGED <<task, handlers, view, waiting>> /\ op'.phase = op.phase /\ op'.id = op.id
    BY <1>a, <1>9 DEF Cancel, Op
  <2>. QED BY <1>c, <2>1
<1>10. CASE RoundStep
  <2>1. CASE op'.phase = "idle"
    BY <2>1 DEF Known
  <2>2. CASE op'.phase # "idle"
    <3>1. UNCHANGED <<task, handlers, view>> /\ op'.id = op.id /\ waiting = {} /\ op.phase # "idle"
      BY <1>10, <2>2 DEF RoundStep
    <3>. QED BY <1>c, <3>1
  <2>. QED BY <2>1, <2>2
<1>11. ASSUME NEW S \in SUBSET Receivers, Probe(S) PROVE Known'
  <2>1. op'.phase = "idle"
    BY <1>a, <1>b, <1>11 DEF Probe, Op, Frame
  <2>. QED BY <2>1 DEF Known
<1>12. CASE UNCHANGED <<task, handlers, opVars>>
  BY <1>c, <1>12
<1>13. ASSUME NEW r \in Receivers, Membered(r) PROVE UNCHANGED <<task, handlers, opVars>>
  BY <1>13 DEF Membered
<1>14. StartDistribution \/ Sampled \/ UNCHANGED vars
         => UNCHANGED <<task, handlers, opVars>>
  BY DEF StartDistribution, Sampled, vars
<1>15. ASSUME NEW r \in Receivers, TaskEnds(r) PROVE Known'
  <2>1. \A q \in Receivers : Onward(q)
    BY <1>15, AgentsMove
  <2>2. UNCHANGED opVars
    BY <1>15 DEF TaskEnds
  <2>. QED BY <1>1, <2>1, <2>2
<1>. HIDE DEF opVars
<1>. QED
  BY <1>2, <1>3, <1>4, <1>5, <1>6, <1>7, <1>8, <1>9, <1>10, <1>11, <1>12, <1>13, <1>14, <1>15,
     Steps

\* What the map says of this task is true, and stays true.
LEMMA NextTold ==
    ASSUME IInv, [Next]_vars
    PROVE  Told'
<1>. USE DEF agentVars, opVars, distVars
<1>a. /\ TypeOK /\ op \in Op /\ op.id \in TaskID /\ view \in [Receivers -> Peer]
      /\ task \in [Receivers -> Task] /\ op.chosen \subseteq Receivers
      /\ shown \in [Receivers -> Peer]
  BY DEF IInv, TypeOK, Op
<1>b. Told /\ Frame /\ Single
  BY DEF IInv
<1>. DEFINE Ready(r) == \/ op.phase = "start" /\ r \in waiting
                        \/ view[r].ready => view[r].id = op.id
<1>c. ASSUME op.phase # "idle" => \A r \in Receivers : Entry(r)',
             op'.phase = op.phase, op'.chosen = op.chosen,
             ~op'.cancelled => ~op.cancelled,
             op.phase \in {"start", "monitor"} /\ ~op'.cancelled =>
                \A r \in op.chosen : Ready(r) => Ready(r)'
      PROVE  Told'
  BY <1>b, <1>c DEF Told
<1>1. CASE UNCHANGED <<task, handlers, opVars>>
  BY <1>b, <1>1 DEF Told, Entry, Starting
<1>2. ASSUME NEW S \in SUBSET Receivers, Begun(S) PROVE Told'
  <2>1. \A r \in Receivers : shown[r].id # nextID
    BY <1>a, DispatchConstants DEF IInv, Fresh, TypeOK, Peer, TaskID
  <2>2. \A r \in Receivers : view'[r].id # op'.id
    BY <1>2, <2>1 DEF Begun
  <2>3. op'.phase = "start" /\ op'.chosen = S /\ \A r \in S : r \in waiting' \/ ~view'[r].ready
    BY <1>2 DEF Begun
  <2>. QED BY <2>2, <2>3 DEF Told, Entry
<1>3. ASSUME NEW r \in Receivers, Joins(r) PROVE Told'
  <2>1. /\ UNCHANGED <<task, opVars>> /\ (op.phase # "idle" => dist.id # op.id)
        /\ \A g \in handlers' : g \in handlers \/ g.id = dist.id
    BY <1>b, <1>3 DEF Joins, Frame
  <2>2. op.phase # "idle" => \A q \in Receivers : Entry(q)'
    BY <1>b, <2>1 DEF Told, Entry, Starting
  <2>. QED BY <1>c, <2>1, <2>2
<1>4. ASSUME NEW r \in Receivers, SkipStart(r) PROVE Told'
  <2>1. UNCHANGED <<task, op, view>> /\ handlers' \subseteq handlers /\ op.cancelled
    BY <1>4 DEF SkipStart
  <2>2. op.phase # "idle" => \A q \in Receivers : Entry(q)'
    BY <1>b, <2>1 DEF Told, Entry, Starting
  <2>. QED BY <1>c, <2>1, <2>2
<1>5. ASSUME NEW r \in Receivers, StartFails(r) PROVE Told'
  <2>1. UNCHANGED <<task, handlers, op>> /\ waiting' = waiting \ {r}
    BY <1>5 DEF StartFails
  <2>2. \A q \in Receivers : IF q = r THEN view'[q].id = op.id /\ view'[q].status = "failed"
                                      ELSE view'[q] = view[q]
    BY <1>a, <1>5 DEF StartFails, FailedStart
  <2>3. op.phase # "idle" => \A q \in Receivers : Entry(q)'
    BY <1>b, <2>1, <2>2 DEF Told, Entry, Starting
  <2>. QED BY <1>a, <1>c, <2>1, <2>2, <2>3
<1>6. ASSUME NEW r \in Receivers, PollStep(r) PROVE Told'
  <2>1. UNCHANGED <<task, handlers, op>> /\ op.phase = "monitor"
    BY <1>6 DEF PollStep
  <2>2. PICK s \in TaskStatus :
           /\ view' = [view EXCEPT ![r].status = s]
           /\ view[r].id = op.id =>
                 /\ s # "idle"
                 /\ s = "seeding" => /\ ~Starting(r, op.id)
                                     /\ task[r].id = op.id => task[r].status = "seeding"
    BY <1>6 DEF PollStep
  <2>3. /\ view'[r].id = view[r].id /\ view'[r].ready = view[r].ready /\ view'[r].status = s
        /\ \A q \in Receivers : q # r => view'[q] = view[q]
    BY <1>a, <2>2 DEF Peer
  <2>4. Entry(r)'
    BY <2>1, <2>2, <2>3 DEF Entry, Starting
  <2>5. \A q \in Receivers : Entry(q)'
    BY <1>b, <2>1, <2>3, <2>4 DEF Told, Entry, Starting
  <2>6. \A q \in op.chosen : Ready(q) => Ready(q)'
    BY <1>a, <2>1, <2>3
  <2>. QED BY <1>c, <2>1, <2>5, <2>6
<1>7. ASSUME NEW r \in Receivers, CancelTask(r) \/ CancelFails(r) PROVE Told'
  <2>1. /\ UNCHANGED <<task, handlers, view>> /\ op'.id = op.id /\ op'.phase = op.phase
        /\ op.phase = "cancel"
    BY <1>a, <1>7 DEF CancelTask, CancelFails, Op
  <2>. QED BY <1>b, <2>1 DEF Told, Entry, Starting
<1>8. CASE Cancel
  <2>1. /\ UNCHANGED <<task, handlers, view>> /\ op'.id = op.id /\ op'.phase = op.phase
        /\ op'.cancelled
    BY <1>a, <1>8 DEF Cancel, Op
  <2>. QED BY <1>b, <2>1 DEF Told, Entry, Starting
<1>9. CASE RoundStep
  <2>1. CASE op'.phase = "idle"
    BY <2>1 DEF Told
  <2>2. CASE op'.phase = "cancel"
    <3>1. UNCHANGED <<task, handlers, view>> /\ op'.id = op.id /\ op.phase # "idle"
      BY <1>9, <2>2 DEF RoundStep
    <3>. QED BY <1>b, <2>2, <3>1 DEF Told, Entry, Starting
  <2>3. CASE op'.phase = "monitor"
    <3>1. /\ UNCHANGED <<task, handlers, view>> /\ op'.id = op.id /\ op'.chosen = op.chosen
          /\ op.phase \in {"start", "monitor"} /\ ~op.cancelled /\ waiting = {}
      BY <1>9, <2>3 DEF RoundStep
    <3>2. \A r \in op.chosen : view[r].ready => view[r].id = op.id
      BY <1>b, <3>1 DEF Told
    <3>. QED BY <1>b, <2>3, <3>1, <3>2 DEF Told, Entry, Starting
  <2>. QED BY <1>9, <2>1, <2>2, <2>3 DEF RoundStep
<1>10. ASSUME NEW S \in SUBSET Receivers, Probe(S) PROVE Told'
  <2>1. op'.phase = "idle"
    BY <1>a, <1>b, <1>10 DEF Probe, Op, Frame
  <2>. QED BY <2>1 DEF Told
<1>11. ASSUME NEW r \in Receivers, TaskEnds(r) PROVE Told'
  <2>1. UNCHANGED <<handlers, opVars>> /\ task[r].status = "running"
    BY <1>11 DEF TaskEnds
  <2>2. \A q \in Receivers : q # r => task'[q] = task[q]
    BY <1>a, <1>11 DEF TaskEnds
  <2>3. task'[r].id = task[r].id
    BY <1>a, <1>11 DEF TaskEnds, Task
  <2>4. op.phase # "idle" => \A q \in Receivers : Entry(q)'
    BY <1>b, <2>1, <2>2, <2>3 DEF Told, Entry, Starting
  <2>. QED BY <1>c, <2>1, <2>4
<1>12. ASSUME NEW h \in handlers, Handled(h) PROVE Told'
  <2>1. UNCHANGED op
    BY <1>12 DEF Handled
  <2>2. \A g \in handlers' : \E f \in handlers : f.to = g.to /\ f.id = g.id
    BY <1>12, HandlersMove
  <2>3. \A q \in Receivers : task'[q] = task[q] \/ (q = h.to /\ task'[q].id = h.id)
    BY <1>a, <1>12 DEF Handled
  <2>4. \/ UNCHANGED <<waiting, view>>
        \/ /\ waiting' = waiting \ {h.to}
           /\ \A q \in Receivers :
                 IF q = h.to THEN view'[q].id = op.id /\ view'[q].status \in {"running", "failed"}
                             ELSE view'[q] = view[q]
    <3>1. CASE UNCHANGED <<waiting, view>>
      BY <3>1
    <3>2. CASE /\ waiting' = waiting \ {h.to}
               /\ \E p \in Peer : /\ p.id = op.id /\ p.status \in {"running", "failed"}
                                  /\ view' = [view EXCEPT ![h.to] = p]
      BY <1>a, <3>2
    <3>. QED BY <1>12, <3>1, <3>2 DEF Handled, Replied
  <2>5. ASSUME NEW q \in Receivers, Entry(q), view'[q] = view[q] PROVE Entry(q)'
    <3>1. Starting(h.to, h.id)
      BY DEF Starting
    <3>2. ~Starting(q, op.id) => /\ ~Starting(q, op.id)'
                                 /\ task'[q].id = op.id => task'[q] = task[q]
      BY <2>1, <2>2, <2>3, <3>1 DEF Starting
    <3>. QED BY <2>1, <2>5, <3>2 DEF Entry
  <2>6. op.phase # "idle" => \A q \in Receivers : Entry(q)'
    <3>1. ASSUME NEW q \in Receivers, op.phase # "idle" PROVE Entry(q)'
      <4>1. CASE view'[q] = view[q]
        BY <1>b, <2>5, <3>1, <4>1 DEF Told
      <4>2. CASE view'[q].status \in {"running", "failed"}
        BY <4>2 DEF Entry
      <4>. QED BY <2>4, <4>1, <4>2
    <3>. QED BY <3>1
  <2>7. \A q \in op.chosen : Ready(q) => Ready(q)'
    BY <1>a, <2>1, <2>4
  <2>. QED BY <1>c, <2>1, <2>6, <2>7
<1>13. ASSUME NEW r \in Receivers, Membered(r) PROVE UNCHANGED <<task, handlers, opVars>>
  BY <1>13 DEF Membered
<1>14. StartDistribution \/ Sampled \/ UNCHANGED vars
         => UNCHANGED <<task, handlers, opVars>>
  BY DEF StartDistribution, Sampled, vars
<1>. HIDE DEF opVars
<1>. QED
  BY <1>1, <1>2, <1>3, <1>4, <1>5, <1>6, <1>7, <1>8, <1>9, <1>10, <1>11, <1>12, <1>13, <1>14,
     Steps

\* A cancelling operation has told every machine but those it still waits for.
LEMMA NextQuieted ==
    ASSUME IInv, [Next]_vars
    PROVE  Quieted'
<1>. USE DEF agentVars, opVars, distVars
<1>a. /\ TypeOK /\ op \in Op /\ op.id \in TaskID /\ view \in [Receivers -> Peer]
      /\ task \in [Receivers -> Task] /\ stopped \in [Receivers -> BOOLEAN]
  BY DEF IInv, TypeOK, Op
<1>b. Quieted /\ Known /\ Frame
  BY DEF IInv
<1>c. ASSUME op'.phase = op.phase, op'.id = op.id, ~op'.missed => ~op.missed,
             waiting \subseteq waiting',
             op.id # 0 => \A r \in Receivers : Quiet(r) => Quiet(r)'
      PROVE  Quieted'
  BY <1>b, <1>c DEF Quieted, Frame
<1>1. CASE op'.phase \in {"start", "monitor"}
  BY <1>1 DEF Quieted
<1>2. ASSUME NEW S \in SUBSET Receivers, Begun(S) PROVE Quieted'
  BY <1>2 DEF Begun, Quieted
<1>3. ASSUME NEW r \in Receivers, Joins(r) PROVE Quieted'
  <2>1. /\ UNCHANGED <<task, stopped, opVars>> /\ (op.id # 0 => dist.id # op.id)
        /\ \A g \in handlers' : g \in handlers \/ g.id = dist.id
    BY <1>b, <1>3 DEF Joins, Frame
  <2>2. op.id # 0 => \A q \in Receivers : Quiet(q) => Quiet(q)'
    BY <2>1 DEF Quiet, Starting
  <2>. QED BY <1>c, <2>1, <2>2
<1>4. ASSUME NEW r \in Receivers, SkipStart(r) \/ StartFails(r) \/ PollStep(r)
      PROVE  op'.phase \in {"start", "monitor"}
  BY <1>4 DEF SkipStart, StartFails, PollStep
<1>5. ASSUME NEW r \in Receivers, CancelTask(r) PROVE Quieted'
  <2>1. /\ op.phase = "cancel" /\ waiting' = waiting \ {r} /\ UNCHANGED <<task, handlers, op>>
        /\ op.id # 0
    BY <1>b, <1>5 DEF CancelTask, Frame
  <2>2. \A q \in Receivers : q # r => stopped'[q] = stopped[q]
    BY <1>a, <1>5 DEF CancelTask
  <2>3. ~LateStart => Quiet(r)'
    <3>1. CASE view[r].id = op.id
      <4>1. ~LateStart => ~Starting(r, op.id)
        BY <1>5, <3>1 DEF CancelTask
      <4>2. task[r].id = op.id /\ task[r].status = "running" =>
               task[r] = [id |-> view[r].id, status |-> "running"]
        BY <1>a, <3>1 DEF Task
      <4>3. task[r].id = op.id /\ task[r].status = "running" => stopped'[r]
        BY <1>a, <1>5, <4>2 DEF CancelTask
      <4>. QED BY <2>1, <4>1, <4>3 DEF Quiet, Starting
    <3>2. CASE view[r].id # op.id
      BY <1>b, <2>1, <3>2 DEF Known, Quiet, Starting
    <3>. QED BY <3>1, <3>2
  <2>4. \A q \in Receivers : q # r /\ Quiet(q) => Quiet(q)'
    BY <2>1, <2>2 DEF Quiet, Starting
  <2>. QED BY <1>b, <2>1, <2>3, <2>4 DEF Quieted
<1>6. ASSUME NEW r \in Receivers, CancelFails(r) PROVE Quieted'
  <2>1. op'.phase = "cancel" /\ op'.missed
    BY <1>a, <1>6 DEF CancelFails, Op
  <2>. QED BY <2>1 DEF Quieted
<1>7. CASE Cancel
  <2>1. /\ UNCHANGED <<task, stopped, handlers, waiting>> /\ op'.phase = op.phase /\ op'.id = op.id
        /\ op'.missed = op.missed
    BY <1>a, <1>7 DEF Cancel, Op
  <2>2. \A q \in Receivers : Quiet(q) => Quiet(q)'
    BY <2>1 DEF Quiet, Starting
  <2>. QED BY <1>c, <2>1, <2>2
<1>8. CASE RoundStep
  <2>1. UNCHANGED <<task, stopped, handlers>> /\ waiting = {} /\ op.phase # "idle"
    BY <1>8 DEF RoundStep
  <2>2. CASE op'.phase = "cancel"
    <3>1. op'.id = op.id /\ op.id # 0 /\ waiting' = {r \in Receivers : view[r].id # 0}
      BY <1>8, <1>b, <2>1, <2>2 DEF RoundStep, Frame
    <3>2. \A r \in Receivers : view[r].id = 0 => Quiet(r)
      BY <1>b, <2>1, <3>1 DEF Known, Quiet
    <3>. QED BY <2>1, <2>2, <3>1, <3>2 DEF Quieted, Quiet, Starting
  <2>3. CASE op'.phase = "idle"
    <3>1. op'.id # 0 => op'.id = op.id /\ op.phase = "cancel" /\ ~op.missed
      BY <1>8, <2>3 DEF RoundStep
    <3>. QED BY <1>b, <2>1, <2>3, <3>1 DEF Quieted, Quiet, Starting
  <2>. QED BY <1>1, <1>8, <2>2, <2>3 DEF RoundStep
<1>9. ASSUME NEW S \in SUBSET Receivers, Probe(S) PROVE Quieted'
  <2>1. op'.phase = "idle" /\ op'.id = 0
    BY <1>a, <1>b, <1>9 DEF Probe, Op, Frame
  <2>. QED BY <2>1 DEF Quieted
<1>10. ASSUME NEW r \in Receivers, TaskEnds(r) PROVE Quieted'
  <2>1. PICK status \in {"seeding", "failed", "cancelled"} :
           task' = [task EXCEPT ![r].status = status]
    BY <1>10 DEF TaskEnds
  <2>2. \A q \in Receivers : \/ task'[q] = task[q] /\ stopped'[q] = stopped[q]
                             \/ task'[q].status # "running"
    BY <1>a, <1>10, <2>1 DEF TaskEnds, Task
  <2>3. UNCHANGED <<handlers, opVars>>
    BY <1>10 DEF TaskEnds
  <2>4. \A q \in Receivers : Quiet(q) => Quiet(q)'
    BY <2>2, <2>3 DEF Quiet, Starting
  <2>. QED BY <1>c, <2>3, <2>4
<1>11. ASSUME NEW h \in handlers, Handled(h) PROVE Quieted'
  <2>1. UNCHANGED op
    BY <1>11 DEF Handled
  <2>2. \A g \in handlers' : \E f \in handlers : f.to = g.to /\ f.id = g.id
    BY <1>11, HandlersMove
  <2>3. \A q \in Receivers : \/ task'[q] = task[q] /\ stopped'[q] = stopped[q]
                             \/ q = h.to /\ task'[q].id = h.id
    BY <1>a, <1>11 DEF Handled
  <2>4. \A q \in Receivers : Quiet(q) => Quiet(q)'
    BY <2>1, <2>2, <2>3 DEF Quiet, Starting
  <2>5. op.phase = "start" \/ UNCHANGED waiting
    BY <1>11 DEF Handled, Replied
  <2>. QED BY <1>1, <1>c, <2>1, <2>4, <2>5
<1>12. CASE UNCHANGED <<task, stopped, handlers, opVars>>
  BY <1>b, <1>12 DEF Quieted, Quiet, Starting
<1>13. ASSUME NEW r \in Receivers, Membered(r) PROVE UNCHANGED <<task, stopped, handlers, opVars>>
  BY <1>13 DEF Membered
<1>14. StartDistribution \/ Sampled \/ UNCHANGED vars
         => UNCHANGED <<task, stopped, handlers, opVars>>
  BY DEF StartDistribution, Sampled, vars
<1>. HIDE DEF opVars
<1>. QED
  BY <1>1, <1>2, <1>3, <1>4, <1>5, <1>6, <1>7, <1>8, <1>9, <1>10, <1>11, <1>12, <1>13, <1>14,
     Steps

-----------------------------------------------------------------------------
\* The inductive invariant holds in every behaviour of the control plane.
THEOREM DispatchInvariant == Spec => []IInv
<1>1. Init => IInv
  <2>. SUFFICES ASSUME Init PROVE IInv
    OBVIOUS
  <2>. USE DispatchConstants DEF Init
  <2>1. 0 \in TaskID /\ [id |-> 0, status |-> "idle"] \in Task
    BY DEF TaskID, Task, TaskStatus
  <2>2. op \in Op /\ op.id = 0 /\ op.phase = "idle" /\ op.status = "none" /\ dist.id = 0
    BY <2>1 DEF Op
  <2>3. /\ view = Nobodies /\ shown = Nobodies /\ members = Nobodies
        /\ Nobodies \in [Receivers -> Peer] /\ \A r \in Receivers : Nobodies[r].id = 0
    BY Peers DEF Nobodies
  <2>4. /\ task \in [Receivers -> Task]
        /\ \A r \in Receivers : task[r].id = 0 /\ task[r].status = "idle"
    <3>. DEFINE t == [id |-> 0, status |-> "idle"]
    <3>1. t \in Task /\ t.id = 0 /\ t.status = "idle" /\ task = [r \in Receivers |-> t]
      BY <2>1
    <3>. HIDE DEF t
    <3>. QED BY <3>1
  <2>5. TypeOK
    BY <2>1, <2>2, <2>3, <2>4 DEF TypeOK, Dist
  <2>6. Fresh
    BY <2>2, <2>3, <2>4 DEF Fresh
  <2>7. Frame /\ Single /\ Admitted /\ Known /\ Told /\ Quieted
    BY <2>2 DEF Frame, Idle, Single, Admitted, Known, Told, Quieted
  <2>. QED BY <2>5, <2>6, <2>7 DEF IInv
<1>2. IInv /\ [Next]_vars => IInv'
  BY NextTypeOK, NextFresh, NextFrame, NextSingle, NextAdmitted, NextKnown, NextTold,
     NextQuieted DEF IInv
<1>. QED BY <1>1, <1>2, PTL DEF Spec

\* Types, and at most one start call of a task at a receiver: whoever waits
\* for an answer gets the answer of its own call.
THEOREM TypeCorrect == Spec => []TypeOK
<1>1. IInv => TypeOK
  BY DEF IInv
<1>. QED BY <1>1, DispatchInvariant, PTL

\* When no cancel overtakes the start of its own task, a cancelled dispatch
\* whose cancel calls were all answered leaves no machine at work for it.
THEOREM CancelSafe ==
    ASSUME ~LateStart
    PROVE  Spec => []CancelStops
<1>1. IInv => CancelStops
  <2>. SUFFICES ASSUME IInv, op.id # 0, op.status = "cancelled",
                       NEW r \in Receivers, task[r].id = op.id, task[r].status = "running"
                PROVE  stopped[r]
    BY DEF CancelStops
  <2>1. op.phase = "idle"
    BY DEF IInv, Frame, Idle
  <2>. QED BY <2>1 DEF IInv, Quieted, Quiet
<1>. QED BY <1>1, DispatchInvariant, PTL

\* launch's second look keeps a running task at its agent, however many start
\* calls are between their two looks.
THEOREM NeverReplaced == Spec => RunningNeverReplaced
<1>1. ASSUME IInv, [Next]_vars, NEW r \in Receivers, task[r].status = "running"
      PROVE  task'[r].id = task[r].id
  <2>. USE DEF agentVars, opVars, distVars
  <2>a. task \in [Receivers -> Task]
    BY <1>1 DEF IInv, TypeOK
  <2>1. CASE UNCHANGED task
    BY <2>1
  <2>2. ASSUME NEW h \in handlers, Handled(h) PROVE task'[r].id = task[r].id
    BY <1>1, <2>a, <2>2 DEF Handled
  <2>3. ASSUME NEW q \in Receivers, TaskEnds(q) PROVE task'[r].id = task[r].id
    BY <2>a, <2>3 DEF TaskEnds, Task
  <2>4. ASSUME NEW q \in Receivers,
               \/ SkipStart(q) \/ StartFails(q) \/ PollStep(q) \/ CancelTask(q) \/ CancelFails(q)
               \/ Membered(q) \/ Joins(q)
        PROVE  UNCHANGED task
    BY <2>4 DEF SkipStart, StartFails, PollStep, CancelTask, CancelFails, Membered, Joins
  <2>5. ASSUME NEW S \in SUBSET Receivers, Probe(S) \/ Begun(S) PROVE UNCHANGED task
    BY <2>5 DEF Probe, Begun
  <2>6. StartDistribution \/ Sampled \/ Cancel \/ RoundStep \/ UNCHANGED vars
          => UNCHANGED task
    BY DEF StartDistribution, Sampled, Cancel, RoundStep, vars
  <2>. QED BY <1>1, <2>1, <2>2, <2>3, <2>4, <2>5, <2>6, Steps
<1>2. IInv /\ [Next]_vars =>
         [\A r \in Receivers : task[r].status = "running" => task'[r].id = task[r].id]_vars
  BY <1>1
<1>. QED BY <1>2, DispatchInvariant, PTL DEF Spec, RunningNeverReplaced

\* An operation that ends as "completed" saw this very task finish on every
\* machine it calls ready, and no such machine has it in another state since.
THEOREM CompletionTruthful == Spec => CompletedMeansSeeding
<1>1. ASSUME IInv, [Next]_vars, op.phase = "monitor", op'.status = "completed",
             NEW r \in op.chosen, view[r].ready
      PROVE  /\ view[r].id = op.id /\ view[r].status = "seeding"
             /\ task[r].id = op.id => task[r].status = "seeding"
  <2>. USE DEF agentVars, opVars, distVars
  <2>a. /\ op \in Op /\ view \in [Receivers -> Peer] /\ r \in Receivers
        /\ op.status = "running" /\ Told
    BY <1>1 DEF IInv, TypeOK, Op, Frame, Idle
  <2>b. view[r].status \in TaskStatus
    BY <2>a DEF Peer
  <2>1. RoundEnds
    <3>1. ASSUME NEW S \in SUBSET Receivers \ {{}}, Probe(S) \/ BeginDispatch(S) PROVE FALSE
      BY <2>a, <3>1 DEF Probe, BeginDispatch, Idle
    <3>2. ASSUME StartsDone \/ CancelsDone PROVE FALSE
      BY <1>1, <3>2 DEF StartsDone, CancelsDone
    <3>3. ASSUME NEW q \in Receivers,
                 \/ SkipStart(q) \/ StartFails(q) \/ CancelTask(q) \/ CancelFails(q)
          PROVE  FALSE
      BY <1>1, <3>3 DEF SkipStart, StartFails, CancelTask, CancelFails
    <3>4. ASSUME UNCHANGED op PROVE FALSE
      BY <1>1, <2>a, <3>4
    <3>5. ASSUME NEW q \in Receivers, PollAnswer(q) \/ PollFails(q) \/ SkipPoll(q) \/ TaskEnds(q)
          PROVE  UNCHANGED op
      BY <3>5 DEF PollAnswer, PollFails, SkipPoll, TaskEnds
    <3>6. ASSUME NEW q \in Early, Exclude(q) \/ Join(q) \/ JoinFails(q) \/ MemberPoll(q)
          PROVE  UNCHANGED op
      BY <3>6 DEF Exclude, Join, JoinFails, MemberPoll
    <3>7. ASSUME NEW h \in handlers, HandlerStep(h) PROVE UNCHANGED op
      BY <1>1, <3>7, Handling DEF Handled
    <3>8. ASSUME Cancel PROVE FALSE
      BY <1>1, <2>a, <3>8 DEF Cancel, Op
    <3>9. StartDistribution \/ PauseDistribution \/ NewRound \/ UNCHANGED vars => UNCHANGED op
      BY DEF StartDistribution, PauseDistribution, NewRound, opVars, vars
    <3>. QED
      BY <1>1, <3>1, <3>2, <3>3, <3>4, <3>5, <3>6, <3>7, <3>8, <3>9 DEF Next, OpStep, LoopStep
  <2>2. ~op.cancelled /\ Running(view) = {} /\ End(Outcome)
    <3>1. ~Cancelling
      BY <1>1, <2>a DEF Cancelling, Op
    <3>. QED BY <1>1, <2>1, <2>a, <3>1 DEF RoundEnds
  <2>3. Outcome = "completed"
    BY <1>1, <2>2 DEF End
  <2>4. view[r].id = op.id
    BY <1>1, <2>a, <2>2 DEF Told
  <2>5. view[r].status \notin {"failed", "cancelled", "running"}
    BY <2>a, <2>2, <2>3 DEF Outcome, Running
  <2>6. Entry(r)
    BY <1>1, <2>a DEF Told
  <2>7. view[r].status = "seeding"
    BY <2>b, <2>4, <2>5, <2>6 DEF Entry, TaskStatus
  <2>. QED BY <2>4, <2>6, <2>7 DEF Entry
<1>2. IInv /\ [Next]_vars =>
         [op.phase = "monitor" /\ op'.status = "completed" =>
             \A r \in op.chosen : view[r].ready =>
                 /\ view[r].id = op.id /\ view[r].status = "seeding"
                 /\ task[r].id = op.id => task[r].status = "seeding"]_vars
  BY <1>1
<1>. QED BY <1>2, DispatchInvariant, PTL DEF Spec, CompletedMeansSeeding

=============================================================================
