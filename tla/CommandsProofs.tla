--------------------------- MODULE CommandsProofs ---------------------------
(***************************************************************************)
(* Proofs about remote commands for any number of machines, commands and   *)
(* dispatches.  What makes the invariants inductive is that an ID is new:  *)
(* a machine that runs the operation's command, or has a call of it ahead, *)
(* is one that the operation asked, and the operation's map has an entry   *)
(* with that ID for it, lost answers included.                             *)
(***************************************************************************)
EXTENDS Commands, FiniteSetTheorems, TLAPS

Call(r) == [to |-> r, id |-> op.id]

\* key() never repeats an ID, and a command has one as soon as it has a status.
Fresh ==
    /\ \A k \in calls : k.id < nextID
    /\ \A r \in Receivers : cmd[r].id < nextID
    /\ \A r \in Receivers : cmd[r].status = "idle" => cmd[r].id = 0
    /\ op.id < nextID
    /\ op.phase # "idle" => op.id # 0

\* The frame of the operation's function: its locals belong to its phase.
Frame ==
    /\ op.phase = "idle" <=> op.status # "running"
    /\ op.phase # "ask" => todo = {} /\ asking = Nobody
    /\ op.phase \in {"idle", "ask"} => waiting = {}
    /\ asking # Nobody => asking \in op.chosen \ todo
    /\ \A r \in Receivers : r \notin op.chosen => view[r] = NoCommand

\* Whoever can run the command was asked, and is in the map under its ID.
Known ==
    op.phase # "idle" =>
      /\ \A r \in Receivers : cmd[r].id = op.id \/ Call(r) \in calls => r \in op.chosen \ todo
      /\ \A r \in op.chosen \ todo :
            r # asking => view[r].id = op.id /\ view[r].status # "idle"

\* "completed" comes from a machine that completed this very command.
Truthful ==
    /\ \A r \in Receivers :
          cmd[r].id = op.id /\ cmd[r].status = "completed" => r \in finished
    /\ op.phase # "idle" =>
          \A r \in Receivers : view[r].status = "completed" => r \in finished

\* The command neither runs at r, unless killed, nor is on its way there.
Quiet(r) ==
    /\ Call(r) \notin calls
    /\ cmd[r].id = op.id /\ cmd[r].status = "running" => killed[r]

Quieted ==
    /\ op.phase = "cancel" /\ ~op.missed => \A r \in op.chosen \ waiting : Quiet(r)
    /\ op.phase = "idle" /\ op.status = "cancelled" /\ ~op.missed =>
          \A r \in Receivers : Quiet(r)

IInv == ProbesKept /\ Fresh /\ Frame /\ Known /\ Truthful /\ Quieted

-----------------------------------------------------------------------------
Ops == [phase : {"idle", "ask", "monitor", "cancel"},
        status : {"none", "running", "completed", "failed", "cancelled"},
        cancelled : BOOLEAN, id : ID, chosen : SUBSET Receivers, missed : BOOLEAN]

Keep == op'.id = op.id /\ op'.chosen = op.chosen /\ op'.status = op.status

\* What an answer does to the operation: nothing, or its call is over.
LEMMA Answers ==
    ASSUME TypeOK, NEW k \in calls, NEW c \in Command, Answer(k, c)
    PROVE  /\ view' \in [Receivers -> Command] /\ asking' \in Receivers \cup {Nobody}
           /\ \/ UNCHANGED <<asking, view>>
              \/ /\ op.phase = "ask" /\ asking = k.to /\ op.id = k.id /\ asking' = Nobody
                 /\ view' = [view EXCEPT ![k.to] = c]
BY DEF TypeOK, Answer

\* Fields of the operation after its own steps.
LEMMA CancellingFields ==
    ASSUME op \in Ops, Cancelling
    PROVE  op' \in Ops /\ Keep /\ op'.phase = "cancel" /\ op'.missed = op.missed
BY DEF Ops, Cancelling, Keep

\* A round that ends goes on, or decides the outcome.
LEMMA RoundFields ==
    ASSUME op \in Ops, RoundEnds, ~op.cancelled
    PROVE  /\ op' \in Ops /\ op'.id = op.id /\ op'.chosen = op.chosen
           /\ \/ Running(view) # {} /\ op' = op
              \/ /\ Running(view) = {}
                 /\ op'.phase = "idle" /\ op'.status = Outcome
<1>1. Outcome \in {"failed", "completed"}
  BY DEF Outcome
<1>. QED BY <1>1 DEF Ops, RoundEnds

\* The agents, the calls and the other operation leave the frame alone.
LEMMA AgentStep ==
    ASSUME TypeOK, NEW k \in calls, LaunchCommand(k) \/ CommandRejected(k)
    PROVE  /\ k \in [to : Receivers, id : ID] /\ calls' = calls \ {k}
           /\ UNCHANGED <<finished, nextID, op, todo, waiting, shown, dispatch>>
           /\ \/ UNCHANGED <<cmd, killed>>
              \/ /\ cmd' = [cmd EXCEPT ![k.to] = [id |-> k.id, status |-> "running"]]
                 /\ killed' = [killed EXCEPT ![k.to] = FALSE]
           /\ view' \in [Receivers -> Command] /\ asking' \in Receivers \cup {Nobody}
           /\ \/ UNCHANGED <<asking, view>>
              \/ /\ op.phase = "ask" /\ asking = k.to /\ op.id = k.id /\ asking' = Nobody
                 /\ \E c \in Command : /\ view' = [view EXCEPT ![k.to] = c]
                                       /\ c.id = op.id /\ c.status \in {"running", "failed"}
<1>1. k \in [to : Receivers, id : ID] /\ op.id \in ID
  BY DEF TypeOK
<1>2. Refused \in Command /\ Refused.id = op.id /\ Refused.status = "failed"
  BY <1>1 DEF Refused, Command, Status
<1>3. CASE Answer(k, Refused) /\ UNCHANGED <<cmd, killed>>
  <2>1. /\ view' \in [Receivers -> Command] /\ asking' \in Receivers \cup {Nobody}
        /\ \/ UNCHANGED <<asking, view>>
           \/ /\ op.phase = "ask" /\ asking = k.to /\ op.id = k.id /\ asking' = Nobody
              /\ view' = [view EXCEPT ![k.to] = Refused]
    BY <1>2, <1>3, Answers
  <2>. QED BY <1>1, <1>2, <1>3, <2>1 DEF LaunchCommand, CommandRejected
<1>4. CASE /\ cmd' = [cmd EXCEPT ![k.to] = [id |-> k.id, status |-> "running"]]
           /\ killed' = [killed EXCEPT ![k.to] = FALSE]
           /\ Answer(k, cmd'[k.to])
  <2>. DEFINE c == [id |-> k.id, status |-> "running"]
  <2>1. cmd'[k.to] = c /\ c \in Command /\ c.id = k.id /\ c.status = "running"
    BY <1>1, <1>4 DEF TypeOK, Command, Status
  <2>. HIDE DEF c
  <2>2. /\ view' \in [Receivers -> Command] /\ asking' \in Receivers \cup {Nobody}
        /\ \/ UNCHANGED <<asking, view>>
           \/ /\ op.phase = "ask" /\ asking = k.to /\ op.id = k.id /\ asking' = Nobody
              /\ view' = [view EXCEPT ![k.to] = c]
    BY <1>4, <2>1, Answers
  <2>. QED BY <1>1, <1>4, <2>1, <2>2 DEF LaunchCommand, CommandRejected
<1>. QED BY <1>3, <1>4 DEF LaunchCommand, CommandRejected

\* Types; in particular only chosen machines are polled and cancelled.
LEMMA NextTypeOK ==
    ASSUME IInv, [Next]_vars
    PROVE  TypeOK'
<1>. USE CommandsConstants DEF agentVars, opVars
<1>a. /\ TypeOK /\ Frame /\ op \in Ops /\ op.id \in ID /\ op.chosen \subseteq Receivers
      /\ cmd \in [Receivers -> Command] /\ view \in [Receivers -> Command]
      /\ calls \subseteq [to : Receivers, id : ID]
      /\ shown \in [Receivers -> Peer]
      /\ dispatch \in [busy : BOOLEAN, no : 0 .. MaxTasks, copy : [Receivers -> Peer]]
  BY DEF IInv, ProbesKept, TypeOK, Ops
<1>b. Refused \in Command /\ NoCommand \in Command
  BY <1>a DEF Refused, NoCommand, Command, Status, ID
<1>c. Running(view) \subseteq op.chosen
  BY <1>a DEF Running, Frame, NoCommand
<1>d. Stored \in [Receivers -> Peer]
  BY <1>a DEF Stored, Peer
<1>1. ASSUME NEW S \in SUBSET Receivers \ {{}}, BeginCommand(S) PROVE TypeOK'
  <2>1. nextID \in ID /\ nextID + 1 \in 1 .. MaxCommands + 1
    BY <1>a, <1>1 DEF BeginCommand, TypeOK, ID
  <2>2. op' \in Ops /\ op'.chosen = S
    BY <1>1, <2>1 DEF BeginCommand, Ops
  <2>. QED BY <1>a, <1>b, <1>1, <2>1, <2>2 DEF BeginCommand, TypeOK, Ops
<1>2. CASE Cancel
  <2>1. op' \in Ops /\ op'.chosen = op.chosen
    BY <1>a, <1>2 DEF Cancel, Ops
  <2>. QED BY <1>a, <1>2, <2>1 DEF Cancel, TypeOK, Ops
<1>3. ASSUME NEW r \in Receivers, Ask(r) PROVE TypeOK'
  <2>1. calls' \subseteq [to : Receivers, id : ID]
    BY <1>a, <1>3 DEF Ask
  <2>. QED BY <1>a, <1>3, <2>1 DEF Ask, TypeOK
<1>4. ASSUME NEW r \in Receivers, AskSkipped(r) PROVE TypeOK'
  BY <1>a, <1>b, <1>4 DEF AskSkipped, TypeOK
<1>5. CASE AskLost
  BY <1>a, <1>b, <1>5 DEF AskLost, TypeOK
<1>6. CASE Asked \/ RoundEnds
  <2>1. op' \in Ops /\ op'.chosen = op.chosen /\ waiting' \subseteq op.chosen
    <3>1. CASE Cancelling
      BY <1>a, <3>1, CancellingFields DEF Cancelling, Keep
    <3>2. CASE Asked /\ ~op.cancelled
      BY <1>a, <1>c, <3>2 DEF Asked, Ops
    <3>3. CASE RoundEnds /\ ~op.cancelled
      BY <1>a, <1>c, <3>3, RoundFields DEF RoundEnds
    <3>. QED BY <1>6, <3>1, <3>2, <3>3 DEF Asked, RoundEnds
  <2>. QED BY <1>a, <1>d, <1>6, <2>1 DEF Asked, RoundEnds, TypeOK, Ops
<1>7. ASSUME NEW k \in calls, LaunchCommand(k) \/ CommandRejected(k) PROVE TypeOK'
  <2>a. k \in [to : Receivers, id : ID] /\ [id |-> k.id, status |-> "running"] \in Command
    BY <1>a, <1>7 DEF Command, Status
  <2>b. \/ UNCHANGED <<cmd, killed>>
        \/ /\ cmd' = [cmd EXCEPT ![k.to] = [id |-> k.id, status |-> "running"]]
           /\ killed' = [killed EXCEPT ![k.to] = FALSE]
    BY <1>a, <1>7, AgentStep
  <2>1. cmd' \in [Receivers -> Command] /\ killed' \in [Receivers -> BOOLEAN]
    <3>1. CASE UNCHANGED <<cmd, killed>>
      BY <1>a, <3>1 DEF TypeOK
    <3>2. CASE /\ cmd' = [cmd EXCEPT ![k.to] = [id |-> k.id, status |-> "running"]]
               /\ killed' = [killed EXCEPT ![k.to] = FALSE]
      <4>. DEFINE c == [id |-> k.id, status |-> "running"]
      <4>1. c \in Command /\ cmd' = [cmd EXCEPT ![k.to] = c]
        BY <2>a, <3>2
      <4>. HIDE DEF c
      <4>. QED BY <1>a, <3>2, <4>1 DEF TypeOK
    <3>. QED BY <2>b, <3>1, <3>2
  <2>. QED BY <1>a, <1>7, <2>1, AgentStep DEF TypeOK
<1>8. ASSUME NEW r \in Receivers, CommandEnds(r) PROVE TypeOK'
  <2>1. PICK status \in {"completed", "failed", "cancelled"} :
           /\ cmd' = [cmd EXCEPT ![r].status = status]
           /\ finished' = IF status = "completed" /\ cmd[r].id = op.id
                          THEN finished \cup {r} ELSE finished
    BY <1>8 DEF CommandEnds
  <2>2. cmd' \in [Receivers -> Command]
    BY <1>a, <2>1 DEF Command, Status
  <2>3. finished' \subseteq Receivers
    BY <1>a, <2>1 DEF TypeOK
  <2>. QED BY <1>a, <1>8, <2>2, <2>3 DEF CommandEnds, TypeOK
<1>9. ASSUME NEW r \in Receivers, NEW s \in Status, Polled(r, s) PROVE TypeOK'
  <2>1. view' \in [Receivers -> Command]
    BY <1>a, <1>9 DEF Polled, Command
  <2>. QED BY <1>a, <1>9, <2>1 DEF Polled, TypeOK
<1>10. ASSUME NEW r \in Receivers, PollAnswer(r) \/ PollFails(r) \/ SkipPoll(r)
       PROVE TypeOK'
  <2>1. cmd[r].status \in Status /\ view[r].status \in Status /\ "failed" \in Status
    BY <1>a DEF Command, Status
  <2>. QED BY <1>9, <1>10, <2>1 DEF PollAnswer, PollFails, SkipPoll
<1>11. ASSUME NEW r \in Receivers, CancelCommand(r) PROVE TypeOK'
  <2>1. op' \in Ops /\ op'.chosen = op.chosen
    BY <1>a, <1>11 DEF CancelCommand, Ops
  <2>2. killed' \in [Receivers -> BOOLEAN]
    BY <1>a, <1>11 DEF CancelCommand, TypeOK
  <2>. QED BY <1>a, <1>11, <2>1, <2>2 DEF CancelCommand, TypeOK, Ops
<1>12. ASSUME NEW r \in Receivers, CancelFails(r) PROVE TypeOK'
  <2>1. op' \in Ops /\ op'.chosen = op.chosen
    BY <1>a, <1>12 DEF CancelFails, Ops
  <2>. QED BY <1>a, <1>12, <2>1 DEF CancelFails, TypeOK, Ops
<1>13. CASE CancelsDone
  <2>1. op' \in Ops /\ op'.chosen = {} /\ todo = {} /\ waiting = {}
    BY <1>a, <1>13 DEF CancelsDone, Ops, Frame
  <2>. QED BY <1>a, <1>b, <1>13, <2>1 DEF CancelsDone, TypeOK, Ops
<1>14. CASE CopyProbes
  <2>1. dispatch' \in [busy : BOOLEAN, no : 0 .. MaxTasks, copy : [Receivers -> Peer]]
    BY <1>a, <1>14 DEF CopyProbes
  <2>. QED BY <1>a, <1>14, <2>1 DEF CopyProbes, TypeOK
<1>15. ASSUME NEW S \in SUBSET Receivers, MergeProbes(S) PROVE TypeOK'
  <2>. DEFINE new == [r \in Receivers |->
                        IF r \in S THEN [dispatch.copy[r] EXCEPT !.task = dispatch.no]
                                   ELSE dispatch.copy[r]]
  <2>1. new \in [Receivers -> Peer]
    BY <1>a DEF Peer
  <2>2. /\ dispatch' = [dispatch EXCEPT !.busy = FALSE, !.copy = Tasks(new)]
        /\ shown' = [r \in Receivers |-> [new[r] EXCEPT !.command = shown[r].command]]
    BY <1>15 DEF MergeProbes
  <2>. HIDE DEF new
  <2>3. Tasks(new) \in [Receivers -> Peer]
    BY <1>b, <2>1 DEF Tasks, Peer
  <2>4. shown' \in [Receivers -> Peer]
    BY <1>a, <2>1, <2>2 DEF Peer
  <2>5. dispatch' \in [busy : BOOLEAN, no : 0 .. MaxTasks, copy : [Receivers -> Peer]]
    BY <1>a, <2>2, <2>3
  <2>. QED BY <1>a, <1>15, <2>4, <2>5 DEF MergeProbes, TypeOK
<1>16. CASE UNCHANGED vars
  BY <1>a, <1>16 DEF vars, TypeOK
<1>. QED
  BY <1>1, <1>2, <1>3, <1>4, <1>5, <1>6, <1>7, <1>8, <1>10, <1>11, <1>12, <1>13, <1>14, <1>15,
     <1>16 DEF Next, OpStep

-----------------------------------------------------------------------------
\* What a step of the operation's goroutines in a round puts into the map: a
\* status that is about this command, and "completed" only for the truth.
LEMMA PollStep ==
    ASSUME IInv, NEW r \in Receivers, PollAnswer(r) \/ PollFails(r) \/ SkipPoll(r)
    PROVE  /\ op.phase = "monitor" /\ r \in waiting /\ r \in op.chosen \ todo
           /\ view[r].id = op.id /\ asking = Nobody
           /\ \E s \in Status \ {"idle"} : /\ view' = [view EXCEPT ![r].status = s]
                                           /\ s = "completed" => r \in finished
           /\ UNCHANGED <<agentVars, nextID, op, todo, asking, shown, dispatch>>
<1>1. op.phase = "monitor" /\ r \in waiting
  BY DEF PollAnswer, PollFails, SkipPoll, Polled
<1>2. UNCHANGED <<agentVars, nextID, op, todo, asking, shown, dispatch>>
  BY DEF PollAnswer, PollFails, SkipPoll, Polled
<1>3. r \in op.chosen \ todo /\ asking = Nobody /\ r # asking
  BY <1>1, CommandsConstants DEF IInv, ProbesKept, TypeOK, Frame
<1>4. view[r].id = op.id /\ view[r].status # "idle"
  BY <1>1, <1>3 DEF IInv, Known
<1>5. op.id # 0
  BY <1>1 DEF IInv, Fresh
<1>6. cmd[r].status \in Status /\ view[r].status \in Status
  BY DEF IInv, ProbesKept, TypeOK, Command
<1>7. cmd[r].id = op.id => /\ cmd[r].status # "idle"
                           /\ cmd[r].status = "completed" => r \in finished
  BY <1>5 DEF IInv, Fresh, Truthful
<1>8. view[r].status = "completed" => r \in finished
  BY <1>1 DEF IInv, Truthful
<1>9. \E s \in Status \ {"idle"} : /\ view' = [view EXCEPT ![r].status = s]
                                   /\ s = "completed" => r \in finished
  <2>. DEFINE Told(s) == s \in Status \ {"idle"} /\ (s = "completed" => r \in finished)
  <2>a. ASSUME NEW s, Told(s), Polled(r, s)
        PROVE  \E t \in Status \ {"idle"} : /\ view' = [view EXCEPT ![r].status = t]
                                            /\ t = "completed" => r \in finished
    BY <2>a DEF Polled
  <2>1. CASE PollAnswer(r)
    <3>1. Told(IF cmd[r].id = view[r].id THEN cmd[r].status ELSE "failed")
      BY <1>4, <1>6, <1>7 DEF Status
    <3>. QED BY <2>a, <2>1, <3>1 DEF PollAnswer
  <2>2. CASE PollFails(r)
    <3>1. Told("failed")
      BY DEF Status
    <3>. QED BY <2>a, <2>2, <3>1 DEF PollFails
  <2>3. CASE SkipPoll(r)
    <3>1. Told(view[r].status)
      BY <1>4, <1>6, <1>8
    <3>. QED BY <2>a, <2>3, <3>1 DEF SkipPoll
  <2>. QED BY <2>1, <2>2, <2>3
<1>. QED BY <1>1, <1>2, <1>3, <1>4, <1>9

\* What the end of the asking and the end of a round have in common, and the
\* three ways on from there.
LEMMA RoundStep ==
    ASSUME IInv, Asked \/ RoundEnds
    PROVE  /\ op.phase \in {"ask", "monitor"} /\ todo = {} /\ asking = Nobody
           /\ op.status = "running"
           /\ shown' = Stored /\ op'.id = op.id /\ op'.chosen = op.chosen
           /\ UNCHANGED <<agentVars, nextID, todo, asking, view, dispatch>>
           /\ \/ op'.phase = "cancel" /\ op'.status = "running" /\ waiting' = op.chosen
              \/ op'.phase = "monitor" /\ op'.status = "running"
              \/ /\ op'.phase = "idle" /\ op'.status = Outcome /\ waiting' = {}
                 /\ op.phase = "monitor" /\ Running(view) = {}
<1>1. op \in Ops
  BY DEF IInv, ProbesKept, TypeOK, Ops
<1>2. /\ op.phase \in {"ask", "monitor"} /\ shown' = Stored
      /\ UNCHANGED <<agentVars, nextID, todo, asking, view, dispatch>>
  BY DEF Asked, RoundEnds
<1>3. todo = {} /\ asking = Nobody /\ op.status = "running"
  BY <1>2 DEF Asked, RoundEnds, IInv, Frame
<1>4. op.id # 0
  BY <1>2 DEF IInv, Fresh
<1>5. \A r \in op.chosen : r # asking /\ view[r].id = op.id
  BY <1>1, <1>2, <1>3, CommandsConstants DEF IInv, Known, Ops
<1>6. CASE Cancelling
  <2>1. waiting' = op.chosen
    BY <1>4, <1>5, <1>6 DEF Cancelling
  <2>. QED BY <1>1, <1>2, <1>3, <1>6, <2>1, CancellingFields DEF Keep
<1>7. CASE Asked /\ ~op.cancelled
  BY <1>1, <1>2, <1>3, <1>7 DEF Asked, Ops
<1>8. CASE RoundEnds /\ ~op.cancelled
  <2>1. op.phase = "monitor" /\ waiting' = Running(view)
    BY <1>8 DEF RoundEnds
  <2>. QED BY <1>1, <1>2, <1>3, <1>8, <2>1, RoundFields
<1>. QED BY <1>6, <1>7, <1>8 DEF Asked, RoundEnds

\* Neither operation loses what the other has learnt.
LEMMA NextProbes ==
    ASSUME IInv, [Next]_vars
    PROVE  ProbesKept'
<1>. USE DEF agentVars, opVars
<1>a. TypeOK /\ TypeOK' /\ op \in Ops
  BY NextTypeOK DEF IInv, ProbesKept, TypeOK, Ops
<1>. DEFINE Commanded == op.phase = "idle" /\ op.status \in {"completed", "failed"} =>
                            \A r \in op.chosen : shown[r].command = view[r]
            Tasked == ~dispatch.busy =>
                            \A r \in Receivers : shown[r].task = dispatch.copy[r].task
<1>b. Commanded /\ Tasked
  BY DEF IInv, ProbesKept
<1>c. SUFFICES Commanded' /\ Tasked'
  BY <1>a DEF ProbesKept
<1>1. CASE UNCHANGED <<op, view, shown, dispatch>>
  BY <1>b, <1>1
<1>2. CASE UNCHANGED <<shown, dispatch>> /\ op'.phase # "idle"
  BY <1>b, <1>2
<1>3. CASE UNCHANGED <<shown, dispatch>> /\ op'.status \notin {"completed", "failed"}
  BY <1>b, <1>3
<1>4. CASE Asked \/ RoundEnds
  <2>1. /\ shown' = Stored /\ UNCHANGED <<view, dispatch>> /\ op'.chosen = op.chosen
    BY <1>4, RoundStep
  <2>2. \A r \in op.chosen : shown'[r].command = view[r]
    BY <1>a, <2>1 DEF Stored, TypeOK, Peer, Ops
  <2>3. \A r \in Receivers : shown'[r].task = shown[r].task
    BY <1>a, <2>1 DEF Stored, TypeOK, Peer
  <2>. QED BY <1>b, <2>1, <2>2, <2>3
<1>5. ASSUME NEW k \in calls, LaunchCommand(k) \/ CommandRejected(k)
      PROVE  Commanded' /\ Tasked'
  <2>1. UNCHANGED <<op, shown, dispatch>> /\ (op.phase = "ask" \/ UNCHANGED view)
    BY <1>a, <1>5, AgentStep
  <2>. QED BY <1>b, <2>1
<1>6. CASE CopyProbes
  BY <1>b, <1>6 DEF CopyProbes
<1>7. ASSUME NEW S \in SUBSET Receivers, MergeProbes(S) PROVE Commanded' /\ Tasked'
  <2>. DEFINE new == [r \in Receivers |->
                        IF r \in S THEN [dispatch.copy[r] EXCEPT !.task = dispatch.no]
                                   ELSE dispatch.copy[r]]
  <2>1. /\ dispatch' = [dispatch EXCEPT !.busy = FALSE, !.copy = Tasks(new)]
        /\ shown' = [r \in Receivers |-> [new[r] EXCEPT !.command = shown[r].command]]
        /\ UNCHANGED <<op, view>>
    BY <1>7 DEF MergeProbes
  <2>a. dispatch.copy \in [Receivers -> Peer] /\ dispatch.no \in 0 .. MaxTasks
    BY <1>a DEF TypeOK
  <2>2. new \in [Receivers -> Peer]
    BY <2>a DEF Peer
  <2>. HIDE DEF new
  <2>3. \A r \in Receivers : /\ shown'[r].command = shown[r].command
                             /\ shown'[r].task = new[r].task
    BY <2>1, <2>2 DEF Peer
  <2>4. dispatch'.copy = Tasks(new)
    BY <1>a, <2>1 DEF TypeOK
  <2>5. \A r \in Receivers : dispatch'.copy[r].task = new[r].task
    BY <2>2, <2>4 DEF Tasks, Peer
  <2>. QED BY <1>a, <1>b, <2>1, <2>3, <2>5 DEF Ops
<1>8. ASSUME NEW r \in Receivers, PollAnswer(r) \/ PollFails(r) \/ SkipPoll(r)
      PROVE  UNCHANGED <<shown, dispatch>> /\ op'.phase # "idle"
  BY <1>8, PollStep
<1>9. ASSUME NEW S \in SUBSET Receivers \ {{}}, BeginCommand(S)
      PROVE  UNCHANGED <<shown, dispatch>> /\ op'.phase # "idle"
  BY <1>9 DEF BeginCommand
<1>10. CASE Cancel
  <2>1. op'.phase # "idle"
    BY <1>a, <1>10 DEF Cancel, Ops, IInv, Frame
  <2>. QED BY <1>2, <1>10, <2>1 DEF Cancel
<1>11. ASSUME NEW r \in Receivers, Ask(r) \/ AskSkipped(r)
       PROVE  UNCHANGED <<shown, dispatch>> /\ op'.phase # "idle"
  BY <1>11 DEF Ask, AskSkipped
<1>12. ASSUME NEW r \in Receivers, CancelCommand(r) \/ CancelFails(r)
       PROVE  UNCHANGED <<shown, dispatch>> /\ op'.phase # "idle"
  BY <1>a, <1>12 DEF CancelCommand, CancelFails, Ops
<1>13. CASE AskLost
  BY <1>2, <1>13 DEF AskLost
<1>14. CASE CancelsDone
  BY <1>a, <1>3, <1>14 DEF CancelsDone, Ops
<1>15. ASSUME NEW r \in Receivers, CommandEnds(r) PROVE UNCHANGED <<op, view, shown, dispatch>>
  BY <1>15 DEF CommandEnds
<1>16. CASE UNCHANGED vars
  BY <1>1, <1>16 DEF vars
<1>. HIDE DEF Commanded, Tasked
<1>. QED
  BY <1>1, <1>2, <1>4, <1>5, <1>6, <1>7, <1>8, <1>9, <1>10, <1>11, <1>12, <1>13, <1>14, <1>15,
     <1>16 DEF Next, OpStep

\* IDs are made by counting.
LEMMA NextFresh ==
    ASSUME IInv, [Next]_vars
    PROVE  Fresh'
<1>. USE CommandsConstants DEF agentVars, opVars
<1>a. /\ TypeOK /\ TypeOK' /\ op \in Ops /\ nextID \in Nat /\ nextID # 0 /\ op.id \in Nat
      /\ \A k \in calls : k.id \in Nat
      /\ cmd \in [Receivers -> Command] /\ \A r \in Receivers : cmd[r].id \in Nat
  BY NextTypeOK DEF IInv, ProbesKept, TypeOK, Ops, ID, Command
<1>b. Fresh /\ Frame
  BY DEF IInv
<1>1. ASSUME NEW S \in SUBSET Receivers \ {{}}, BeginCommand(S) PROVE Fresh'
  <2>1. nextID' = nextID + 1 /\ op'.id = nextID /\ UNCHANGED <<cmd, calls>>
    BY <1>1 DEF BeginCommand
  <2>. QED BY <1>a, <1>b, <2>1 DEF Fresh
<1>2. CASE Cancel
  <2>1. op'.id = op.id /\ op'.phase = op.phase /\ UNCHANGED <<cmd, calls, nextID>>
    BY <1>a, <1>2 DEF Cancel, Ops
  <2>. QED BY <1>b, <2>1 DEF Fresh
<1>3. ASSUME NEW r \in Receivers, Ask(r) PROVE Fresh'
  <2>1. /\ UNCHANGED <<cmd, op, nextID>> /\ calls' = calls \cup {Call(r)}
        /\ Call(r).id = op.id
    BY <1>3 DEF Ask, Call
  <2>. QED BY <1>b, <2>1 DEF Fresh
<1>4. CASE UNCHANGED <<cmd, op, nextID, calls>>
  BY <1>b, <1>4 DEF Fresh
<1>5. ASSUME NEW r \in Receivers,
             \/ AskSkipped(r) \/ PollAnswer(r) \/ PollFails(r) \/ SkipPoll(r)
      PROVE  UNCHANGED <<cmd, op, nextID, calls>>
  BY <1>5 DEF AskSkipped, PollAnswer, PollFails, SkipPoll, Polled
<1>6. CASE Asked \/ RoundEnds
  <2>1. op'.id = op.id /\ op.phase # "idle" /\ UNCHANGED <<cmd, calls, nextID>>
    BY <1>6, RoundStep
  <2>. QED BY <1>b, <2>1 DEF Fresh
<1>7. ASSUME NEW k \in calls, LaunchCommand(k) \/ CommandRejected(k) PROVE Fresh'
  <2>1. /\ k \in [to : Receivers, id : ID] /\ calls' = calls \ {k} /\ UNCHANGED <<op, nextID>>
        /\ \/ UNCHANGED cmd
           \/ cmd' = [cmd EXCEPT ![k.to] = [id |-> k.id, status |-> "running"]]
    BY <1>a, <1>7, AgentStep
  <2>2. \A r \in Receivers : \/ cmd'[r] = cmd[r]
                             \/ cmd'[r].id = k.id /\ cmd'[r].status = "running"
    BY <1>a, <2>1
  <2>. QED BY <1>b, <2>1, <2>2 DEF Fresh
<1>8. ASSUME NEW r \in Receivers, CommandEnds(r) PROVE Fresh'
  <2>1. PICK status \in {"completed", "failed", "cancelled"} :
           cmd' = [cmd EXCEPT ![r].status = status]
    BY <1>8 DEF CommandEnds
  <2>2. \A q \in Receivers : /\ cmd'[q].id = cmd[q].id
                             /\ cmd'[q].status = "idle" => cmd[q].status = "idle"
    BY <1>a, <2>1 DEF Command
  <2>3. UNCHANGED <<op, nextID, calls>>
    BY <1>8 DEF CommandEnds
  <2>. QED BY <1>b, <2>2, <2>3 DEF Fresh
<1>9. ASSUME NEW r \in Receivers, CancelCommand(r) \/ CancelFails(r) PROVE Fresh'
  <2>1. op'.id = op.id /\ op'.phase = op.phase /\ UNCHANGED <<cmd, calls, nextID>>
    BY <1>a, <1>9 DEF CancelCommand, CancelFails, Ops
  <2>. QED BY <1>b, <2>1 DEF Fresh
<1>10. CASE CancelsDone
  <2>1. op'.id = op.id /\ op'.phase = "idle" /\ UNCHANGED <<cmd, calls, nextID>>
    BY <1>a, <1>10 DEF CancelsDone, Ops
  <2>. QED BY <1>b, <2>1 DEF Fresh
<1>11. ASSUME NEW S \in SUBSET Receivers, MergeProbes(S)
       PROVE  UNCHANGED <<cmd, op, nextID, calls>>
  BY <1>11 DEF MergeProbes
<1>12. AskLost \/ CopyProbes \/ UNCHANGED vars => UNCHANGED <<cmd, op, nextID, calls>>
  BY DEF AskLost, CopyProbes, vars
<1>. QED
  BY <1>1, <1>2, <1>3, <1>4, <1>5, <1>6, <1>7, <1>8, <1>9, <1>10, <1>11, <1>12 DEF Next, OpStep

\* The locals of the function, phase by phase.
LEMMA NextFrame ==
    ASSUME IInv, [Next]_vars
    PROVE  Frame'
<1>. USE CommandsConstants DEF agentVars, opVars
<1>a. /\ TypeOK /\ TypeOK' /\ op \in Ops /\ view \in [Receivers -> Command]
      /\ todo \subseteq op.chosen /\ op.chosen \subseteq Receivers
  BY NextTypeOK DEF IInv, ProbesKept, TypeOK, Ops
<1>b. Frame
  BY DEF IInv
<1>1. ASSUME NEW S \in SUBSET Receivers \ {{}}, BeginCommand(S) PROVE Frame'
  <2>1. /\ op'.phase = "ask" /\ op'.status = "running" /\ op'.chosen = S
        /\ asking' = Nobody /\ waiting' = {} /\ view' = [r \in Receivers |-> NoCommand]
    BY <1>1 DEF BeginCommand
  <2>. QED BY <2>1 DEF Frame
<1>2. CASE Cancel
  <2>1. /\ Keep /\ op'.phase = op.phase /\ UNCHANGED <<todo, asking, waiting, view>>
    BY <1>a, <1>2 DEF Cancel, Ops, Keep
  <2>. QED BY <1>b, <2>1 DEF Frame, Keep
<1>3. ASSUME NEW r \in Receivers, Ask(r) PROVE Frame'
  <2>1. /\ op.phase = "ask" /\ r \in op.chosen /\ asking' = r /\ todo' = todo \ {r}
        /\ UNCHANGED <<op, waiting, view>>
    BY <1>a, <1>3 DEF Ask
  <2>. QED BY <1>b, <2>1 DEF Frame
<1>4. ASSUME NEW r \in Receivers, AskSkipped(r) PROVE Frame'
  <2>1. /\ op.phase = "ask" /\ r \in op.chosen /\ asking = Nobody
        /\ UNCHANGED <<op, waiting, asking>>
        /\ \A q \in Receivers : q # r => view'[q] = view[q]
    BY <1>a, <1>4 DEF AskSkipped
  <2>. QED BY <1>b, <2>1 DEF Frame
<1>5. CASE AskLost
  <2>1. /\ op.phase = "ask" /\ asking \in op.chosen /\ asking' = Nobody
        /\ UNCHANGED <<op, todo, waiting>>
        /\ \A q \in Receivers : q # asking => view'[q] = view[q]
    BY <1>a, <1>b, <1>5 DEF AskLost, Frame
  <2>. QED BY <1>b, <2>1 DEF Frame
<1>6. CASE Asked \/ RoundEnds
  <2>1. Outcome # "running"
    BY DEF Outcome
  <2>. QED BY <1>b, <1>6, <2>1, RoundStep DEF Frame
<1>7. ASSUME NEW k \in calls, LaunchCommand(k) \/ CommandRejected(k) PROVE Frame'
  <2>1. /\ UNCHANGED <<op, todo, waiting>>
        /\ \/ UNCHANGED <<asking, view>>
           \/ /\ op.phase = "ask" /\ asking = k.to /\ asking' = Nobody
              /\ \E c \in Command : view' = [view EXCEPT ![k.to] = c]
    BY <1>a, <1>7, AgentStep
  <2>2. \/ UNCHANGED <<asking, view>>
        \/ /\ op.phase = "ask" /\ asking \in op.chosen /\ asking' = Nobody
           /\ \A q \in Receivers : q # asking => view'[q] = view[q]
    <3>1. CASE UNCHANGED <<asking, view>>
      BY <3>1
    <3>2. CASE /\ op.phase = "ask" /\ asking = k.to /\ asking' = Nobody
               /\ \E c \in Command : view' = [view EXCEPT ![k.to] = c]
      <4>1. k.to \in Receivers
        BY <1>a DEF TypeOK
      <4>2. asking \in op.chosen
        BY <1>b, <3>2, <4>1 DEF Frame
      <4>. QED BY <1>a, <3>2, <4>2
    <3>. QED BY <2>1, <3>1, <3>2
  <2>. QED BY <1>b, <2>1, <2>2 DEF Frame
<1>8. ASSUME NEW r \in Receivers, CommandEnds(r) PROVE UNCHANGED opVars
  BY <1>8 DEF CommandEnds
<1>9. ASSUME NEW r \in Receivers, PollAnswer(r) \/ PollFails(r) \/ SkipPoll(r) PROVE Frame'
  <2>1. /\ op.phase = "monitor" /\ r \in op.chosen /\ UNCHANGED <<op, todo, asking>>
        /\ \E s \in Status : view' = [view EXCEPT ![r].status = s]
    BY <1>9, PollStep
  <2>2. \A q \in Receivers : q # r => view'[q] = view[q]
    BY <1>a, <2>1
  <2>. QED BY <1>b, <2>1, <2>2 DEF Frame
<1>10. ASSUME NEW r \in Receivers, CancelCommand(r) \/ CancelFails(r) PROVE Frame'
  <2>1. /\ Keep /\ op'.phase = op.phase /\ op.phase = "cancel" /\ UNCHANGED <<todo, asking, view>>
    BY <1>a, <1>10 DEF CancelCommand, CancelFails, Ops, Keep
  <2>. QED BY <1>b, <2>1 DEF Frame, Keep
<1>11. CASE CancelsDone
  <2>1. /\ op'.phase = "idle" /\ op'.status = "cancelled" /\ waiting' = {}
        /\ UNCHANGED <<todo, asking>>
        /\ op.phase = "cancel" /\ view' = [r \in Receivers |-> NoCommand]
    BY <1>a, <1>11 DEF CancelsDone, Ops
  <2>. QED BY <1>b, <2>1 DEF Frame
<1>12. CASE UNCHANGED opVars
  BY <1>b, <1>12 DEF Frame
<1>13. ASSUME NEW S \in SUBSET Receivers, MergeProbes(S) PROVE UNCHANGED opVars
  BY <1>13 DEF MergeProbes
<1>14. CopyProbes \/ UNCHANGED vars => UNCHANGED opVars
  BY DEF CopyProbes, vars
<1>. HIDE DEF opVars
<1>. QED
  BY <1>1, <1>2, <1>3, <1>4, <1>5, <1>6, <1>7, <1>8, <1>9, <1>10, <1>11, <1>12, <1>13, <1>14
  DEF Next, OpStep

\* Whoever can run the command was asked and has an entry.
LEMMA NextKnown ==
    ASSUME IInv, [Next]_vars
    PROVE  Known'
<1>. USE CommandsConstants DEF agentVars, opVars
<1>a. /\ TypeOK /\ TypeOK' /\ op \in Ops /\ view \in [Receivers -> Command]
      /\ cmd \in [Receivers -> Command] /\ calls \subseteq [to : Receivers, id : ID]
      /\ todo \subseteq op.chosen /\ op.chosen \subseteq Receivers /\ op.id \in Nat
  BY NextTypeOK DEF IInv, ProbesKept, TypeOK, Ops, ID
<1>b. Known /\ Frame /\ Fresh
  BY DEF IInv
<1>1. ASSUME NEW S \in SUBSET Receivers \ {{}}, BeginCommand(S) PROVE Known'
  <2>1. op'.id = nextID /\ op'.chosen = S /\ todo' = S /\ UNCHANGED <<cmd, calls>>
    BY <1>1 DEF BeginCommand
  <2>2. \A k \in calls : k.id # nextID
    BY <1>a, <1>b DEF Fresh, TypeOK, ID
  <2>3. \A r \in Receivers : cmd[r].id # nextID
    BY <1>a, <1>b DEF Fresh, TypeOK, ID, Command
  <2>4. \A r \in Receivers : Call(r)'.id = nextID
    BY <2>1 DEF Call
  <2>. QED BY <2>1, <2>2, <2>3, <2>4 DEF Known
<1>2. CASE Cancel
  <2>1. /\ Keep /\ op'.phase = op.phase /\ UNCHANGED <<cmd, calls, todo, asking, view>>
    BY <1>a, <1>2 DEF Cancel, Ops, Keep
  <2>. QED BY <1>b, <2>1 DEF Known, Keep, Call
<1>3. ASSUME NEW r \in Receivers, Ask(r) PROVE Known'
  <2>1. /\ op.phase = "ask" /\ r \in op.chosen /\ asking' = r /\ todo' = todo \ {r}
        /\ asking = Nobody /\ calls' = calls \cup {Call(r)} /\ UNCHANGED <<cmd, op, view>>
    BY <1>a, <1>3 DEF Ask, Call
  <2>2. \A q \in Receivers : Call(q)' = Call(q) /\ (Call(q) = Call(r) => q = r)
    BY <2>1 DEF Call
  <2>. QED BY <1>a, <1>b, <2>1, <2>2 DEF Known
<1>4. ASSUME NEW r \in Receivers, AskSkipped(r) PROVE Known'
  <2>1. /\ op.phase = "ask" /\ r \in op.chosen /\ asking = Nobody /\ todo' = todo \ {r}
        /\ UNCHANGED <<op, cmd, calls, asking>>
        /\ \A q \in Receivers : q # r => view'[q] = view[q]
        /\ view'[r].id = op.id /\ view'[r].status = "failed"
    BY <1>a, <1>4 DEF AskSkipped, Refused
  <2>. QED BY <1>a, <1>b, <2>1 DEF Known, Call
<1>5. CASE AskLost
  <2>1. asking \in Receivers
    BY <1>a, <1>5 DEF AskLost, TypeOK
  <2>2. /\ op.phase = "ask" /\ asking' = Nobody /\ UNCHANGED <<op, todo, cmd, calls>>
        /\ \A q \in Receivers : q # asking => view'[q] = view[q]
        /\ view'[asking].id = op.id /\ view'[asking].status = "failed"
    BY <1>a, <1>5, <2>1 DEF AskLost, Refused
  <2>. QED BY <1>a, <1>b, <2>1, <2>2 DEF Known, Call
<1>6. CASE Asked \/ RoundEnds
  <2>1. /\ op.phase # "idle" /\ op'.id = op.id /\ op'.chosen = op.chosen
        /\ UNCHANGED <<cmd, calls, todo, asking, view>>
    BY <1>6, RoundStep
  <2>. QED BY <1>b, <2>1 DEF Known, Call
<1>7. ASSUME NEW k \in calls, LaunchCommand(k) \/ CommandRejected(k) PROVE Known'
  <2>1. /\ k \in [to : Receivers, id : ID] /\ calls' = calls \ {k} /\ UNCHANGED <<op, todo>>
        /\ \/ UNCHANGED cmd
           \/ cmd' = [cmd EXCEPT ![k.to] = [id |-> k.id, status |-> "running"]]
        /\ \/ UNCHANGED <<asking, view>>
           \/ /\ op.phase = "ask" /\ asking = k.to /\ asking' = Nobody
              /\ \E c \in Command : /\ view' = [view EXCEPT ![k.to] = c]
                                    /\ c.id = op.id /\ c.status \in {"running", "failed"}
    BY <1>a, <1>7, AgentStep
  <2>2. \A r \in Receivers : cmd'[r].id = op.id => cmd[r].id = op.id \/ Call(r) = k
    BY <1>a, <2>1 DEF Call
  <2>3. \A r \in Receivers : \/ asking' = asking /\ view'[r] = view[r]
                             \/ asking' = Nobody /\ r # asking /\ view'[r] = view[r]
                             \/ view'[r].id = op.id /\ view'[r].status # "idle"
    BY <1>a, <2>1
  <2>4. op.phase # "idle" => \A r \in Receivers :
           cmd'[r].id = op.id \/ Call(r) \in calls' => r \in op.chosen \ todo
    BY <1>b, <1>7, <2>1, <2>2 DEF Known
  <2>5. \A r \in Receivers : Call(r)' = Call(r)
    BY <2>1 DEF Call
  <2>. QED BY <1>a, <1>b, <2>1, <2>3, <2>4, <2>5 DEF Known
<1>8. ASSUME NEW r \in Receivers, CommandEnds(r) PROVE Known'
  <2>1. UNCHANGED <<op, todo, asking, view, calls>>
    BY <1>8 DEF CommandEnds
  <2>2. \A q \in Receivers : cmd'[q].id = cmd[q].id
    BY <1>a, <1>8 DEF CommandEnds, Command
  <2>. QED BY <1>b, <2>1, <2>2 DEF Known, Call
<1>9. ASSUME NEW r \in Receivers, PollAnswer(r) \/ PollFails(r) \/ SkipPoll(r) PROVE Known'
  <2>1. /\ view[r].id = op.id /\ UNCHANGED <<op, todo, asking, cmd, calls>>
        /\ \E s \in Status \ {"idle"} : view' = [view EXCEPT ![r].status = s]
    BY <1>9, PollStep
  <2>2. /\ \A q \in Receivers : q # r => view'[q] = view[q]
        /\ view'[r].id = op.id /\ view'[r].status # "idle"
    BY <1>a, <2>1 DEF Command
  <2>. QED BY <1>a, <1>b, <2>1, <2>2 DEF Known, Call
<1>10. ASSUME NEW r \in Receivers, CancelCommand(r) \/ CancelFails(r) PROVE Known'
  <2>1. /\ Keep /\ op'.phase = op.phase /\ UNCHANGED <<cmd, calls, todo, asking, view>>
    BY <1>a, <1>10 DEF CancelCommand, CancelFails, Ops, Keep
  <2>. QED BY <1>b, <2>1 DEF Known, Keep, Call
<1>11. CASE CancelsDone
  BY <1>a, <1>11 DEF CancelsDone, Ops, Known
<1>12. CASE UNCHANGED <<op, todo, asking, view, cmd, calls>>
  BY <1>b, <1>12 DEF Known, Call
<1>13. ASSUME NEW S \in SUBSET Receivers, MergeProbes(S)
       PROVE  UNCHANGED <<op, todo, asking, view, cmd, calls>>
  BY <1>13 DEF MergeProbes
<1>14. CopyProbes \/ UNCHANGED vars => UNCHANGED <<op, todo, asking, view, cmd, calls>>
  BY DEF CopyProbes, vars
<1>. QED
  BY <1>1, <1>2, <1>3, <1>4, <1>5, <1>6, <1>7, <1>8, <1>9, <1>10, <1>11, <1>12, <1>13, <1>14
  DEF Next, OpStep

\* The map says "completed" of machines that completed this command only.
LEMMA NextTruthful ==
    ASSUME IInv, [Next]_vars
    PROVE  Truthful'
<1>. USE CommandsConstants DEF agentVars, opVars
<1>a. /\ TypeOK /\ op \in Ops /\ view \in [Receivers -> Command]
      /\ cmd \in [Receivers -> Command] /\ op.id \in Nat
  BY DEF IInv, ProbesKept, TypeOK, Ops, ID
<1>b. Truthful /\ Fresh
  BY DEF IInv
<1>1. ASSUME NEW S \in SUBSET Receivers \ {{}}, BeginCommand(S) PROVE Truthful'
  <2>1. op'.id = nextID /\ UNCHANGED cmd /\ view' = [r \in Receivers |-> NoCommand]
    BY <1>1 DEF BeginCommand
  <2>2. \A r \in Receivers : cmd[r].id # nextID
    BY <1>a, <1>b DEF Fresh, TypeOK, ID, Command
  <2>. QED BY <2>1, <2>2 DEF Truthful, NoCommand
<1>2. CASE Cancel
  <2>1. op'.id = op.id /\ op'.phase = op.phase /\ UNCHANGED <<cmd, finished, view>>
    BY <1>a, <1>2 DEF Cancel, Ops
  <2>. QED BY <1>b, <2>1 DEF Truthful
<1>3. ASSUME NEW r \in Receivers, AskSkipped(r) PROVE Truthful'
  <2>1. /\ UNCHANGED <<op, cmd, finished>> /\ view'[r].status = "failed"
        /\ \A q \in Receivers : q # r => view'[q] = view[q]
    BY <1>a, <1>3 DEF AskSkipped, Refused
  <2>. QED BY <1>b, <1>3, <2>1 DEF Truthful, AskSkipped
<1>4. CASE AskLost
  <2>1. UNCHANGED <<op, cmd, finished>> /\ op.phase = "ask"
    BY <1>4 DEF AskLost
  <2>2. \A q \in Receivers : view'[q] = view[q] \/ view'[q].status = "failed"
    BY <1>a, <1>4 DEF AskLost, Refused
  <2>. QED BY <1>b, <2>1, <2>2 DEF Truthful
<1>5. CASE Asked \/ RoundEnds
  <2>1. op'.id = op.id /\ op.phase # "idle" /\ UNCHANGED <<cmd, finished, view>>
    BY <1>5, RoundStep
  <2>. QED BY <1>b, <2>1 DEF Truthful
<1>6. ASSUME NEW k \in calls, LaunchCommand(k) \/ CommandRejected(k) PROVE Truthful'
  <2>1. /\ UNCHANGED <<op, finished>>
        /\ \/ UNCHANGED cmd
           \/ cmd' = [cmd EXCEPT ![k.to] = [id |-> k.id, status |-> "running"]]
        /\ \/ UNCHANGED view
           \/ \E c \in Command : /\ view' = [view EXCEPT ![k.to] = c]
                                 /\ c.status \in {"running", "failed"}
    BY <1>a, <1>6, AgentStep
  <2>2. \A r \in Receivers : cmd'[r] = cmd[r] \/ cmd'[r].status = "running"
    BY <1>a, <2>1
  <2>3. \A r \in Receivers : view'[r] = view[r] \/ view'[r].status \in {"running", "failed"}
    BY <1>a, <2>1
  <2>. QED BY <1>b, <2>1, <2>2, <2>3 DEF Truthful
<1>7. ASSUME NEW r \in Receivers, CommandEnds(r) PROVE Truthful'
  <2>1. PICK status \in {"completed", "failed", "cancelled"} :
           /\ cmd' = [cmd EXCEPT ![r].status = status]
           /\ finished' = IF status = "completed" /\ cmd[r].id = op.id
                          THEN finished \cup {r} ELSE finished
    BY <1>7 DEF CommandEnds
  <2>2. /\ \A q \in Receivers : q # r => cmd'[q] = cmd[q]
        /\ cmd'[r].id = cmd[r].id /\ cmd'[r].status = status
    BY <1>a, <2>1 DEF Command
  <2>3. UNCHANGED <<op, view>>
    BY <1>7 DEF CommandEnds
  <2>. QED BY <1>b, <2>1, <2>2, <2>3 DEF Truthful
<1>8. ASSUME NEW r \in Receivers, PollAnswer(r) \/ PollFails(r) \/ SkipPoll(r) PROVE Truthful'
  <2>1. /\ UNCHANGED <<op, cmd, finished>>
        /\ \E s \in Status : /\ view' = [view EXCEPT ![r].status = s]
                             /\ s = "completed" => r \in finished
    BY <1>8, PollStep
  <2>2. /\ \A q \in Receivers : q # r => view'[q] = view[q]
        /\ view'[r].status = "completed" => r \in finished
    BY <1>a, <2>1 DEF Command
  <2>. QED BY <1>b, <2>1, <2>2 DEF Truthful
<1>9. ASSUME NEW r \in Receivers, CancelCommand(r) \/ CancelFails(r) PROVE Truthful'
  <2>1. op'.id = op.id /\ op'.phase = op.phase /\ UNCHANGED <<cmd, finished, view>>
    BY <1>a, <1>9 DEF CancelCommand, CancelFails, Ops
  <2>. QED BY <1>b, <2>1 DEF Truthful
<1>10. CASE CancelsDone
  <2>1. op'.id = op.id /\ op'.phase = "idle" /\ UNCHANGED <<cmd, finished>>
    BY <1>a, <1>10 DEF CancelsDone, Ops
  <2>. QED BY <1>b, <2>1 DEF Truthful
<1>11. CASE UNCHANGED <<op, view, cmd, finished>>
  BY <1>b, <1>11 DEF Truthful
<1>12. ASSUME NEW r \in Receivers, Ask(r)
       PROVE  UNCHANGED <<op, view, cmd, finished>>
  BY <1>12 DEF Ask
<1>13. ASSUME NEW S \in SUBSET Receivers, MergeProbes(S)
       PROVE  UNCHANGED <<op, view, cmd, finished>>
  BY <1>13 DEF MergeProbes
<1>14. CopyProbes \/ UNCHANGED vars => UNCHANGED <<op, view, cmd, finished>>
  BY DEF CopyProbes, vars
<1>. QED
  BY <1>1, <1>2, <1>3, <1>4, <1>5, <1>6, <1>7, <1>8, <1>9, <1>10, <1>11, <1>12, <1>13, <1>14
  DEF Next, OpStep

\* A cancelling operation has told every machine but those it still waits for.
LEMMA NextQuieted ==
    ASSUME IInv, [Next]_vars
    PROVE  Quieted'
<1>. USE CommandsConstants DEF agentVars, opVars
<1>a. /\ TypeOK /\ op \in Ops /\ view \in [Receivers -> Command]
      /\ cmd \in [Receivers -> Command] /\ killed \in [Receivers -> BOOLEAN]
      /\ calls \subseteq [to : Receivers, id : ID]
      /\ op.chosen \subseteq Receivers /\ waiting \subseteq op.chosen
  BY DEF IInv, ProbesKept, TypeOK, Ops
<1>b. Quieted /\ Known /\ Frame
  BY DEF IInv
<1>1. CASE op'.phase \notin {"idle", "cancel"}
  BY <1>1 DEF Quieted
<1>2. ASSUME NEW S \in SUBSET Receivers \ {{}}, BeginCommand(S)
      PROVE  op'.phase \notin {"idle", "cancel"}
  BY <1>2 DEF BeginCommand
<1>3. CASE Cancel
  <2>1. /\ op'.id = op.id /\ op'.phase = op.phase /\ op.phase # "idle"
        /\ op'.missed = op.missed /\ op'.chosen = op.chosen
        /\ UNCHANGED <<waiting, cmd, calls, killed>>
    BY <1>a, <1>b, <1>3 DEF Cancel, Ops, Frame
  <2>. QED BY <1>b, <2>1 DEF Quieted, Quiet, Call
<1>4. ASSUME NEW r \in Receivers, Ask(r) \/ AskSkipped(r) PROVE op'.phase \notin {"idle", "cancel"}
  BY <1>4 DEF Ask, AskSkipped
<1>5. ASSUME AskLost PROVE op'.phase \notin {"idle", "cancel"}
  BY <1>5 DEF AskLost
<1>6. CASE Asked \/ RoundEnds
  <2>1. \/ op'.phase = "cancel" /\ waiting' = op.chosen /\ op'.chosen = op.chosen
        \/ op'.phase = "monitor"
        \/ op'.phase = "idle" /\ op'.status = Outcome
    BY <1>6, RoundStep
  <2>2. Outcome # "cancelled"
    BY DEF Outcome
  <2>. QED BY <2>1, <2>2 DEF Quieted
<1>7. ASSUME NEW k \in calls, LaunchCommand(k) \/ CommandRejected(k) PROVE Quieted'
  <2>1. /\ k \in [to : Receivers, id : ID] /\ calls' = calls \ {k} /\ UNCHANGED <<op, waiting>>
        /\ \/ UNCHANGED <<cmd, killed>>
           \/ /\ cmd' = [cmd EXCEPT ![k.to] = [id |-> k.id, status |-> "running"]]
              /\ killed' = [killed EXCEPT ![k.to] = FALSE]
    BY <1>a, <1>7, AgentStep
  <2>2. ASSUME NEW r \in Receivers, Quiet(r) PROVE Quiet(r)'
    <3>1. Call(r)' = Call(r) /\ Call(r) # k
      BY <1>7, <2>1, <2>2 DEF Call, Quiet
    <3>2. CASE k.to = r
      <4>1. k.id # op.id
        BY <2>1, <3>1, <3>2 DEF Call
      <4>2. \/ cmd'[r] = cmd[r] /\ killed'[r] = killed[r]
            \/ cmd'[r].id = k.id
        BY <1>a, <2>1, <3>2
      <4>. QED BY <2>1, <2>2, <3>1, <4>1, <4>2 DEF Quiet
    <3>3. CASE k.to # r
      <4>1. cmd'[r] = cmd[r] /\ killed'[r] = killed[r]
        BY <1>a, <2>1, <3>3
      <4>. QED BY <2>1, <2>2, <3>1, <4>1 DEF Quiet
    <3>. QED BY <3>2, <3>3
  <2>. QED BY <1>a, <1>b, <2>1, <2>2 DEF Quieted
<1>8. ASSUME NEW r \in Receivers, CommandEnds(r) PROVE Quieted'
  <2>1. PICK status \in {"completed", "failed", "cancelled"} :
           cmd' = [cmd EXCEPT ![r].status = status]
    BY <1>8 DEF CommandEnds
  <2>2. UNCHANGED <<op, waiting, calls>> /\ killed' = [killed EXCEPT ![r] = FALSE]
    BY <1>8 DEF CommandEnds
  <2>3. ASSUME NEW q \in Receivers, Quiet(q) PROVE Quiet(q)'
    <3>1. \/ cmd'[q] = cmd[q] /\ killed'[q] = killed[q]
          \/ cmd'[q].status # "running"
      BY <1>a, <2>1, <2>2 DEF Command
    <3>. QED BY <2>2, <2>3, <3>1 DEF Quiet, Call
  <2>. QED BY <1>a, <1>b, <2>2, <2>3 DEF Quieted
<1>9. ASSUME NEW r \in Receivers, PollAnswer(r) \/ PollFails(r) \/ SkipPoll(r)
      PROVE  op'.phase \notin {"idle", "cancel"}
  BY <1>9, PollStep
<1>10. ASSUME NEW r \in Receivers, CancelCommand(r) PROVE Quieted'
  <2>1. /\ op.phase = "cancel" /\ r \in waiting /\ waiting' = waiting \ {r}
        /\ UNCHANGED <<cmd, calls>>
    BY <1>10 DEF CancelCommand
  <2>2. /\ op'.phase = "cancel" /\ op'.id = op.id /\ op'.chosen = op.chosen
        /\ ~op'.missed => ~op.missed /\ Call(r) \notin calls
    BY <1>a, <1>10 DEF CancelCommand, Ops, Call
  <2>3. view[r].id = op.id
    BY <1>a, <1>b, <2>1 DEF Known, Frame
  <2>4. cmd[r].id = op.id /\ cmd[r].status = "running" =>
           cmd[r] = [id |-> view[r].id, status |-> "running"]
    BY <1>a, <2>3 DEF Command
  <2>5. cmd[r].id = op.id /\ cmd[r].status = "running" => killed'[r]
    BY <1>a, <1>10, <2>4 DEF CancelCommand
  <2>6. \A q \in Receivers : q # r => killed'[q] = killed[q]
    BY <1>a, <1>10 DEF CancelCommand
  <2>7. ~op'.missed => Quiet(r)'
    BY <2>1, <2>2, <2>5 DEF Quiet, Call
  <2>8. ~op'.missed => \A q \in op.chosen \ waiting : q # r => Quiet(q)'
    BY <1>a, <1>b, <2>1, <2>2, <2>6 DEF Quieted, Quiet, Call
  <2>. QED BY <2>1, <2>2, <2>7, <2>8 DEF Quieted
<1>11. ASSUME NEW r \in Receivers, CancelFails(r) PROVE Quieted'
  <2>1. op'.phase = "cancel" /\ op'.missed
    BY <1>a, <1>11 DEF CancelFails, Ops
  <2>. QED BY <2>1 DEF Quieted
<1>12. CASE CancelsDone
  <2>1. /\ op.phase = "cancel" /\ waiting = {} /\ UNCHANGED <<cmd, calls, killed>>
        /\ op'.phase = "idle" /\ op'.missed = op.missed /\ op'.id = op.id
    BY <1>a, <1>12 DEF CancelsDone, Ops
  <2>2. \A r \in op.chosen : ~op.missed => Quiet(r)
    BY <1>b, <2>1 DEF Quieted
  <2>3. \A r \in Receivers \ op.chosen : Quiet(r)
    BY <1>b, <2>1 DEF Known, Quiet
  <2>. QED BY <2>1, <2>2, <2>3 DEF Quieted, Quiet, Call
<1>13. CASE UNCHANGED <<op, waiting, cmd, calls, killed>>
  BY <1>b, <1>13 DEF Quieted, Quiet, Call
<1>14. ASSUME NEW S \in SUBSET Receivers, MergeProbes(S)
       PROVE  UNCHANGED <<op, waiting, cmd, calls, killed>>
  BY <1>14 DEF MergeProbes
<1>15. CopyProbes \/ UNCHANGED vars => UNCHANGED <<op, waiting, cmd, calls, killed>>
  BY DEF CopyProbes, vars
<1>. QED
  BY <1>1, <1>2, <1>3, <1>4, <1>5, <1>6, <1>7, <1>8, <1>9, <1>10, <1>11, <1>12, <1>13, <1>14,
     <1>15 DEF Next, OpStep

-----------------------------------------------------------------------------
\* The inductive invariant holds in every behaviour of both operations.
THEOREM CommandsInvariant == Spec => []IInv
<1>1. Init => IInv
  <2>. SUFFICES ASSUME Init PROVE IInv
    OBVIOUS
  <2>. USE CommandsConstants DEF Init
  <2>1. NoCommand \in Command /\ NoCommand.id = 0 /\ NoCommand.status = "idle"
    BY DEF NoCommand, Command, Status, ID
  <2>2. Unknown \in [Receivers -> Peer]
    BY <2>1 DEF Unknown, Peer
  <2>3. op \in Ops /\ op.id = 0 /\ op.phase = "idle" /\ op.status = "none" /\ op.chosen = {}
    BY DEF Ops, ID
  <2>4. ProbesKept
    <3>1. dispatch \in [busy : BOOLEAN, no : 0 .. MaxTasks, copy : [Receivers -> Peer]]
      BY <2>2
    <3>2. TypeOK
      BY <2>1, <2>2, <2>3, <3>1 DEF TypeOK, Ops
    <3>. QED BY <2>3, <3>2 DEF ProbesKept
  <2>5. Fresh
    BY <2>1, <2>3 DEF Fresh
  <2>6. Frame
    BY <2>1, <2>3 DEF Frame
  <2>. QED BY <2>1, <2>3, <2>4, <2>5, <2>6 DEF IInv, Known, Truthful, Quieted
<1>2. IInv /\ [Next]_vars => IInv'
  BY NextProbes, NextFresh, NextFrame, NextKnown, NextTruthful, NextQuieted DEF IInv
<1>. QED BY <1>1, <1>2, PTL DEF Spec

\* No update of App.probes is lost, whatever the two operations do.
THEOREM ProbesSafe == Spec => []ProbesKept
<1>1. IInv => ProbesKept
  BY DEF IInv
<1>. QED BY <1>1, CommandsInvariant, PTL

\* When a cancelled operation has ended and every cancel call came through and
\* overtook no call, its command runs on no machine unless already killed.
THEOREM CancelSafe == Spec => []CancelKills
<1>1. IInv => CancelKills
  BY DEF IInv, Quieted, Quiet, CancelKills
<1>. QED BY <1>1, CommandsInvariant, PTL

\* An operation that ends as "completed" has asked no machine that did not
\* complete this very command.
THEOREM CompletionTruthful == Spec => CompletedMeansDone
<1>1. ASSUME IInv, [Next]_vars, op.status = "running", op'.status = "completed"
      PROVE  op.chosen \subseteq finished
  <2>. USE CommandsConstants DEF agentVars, opVars
  <2>a. /\ op \in Ops /\ view \in [Receivers -> Command] /\ op.chosen \subseteq Receivers
    BY <1>1 DEF IInv, ProbesKept, TypeOK, Ops
  <2>1. Asked \/ RoundEnds
    <3>1. ASSUME NEW S \in SUBSET Receivers \ {{}}, BeginCommand(S) PROVE FALSE
      BY <1>1, <3>1 DEF BeginCommand
    <3>2. ASSUME Cancel \/ CancelsDone PROVE FALSE
      BY <1>1, <2>a, <3>2 DEF Cancel, CancelsDone, Ops
    <3>3. ASSUME NEW r \in Receivers, CancelCommand(r) \/ CancelFails(r) PROVE FALSE
      BY <1>1, <2>a, <3>3 DEF CancelCommand, CancelFails, Ops
    <3>4. ASSUME NEW r \in Receivers,
                 \/ Ask(r) \/ AskSkipped(r) \/ CommandEnds(r)
                 \/ PollAnswer(r) \/ PollFails(r) \/ SkipPoll(r)
          PROVE  FALSE
      BY <1>1, <3>4 DEF Ask, AskSkipped, CommandEnds, PollAnswer, PollFails, SkipPoll, Polled
    <3>5. ASSUME NEW S \in SUBSET Receivers, MergeProbes(S) PROVE FALSE
      BY <1>1, <3>5 DEF MergeProbes
    <3>6. ASSUME NEW k \in calls, LaunchCommand(k) \/ CommandRejected(k) PROVE FALSE
      BY <1>1, <3>6 DEF LaunchCommand, CommandRejected
    <3>7. ASSUME AskLost \/ CopyProbes \/ UNCHANGED vars PROVE FALSE
      BY <1>1, <3>7 DEF AskLost, CopyProbes, vars
    <3>. QED BY <1>1, <3>1, <3>2, <3>3, <3>4, <3>5, <3>6, <3>7 DEF Next, OpStep
  <2>2. /\ op.phase = "monitor" /\ todo = {} /\ asking = Nobody
        /\ Outcome = "completed" /\ Running(view) = {}
    BY <1>1, <2>1, RoundStep
  <2>3. ASSUME NEW r \in op.chosen PROVE r \in finished
    <3>1. view[r].status \in Status /\ view[r].status # "idle"
      BY <1>1, <2>a, <2>2 DEF IInv, Known, Command
    <3>2. view[r].status \notin {"failed", "cancelled", "running"}
      BY <2>a, <2>2 DEF Outcome, Running
    <3>3. view[r].status = "completed"
      BY <3>1, <3>2 DEF Status
    <3>. QED BY <1>1, <2>a, <2>2, <3>3 DEF IInv, Truthful
  <2>. QED BY <2>3
<1>2. IInv /\ [Next]_vars =>
         [op.status = "running" /\ op'.status = "completed" => op.chosen \subseteq finished]_vars
  BY <1>1
<1>. QED BY <1>2, CommandsInvariant, PTL DEF Spec, CompletedMeansDone

=============================================================================
