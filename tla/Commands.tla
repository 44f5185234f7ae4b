------------------------------ MODULE Commands ------------------------------
(***************************************************************************)
(* Remote commands.  Next to the operation that dispatches files, App runs *)
(* at most one command operation: it asks the chosen machines one after    *)
(* the other to execute a command under one ID, polls them until none      *)
(* runs, and cancels by that ID.  "command" is not idempotent: a call whose *)
(* answer is lost may have started the command, or may start it later.     *)
(* Both operations write what they learn into App.probes.                  *)
(*                                                                         *)
(* The sender is not stopped here and no mode is selected: both empty the  *)
(* map.                                                                    *)
(***************************************************************************)
EXTENDS Naturals, FiniteSets

CONSTANTS
    Receivers,    \* the machines registered with the sender
    MaxCommands,  \* bound on the IDs that key() makes
    MaxTasks,     \* bound on the dispatches next to them
    Nobody        \* no machine is being asked

ASSUME CommandsConstants ==
    /\ IsFiniteSet(Receivers) /\ Nobody \notin Receivers
    /\ MaxCommands \in Nat /\ MaxTasks \in Nat

VARIABLES
    cmd,       \* agent.commandTask: ID (0 before the first) and status
    killed,    \* the context of the agent's running command is cancelled
    finished,  \* history: machines that completed the current command
    calls,     \* "command" calls the agents have yet to handle
    nextID,    \* the next value of key()
    op,        \* App.commandOp and the frame of its function
    todo,      \* machines that command has still to ask
    asking,    \* the machine it waits for
    waiting,   \* machines whose goroutine of the current fan-out runs
    view,      \* the function's own map of peers
    shown,     \* App.probes: Command, and the number of the dispatch in Task
    dispatch   \* the other operation: busy, and its copy of App.probes

agentVars == <<cmd, killed, finished, calls>>
opVars == <<op, todo, asking, waiting, view>>
vars == <<agentVars, nextID, opVars, shown, dispatch>>

ID == 0 .. MaxCommands
Status == {"idle", "running", "completed", "failed", "cancelled"}
Command == [id : ID, status : Status]
NoCommand == [id |-> 0, status |-> "idle"]
Peer == [command : Command, task : 0 .. MaxTasks]

(***************************************************************************)
(* The one type invariant; a machine has at most one call of an ID.        *)
(***************************************************************************)
TypeOK ==
    /\ cmd \in [Receivers -> Command]
    /\ killed \in [Receivers -> BOOLEAN]
    /\ finished \subseteq Receivers
    /\ calls \subseteq [to : Receivers, id : ID]
    /\ nextID \in 1 .. MaxCommands + 1
    /\ op \in [phase : {"idle", "ask", "monitor", "cancel"},
               status : {"none", "running", "completed", "failed", "cancelled"},
               cancelled : BOOLEAN, id : ID, chosen : SUBSET Receivers,
               missed : BOOLEAN]
    /\ todo \subseteq op.chosen /\ waiting \subseteq op.chosen
    /\ asking \in Receivers \cup {Nobody}
    /\ view \in [Receivers -> Command]
    /\ shown \in [Receivers -> Peer]
    /\ dispatch \in [busy : BOOLEAN, no : 0 .. MaxTasks, copy : [Receivers -> Peer]]

Unknown == [r \in Receivers |-> [command |-> NoCommand, task |-> 0]]

Init ==
    /\ cmd = [r \in Receivers |-> NoCommand]
    /\ killed = [r \in Receivers |-> FALSE]
    /\ finished = {}
    /\ calls = {}
    /\ nextID = 1
    /\ op = [phase |-> "idle", status |-> "none", cancelled |-> FALSE, id |-> 0,
             chosen |-> {}, missed |-> FALSE]
    /\ todo = {} /\ asking = Nobody /\ waiting = {}
    /\ view = [r \in Receivers |-> NoCommand]
    /\ shown = Unknown
    /\ dispatch = [busy |-> FALSE, no |-> 0, copy |-> Unknown]

-----------------------------------------------------------------------------
(* beginCommand and command *)

Running(m) == {r \in Receivers : m[r].status = "running"}

BeginCommand(S) ==
    /\ op.status # "running"
    /\ nextID <= MaxCommands
    /\ nextID' = nextID + 1
    /\ op' = [phase |-> "ask", status |-> "running", cancelled |-> FALSE,
              id |-> nextID, chosen |-> S, missed |-> FALSE]
    /\ todo' = S /\ asking' = Nobody /\ waiting' = {}
    /\ view' = [r \in Receivers |-> NoCommand]
    /\ finished' = {}
    /\ UNCHANGED <<cmd, killed, calls, shown, dispatch>>

\* POST /api/cancel for commands; App.Close does the same and then waits.
Cancel ==
    /\ op.status = "running" /\ ~op.cancelled
    /\ op' = [op EXCEPT !.cancelled = TRUE]
    /\ UNCHANGED <<agentVars, nextID, todo, asking, waiting, view, shown,
                   dispatch>>

Ask(r) ==
    /\ op.phase = "ask" /\ asking = Nobody /\ r \in todo
    /\ todo' = todo \ {r} /\ asking' = r
    /\ calls' = calls \cup {[to |-> r, id |-> op.id]}
    /\ UNCHANGED <<cmd, killed, finished, nextID, op, waiting, view, shown, dispatch>>

Refused == [id |-> op.id, status |-> "failed"]

\* With the context ended nothing is sent any more.
AskSkipped(r) ==
    /\ op.phase = "ask" /\ asking = Nobody /\ r \in todo /\ op.cancelled
    /\ todo' = todo \ {r}
    /\ view' = [view EXCEPT ![r] = Refused]
    /\ UNCHANGED <<agentVars, nextID, op, asking, waiting, shown, dispatch>>

AskLostForgotten ==
    /\ op.phase = "ask" /\ asking # Nobody
    /\ asking' = Nobody
    /\ UNCHANGED <<agentVars, nextID, op, todo, waiting, view, shown, dispatch>>

AskWithoutDeadline ==
    /\ op.phase = "ask" /\ asking # Nobody /\ op.cancelled
    /\ asking' = Nobody
    /\ view' = [view EXCEPT ![asking] = Refused]
    /\ UNCHANGED <<agentVars, nextID, op, todo, waiting, shown, dispatch>>

\* The connection broke, the deadline passed or the context ended; the call may
\* be handled already, later, or never.
AskLost ==
    /\ op.phase = "ask" /\ asking # Nobody
    /\ asking' = Nobody
    /\ view' = [view EXCEPT ![asking] = Refused]
    /\ UNCHANGED <<agentVars, nextID, op, todo, waiting, shown, dispatch>>

\* storePeer(p, true) for the whole map: only Command is replaced.
Stored == [r \in Receivers |->
              IF r \in op.chosen THEN [shown[r] EXCEPT !.command = view[r]]
                                 ELSE shown[r]]

\* cancelRemoteKind asks every machine whose Command has an ID.
Cancelling ==
    /\ op' = [op EXCEPT !.phase = "cancel"]
    /\ waiting' = {r \in op.chosen : view[r].id # 0}

Asked ==
    /\ op.phase = "ask" /\ todo = {} /\ asking = Nobody
    /\ shown' = Stored
    /\ \/ op.cancelled /\ Cancelling
       \/ /\ ~op.cancelled
          /\ op' = [op EXCEPT !.phase = "monitor"]
          /\ waiting' = Running(view)
    /\ UNCHANGED <<agentVars, nextID, todo, asking, view, dispatch>>

-----------------------------------------------------------------------------
(* "command" at the agent *)

\* The answer reaches the operation if it still waits for it.
Answer(k, c) ==
    IF op.phase = "ask" /\ asking = k.to /\ op.id = k.id
      THEN asking' = Nobody /\ view' = [view EXCEPT ![k.to] = c]
      ELSE UNCHANGED <<asking, view>>

\* launchCommand: one command at a time.
LaunchCommand(k) ==
    /\ calls' = calls \ {k}
    /\ IF cmd[k.to].status = "running"
         THEN Answer(k, Refused) /\ UNCHANGED <<cmd, killed>>
         ELSE /\ cmd' = [cmd EXCEPT ![k.to] = [id |-> k.id, status |-> "running"]]
              /\ killed' = [killed EXCEPT ![k.to] = FALSE]
              /\ Answer(k, cmd'[k.to])
    /\ UNCHANGED <<finished, nextID, op, todo, waiting, shown, dispatch>>

\* The directory, the text or the agent's settings do not allow it, or the
\* connection broke before the request was read.
CommandRejected(k) ==
    /\ calls' = calls \ {k}
    /\ Answer(k, Refused)
    /\ UNCHANGED <<cmd, killed, finished, nextID, op, todo, waiting, shown, dispatch>>

\* execute: the process ended, by itself, by its timeout or killed.
CommandEnds(r) ==
    /\ cmd[r].status = "running"
    /\ \E status \in {"completed", "failed"}
                       \cup (IF killed[r] THEN {"cancelled"} ELSE {}) :
          /\ cmd' = [cmd EXCEPT ![r].status = status]
          /\ finished' = IF status = "completed" /\ cmd[r].id = op.id
                          THEN finished \cup {r} ELSE finished
    /\ killed' = [killed EXCEPT ![r] = FALSE]
    /\ UNCHANGED <<calls, nextID, opVars, shown, dispatch>>

-----------------------------------------------------------------------------
(* monitor, for commands *)

Polled(r, status) ==
    /\ op.phase = "monitor" /\ r \in waiting
    /\ waiting' = waiting \ {r}
    /\ view' = [view EXCEPT ![r].status = status]
    /\ UNCHANGED <<agentVars, nextID, op, todo, asking, shown, dispatch>>

PollUnmatched(r) == Polled(r, cmd[r].status)

\* The machine may have gone on to the command of another ID.
PollAnswer(r) ==
    Polled(r, IF cmd[r].id = view[r].id THEN cmd[r].status ELSE "failed")

PollFails(r) == Polled(r, "failed")

SkipPoll(r) == op.cancelled /\ Polled(r, view[r].status)

Outcome ==
    IF \E r \in op.chosen : view[r].status \in {"failed", "cancelled"}
      THEN "failed" ELSE "completed"

RoundEnds ==
    /\ op.phase = "monitor" /\ waiting = {}
    /\ shown' = Stored
    /\ \/ op.cancelled /\ Cancelling
       \/ /\ ~op.cancelled
          /\ op' = IF Running(view) # {} THEN op
                   ELSE [op EXCEPT !.phase = "idle", !.status = Outcome]
          /\ waiting' = Running(view)
    /\ UNCHANGED <<agentVars, nextID, todo, asking, view, dispatch>>

\* "command.cancel": only the command with that ID is killed; a call that is
\* handled before the command it is about has arrived kills nothing.
CancelCommand(r) ==
    /\ op.phase = "cancel" /\ r \in waiting
    /\ waiting' = waiting \ {r}
    /\ killed' = [killed EXCEPT ![r] =
                     @ \/ cmd[r] = [id |-> view[r].id, status |-> "running"]]
    /\ op' = [op EXCEPT !.missed = @ \/ [to |-> r, id |-> op.id] \in calls]
    /\ UNCHANGED <<cmd, finished, calls, nextID, todo, asking, view, shown, dispatch>>

CancelFails(r) ==
    /\ op.phase = "cancel" /\ r \in waiting
    /\ waiting' = waiting \ {r}
    /\ op' = [op EXCEPT !.missed = TRUE]
    /\ UNCHANGED <<agentVars, nextID, todo, asking, view, shown, dispatch>>

CancelsDone ==
    /\ op.phase = "cancel" /\ waiting = {}
    /\ op' = [op EXCEPT !.phase = "idle", !.status = "cancelled",
                         !.cancelled = FALSE, !.chosen = {}]
    /\ view' = [r \in Receivers |-> NoCommand]
    /\ UNCHANGED <<agentVars, nextID, todo, asking, waiting, shown, dispatch>>

-----------------------------------------------------------------------------
(* The other operation's use of App.probes *)

\* dispatch copies the whole map and starts its tasks without the lock.
CopyProbes ==
    /\ ~dispatch.busy /\ dispatch.no < MaxTasks
    /\ dispatch' = [busy |-> TRUE, no |-> dispatch.no + 1, copy |-> shown]
    /\ UNCHANGED <<agentVars, nextID, opVars, shown>>

\* Of the copy only the tasks are remembered afterwards, for ProbesKept.
Tasks(m) == [r \in Receivers |-> [m[r] EXCEPT !.command = NoCommand]]

MergeWhole(S) ==
    /\ dispatch.busy
    /\ LET new == [r \in Receivers |->
                     IF r \in S THEN [dispatch.copy[r] EXCEPT !.task = dispatch.no]
                                ELSE dispatch.copy[r]]
       IN /\ dispatch' = [dispatch EXCEPT !.busy = FALSE, !.copy = Tasks(new)]
          /\ shown' = new
    /\ UNCHANGED <<agentVars, nextID, opVars>>

\* Then it writes the copy back, with the tasks of the machines it started,
\* under the Command that is there now.
MergeProbes(S) ==
    /\ dispatch.busy
    /\ LET new == [r \in Receivers |->
                     IF r \in S THEN [dispatch.copy[r] EXCEPT !.task = dispatch.no]
                                ELSE dispatch.copy[r]]
       IN /\ dispatch' = [dispatch EXCEPT !.busy = FALSE, !.copy = Tasks(new)]
          /\ shown' = [r \in Receivers |->
                          [new[r] EXCEPT !.command = shown[r].command]]
    /\ UNCHANGED <<agentVars, nextID, opVars>>

-----------------------------------------------------------------------------
OpStep ==
    \/ AskLost \/ Asked \/ RoundEnds \/ CancelsDone
    \/ \E r \in Receivers :
          \/ Ask(r) \/ AskSkipped(r)
          \/ PollAnswer(r) \/ PollFails(r) \/ SkipPoll(r)
          \/ CancelCommand(r) \/ CancelFails(r)

Next ==
    \/ \E S \in SUBSET Receivers \ {{}} : BeginCommand(S)
    \/ Cancel
    \/ OpStep
    \/ \E k \in calls : LaunchCommand(k) \/ CommandRejected(k)
    \/ \E r \in Receivers : CommandEnds(r)
    \/ CopyProbes
    \/ \E S \in SUBSET Receivers : MergeProbes(S)

Spec == Init /\ [][Next]_vars

\* Goroutines run, calls end within their deadlines, and a command has a
\* timeout of at most five minutes.
FairSpec ==
    /\ Spec
    /\ WF_vars(OpStep)
    /\ \A r \in Receivers : WF_vars(CommandEnds(r))

-----------------------------------------------------------------------------
(* Properties *)

\* Once a cancelled command operation has ended, and every cancel call came
\* through and overtook no call, the command runs on no machine: neither where
\* its start was acknowledged nor where the answer was lost.  Its process has
\* been killed or is about to be.
CancelKills ==
    op.phase = "idle" /\ op.status = "cancelled" /\ ~op.missed =>
        \A r \in Receivers :
            cmd[r].id = op.id /\ cmd[r].status = "running" => killed[r]

\* "completed" is the truth about every machine that was asked: this command,
\* not one that a late call of an earlier operation started there, ended
\* without an error.
CompletedMeansDone ==
    [][op.status = "running" /\ op'.status = "completed" =>
          op.chosen \subseteq finished]_vars

\* No update of App.probes is lost between the two operations: what either
\* learnt last stays, although dispatch writes back a copy it took before.
ProbesKept ==
    /\ TypeOK
    /\ op.phase = "idle" /\ op.status \in {"completed", "failed"} =>
           \A r \in op.chosen : shown[r].command = view[r]
    /\ ~dispatch.busy =>
           \A r \in Receivers : shown[r].task = dispatch.copy[r].task

\* A command operation ends, whatever answers are lost: the next command and
\* App.Close, which wait for it, get their turn.
CommandOpEnds == op.status = "running" ~> op.status # "running"

=============================================================================
