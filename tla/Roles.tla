-------------------------------- MODULE Roles --------------------------------
(***************************************************************************)
(* The two roles of an application (internal/webui): a sender runs a hub   *)
(* and serves a source, a receiver runs a discovery loop that keeps an     *)
(* agent connected to a sender.  An instance has one role at a time, stops *)
(* cleanly and reconnects by itself.                                       *)
(*                                                                         *)
(* Goroutines share this state: the main one (AutoStart, then Close), the  *)
(* one operation that begin admits, and the discovery loop.  What each has *)
(* still to do is a sequence of steps; a function of the code is a         *)
(* sequence, a call is a concatenation, and an error return drops the rest.*)
(***************************************************************************)
EXTENDS Naturals, FiniteSets, Sequences

CONSTANTS
    Main,      \* the main goroutine
    Op,        \* the goroutine of the operation
    Loops,     \* discovery loop goroutines; one that ended may start again
    NoLoop,
    Agents,    \* agents with a session; one that was closed may be made anew
    NoAgent,
    Early      \* may a request arrive before AutoStart has returned?

ASSUME RolesConstants ==
    /\ Main # Op /\ {Main, Op} \cap Loops = {}
    /\ NoLoop \notin Loops /\ NoAgent \notin Agents
    /\ Early \in BOOLEAN

Actor == Loops \cup {Main, Op}

VARIABLES
    todo,       \* the remaining steps of each goroutine
    cancelled,  \* the loops and operations whose context has ended
    hold,       \* local: the agent startAgent or stopRole works on
    joins,      \* local: the loop stopDiscovery waits for
    receiverMu, \* who holds it, or {}
    mode,       \* config.Mode
    hub, source, \* a.hub # nil, a.source # nil
    agent,      \* a.agent
    loop,       \* discoveryCancel and discoveryDone
    live,       \* agents whose session runs
    down,       \* agents marked disconnected
    online,     \* attempts to connect work: the lookup, the sender, the listener
    closed,     \* a.closed
    lastOp      \* the last operation admitted

locals == <<cancelled, hold, joins, receiverMu>>
senderVars == <<hub, source>>
agentVars == <<agent, live, down>>
vars == <<todo, locals, mode, senderVars, agentVars, loop, online, closed, lastOp>>

-----------------------------------------------------------------------------
(* The functions *)

StopDiscovery == <<"take", "wait">>
StartDiscovery == <<"check">> \o StopDiscovery \o <<"begin">>
StartAgent == <<"lock", "swap", "create", "register", "install">>
EnsureSender == <<"hub", "publish">>
StartSource == <<"prepare">> \o EnsureSender \o <<"serve">>
Manual == StopDiscovery \o StartAgent \o StartDiscovery

ReceiverStopLooping == <<"lock", "offline">>
ReceiverStopLockingFirst == <<"lock">> \o StopDiscovery \o <<"offline">>

\* stopRole("receiver"): the loop may hold receiverMu until it has ended.
ReceiverStop == StopDiscovery \o <<"lock", "offline">>

\* App.Close.  The distribution loop and the commands it also waits for are in
\* Dispatch and Commands.
Close == <<"close", "joinOp">> \o StopDiscovery \o <<"release">>

\* The actions of the page that change roles.
Program ==
    [reset |-> <<"reset">>, beSender |-> <<"beSender">>,
     beReceiver |-> <<"beReceiver">>, hub |-> EnsureSender,
     source |-> StartSource, discover |-> StartDiscovery, manual |-> Manual,
     stopFile |-> <<"stopFile">>, stopSender |-> <<"stopSender">>,
     stopReceiver |-> ReceiverStop]

Step ==
    {"take", "wait", "check", "begin", "lock", "swap", "create", "register",
     "install", "hub", "publish", "prepare", "serve", "offline", "reset",
     "beSender", "beReceiver", "stopFile", "stopSender", "direct", "look",
     "found", "run", "close", "joinOp", "release"}

RunningLoops == {l \in Loops : todo[l] # <<>>}
Connected == agent # NoAgent /\ agent \notin down

(***************************************************************************)
(* The one type invariant; receiverMu is held by one goroutine, which is   *)
(* in the middle of startAgent or stopRole.                                *)
(***************************************************************************)
TypeOK ==
    /\ todo \in [Actor -> Seq(Step)]
    /\ cancelled \subseteq Actor
    /\ hold \in [Actor -> Agents \cup {NoAgent}]
    /\ joins \in [Actor -> Loops \cup {NoLoop}]
    /\ receiverMu \subseteq Actor /\ Cardinality(receiverMu) <= 1
    /\ mode \in {"", "sender", "receiver"}
    /\ {hub, source, online, closed} \subseteq BOOLEAN
    /\ agent \in Agents \cup {NoAgent}
    /\ loop \in Loops \cup {NoLoop}
    /\ live \subseteq Agents /\ down \subseteq Agents
    /\ lastOp \in DOMAIN Program \cup {"none"}
    /\ \A x \in receiverMu :
          todo[x] # <<>> /\ Head(todo[x]) \in {"swap", "create", "register",
                                               "install", "offline"}

\* -mode on the command line, and what AutoStart does about it: the sender is
\* started by an operation, with -file if given, the receiver by the main
\* goroutine itself.
Init ==
    /\ mode \in {"", "sender", "receiver"}
    /\ \E file \in {<<>>, StartSource} :
          todo = [x \in Actor |->
                    IF x = Op /\ mode = "sender" THEN EnsureSender \o file
                    ELSE IF x = Main
                      THEN (IF mode = "receiver" THEN StartDiscovery ELSE <<>>)
                             \o <<"run">> \o Close
                      ELSE <<>>]
    /\ cancelled = {} /\ receiverMu = {}
    /\ hold = [x \in Actor |-> NoAgent]
    /\ joins = [x \in Actor |-> NoLoop]
    /\ hub = FALSE /\ source = FALSE
    /\ agent = NoAgent /\ live = {} /\ down = {}
    /\ loop = NoLoop
    /\ online \in BOOLEAN
    /\ closed = FALSE
    /\ lastOp = "none"

-----------------------------------------------------------------------------
At(x, step) == todo[x] # <<>> /\ Head(todo[x]) = step
Do(x, rest) == todo' = [todo EXCEPT ![x] = rest]
Next1(x) == Do(x, Tail(todo[x]))

\* An error return: the loop goes on looking, AutoStart only prints it.
Fail(x) ==
    Do(x, IF x \in Loops THEN <<"look">>
          ELSE IF x = Main THEN <<"run">> \o Close ELSE <<>>)

Unlock(x) == receiverMu' = receiverMu \ {x}

-----------------------------------------------------------------------------
(* begin, cancel *)

Begin(kind) ==
    /\ ~closed /\ todo[Op] = <<>>
    /\ Early \/ Len(todo[Main]) <= Len(<<"run">> \o Close)
    /\ Do(Op, Program[kind])
    /\ lastOp' = kind
    /\ cancelled' = cancelled \ {Op}
    /\ UNCHANGED <<hold, joins, receiverMu, mode, senderVars, agentVars, loop, online, closed>>

Cancel ==
    /\ todo[Op] # <<>> /\ Op \notin cancelled
    /\ cancelled' = cancelled \cup {Op}
    /\ UNCHANGED <<todo, hold, joins, receiverMu, mode, senderVars, agentVars, loop, online,
                   closed, lastOp>>

-----------------------------------------------------------------------------
(* startDiscovery and stopDiscovery *)

Check(x) ==
    /\ At(x, "check")
    /\ IF closed \/ mode = "sender" THEN Fail(x) ELSE Next1(x)
    /\ UNCHANGED <<locals, mode, senderVars, agentVars, loop, online, closed, lastOp>>

Take(x) ==
    /\ At(x, "take")
    /\ joins' = [joins EXCEPT ![x] = loop]
    /\ cancelled' = cancelled \cup ({loop} \ {NoLoop})
    /\ loop' = NoLoop
    /\ Next1(x)
    /\ UNCHANGED <<hold, receiverMu, mode, senderVars, agentVars, online, closed, lastOp>>

Wait(x) ==
    /\ At(x, "wait")
    /\ joins[x] \notin RunningLoops
    /\ joins' = [joins EXCEPT ![x] = NoLoop]
    /\ Next1(x)
    /\ UNCHANGED <<cancelled, hold, receiverMu, mode, senderVars, agentVars, loop, online,
                   closed, lastOp>>

\* The loop's first step tries an address given by hand, if there is one.
BeginLoop(x) ==
    /\ At(x, "begin")
    /\ IF closed THEN Fail(x) /\ UNCHANGED <<cancelled, mode, loop>>
       ELSE \E l \in Loops \ RunningLoops, first \in {"direct", "look"} :
              /\ todo' = [todo EXCEPT ![x] = Tail(@), ![l] = <<first>>]
              /\ loop' = l
              /\ cancelled' = cancelled \ {l}
              /\ mode' = "receiver"
    /\ UNCHANGED <<hold, joins, receiverMu, senderVars, agentVars, online, closed, lastOp>>

-----------------------------------------------------------------------------
(* startAgent *)

Lock(x) ==
    /\ At(x, "lock")
    /\ receiverMu = {}
    /\ receiverMu' = {x}
    /\ Next1(x)
    /\ UNCHANGED <<cancelled, hold, joins, mode, senderVars, agentVars, loop, online, closed,
                   lastOp>>

SwapKeeping(x) ==
    /\ At(x, "swap")
    /\ IF mode = "sender"
         THEN Fail(x) /\ Unlock(x) /\ UNCHANGED <<agent, live>>
         ELSE Next1(x) /\ agent' = NoAgent /\ UNCHANGED <<live, receiverMu>>
    /\ UNCHANGED <<cancelled, hold, joins, mode, senderVars, down, loop, online, closed, lastOp>>

\* The previous agent is closed, tasks and all, before anything else.
Swap(x) ==
    /\ At(x, "swap")
    /\ IF mode = "sender"
         THEN Fail(x) /\ Unlock(x) /\ UNCHANGED <<agent, live>>
         ELSE /\ Next1(x)
              /\ agent' = NoAgent
              /\ live' = live \ {agent}
              /\ UNCHANGED receiverMu
    /\ UNCHANGED <<cancelled, hold, joins, mode, senderVars, down, loop, online, closed, lastOp>>

\* The context may have ended; a lookup, the directory or the listener fail.
Create(x) ==
    /\ At(x, "create")
    /\ \/ /\ x \notin cancelled
          /\ \E r \in Agents \ live :
                /\ hold' = [hold EXCEPT ![x] = r]
                /\ live' = live \cup {r}
                /\ down' = down \ {r}
          /\ Next1(x)
          /\ UNCHANGED receiverMu
       \/ /\ x \in cancelled \/ ~online
          /\ Fail(x) /\ Unlock(x)
          /\ UNCHANGED <<hold, live, down>>
    /\ UNCHANGED <<cancelled, joins, mode, senderVars, agent, loop, online, closed, lastOp>>

\* The new agent is closed again: r.close().
Discard(x) ==
    /\ Fail(x) /\ Unlock(x)
    /\ live' = live \ {hold[x]}
    /\ hold' = [hold EXCEPT ![x] = NoAgent]

\* GetNodeStatus and PeerReg.
Register(x) ==
    /\ At(x, "register")
    /\ x \notin cancelled /\ online
    /\ Next1(x)
    /\ UNCHANGED <<locals, mode, senderVars, agentVars, loop, online, closed, lastOp>>

RegisterFails(x) ==
    /\ At(x, "register")
    /\ x \in cancelled \/ ~online
    /\ Discard(x)
    /\ UNCHANGED <<cancelled, joins, mode, senderVars, agent, down, loop, online, closed, lastOp>>

Install(x) ==
    /\ At(x, "install")
    /\ IF x \in cancelled
         THEN Discard(x) /\ UNCHANGED <<agent, mode>>
         ELSE /\ agent' = hold[x]
              /\ hold' = [hold EXCEPT ![x] = NoAgent]
              /\ mode' = "receiver"
              /\ Next1(x) /\ Unlock(x)
              /\ UNCHANGED live
    /\ UNCHANGED <<cancelled, joins, senderVars, down, loop, online, closed, lastOp>>

-----------------------------------------------------------------------------
(* discoverLoop *)

Direct(l) ==
    /\ At(l, "direct")
    /\ Do(l, IF agent = NoAgent THEN StartAgent \o <<"look">> ELSE <<"look">>)
    /\ UNCHANGED <<locals, mode, senderVars, agentVars, loop, online, closed, lastOp>>

LookBlindly(l) ==
    /\ At(l, "look")
    /\ IF l \in cancelled THEN Do(l, <<>>) /\ UNCHANGED hold
       ELSE Do(l, <<"found">>) /\ hold' = [hold EXCEPT ![l] = agent]
    /\ UNCHANGED <<cancelled, joins, receiverMu, mode, senderVars, agentVars, loop, online,
                   closed, lastOp>>

\* Is there an agent, connected?  Its settings (token, commands) are not modelled.
Look(l) ==
    /\ At(l, "look")
    /\ IF l \in cancelled THEN Do(l, <<>>) /\ UNCHANGED hold
       ELSE /\ Do(l, <<"found">>)
            /\ hold' = [hold EXCEPT ![l] = IF Connected THEN agent ELSE NoAgent]
    /\ UNCHANGED <<cancelled, joins, receiverMu, mode, senderVars, agentVars, loop, online,
                   closed, lastOp>>

\* After the lookup a connected agent has its health checked.
Healthy(l) ==
    /\ At(l, "found") /\ hold[l] # NoAgent
    /\ IF l \in cancelled THEN Do(l, <<>>) /\ UNCHANGED down
       ELSE /\ Do(l, <<"look">>)
            /\ down' = IF online THEN down ELSE down \cup {hold[l]}
    /\ hold' = [hold EXCEPT ![l] = NoAgent]
    /\ UNCHANGED <<cancelled, joins, receiverMu, mode, senderVars, agent, live, loop, online,
                   closed, lastOp>>

\* Otherwise the sender it found, if any, is connected to.
Found(l) ==
    /\ At(l, "found") /\ hold[l] = NoAgent
    /\ online /\ l \notin cancelled
    /\ Do(l, StartAgent \o <<"look">>)
    /\ UNCHANGED <<locals, mode, senderVars, agentVars, loop, online, closed, lastOp>>

NotFound(l) ==
    /\ At(l, "found") /\ hold[l] = NoAgent
    /\ l \in cancelled \/ ~online
    /\ Do(l, IF l \in cancelled THEN <<>> ELSE <<"look">>)
    /\ UNCHANGED <<locals, mode, senderVars, agentVars, loop, online, closed, lastOp>>

-----------------------------------------------------------------------------
(* The sender's side, run by the operation only *)

HubCheck ==
    /\ At(Op, "hub")
    /\ IF closed \/ mode = "receiver" THEN Fail(Op)
       ELSE Do(Op, IF hub THEN Tail(Tail(todo[Op])) ELSE Tail(todo[Op]))
    /\ UNCHANGED <<locals, mode, senderVars, agentVars, loop, online, closed, lastOp>>

\* The session is started and published; it may fail or find itself cancelled,
\* selectMode excepted, which passes a context of its own.
Publish ==
    /\ At(Op, "publish")
    /\ \/ /\ Op \notin cancelled \/ lastOp = "beSender"
          /\ hub' = TRUE /\ mode' = "sender"
          /\ Next1(Op)
       \/ Fail(Op) /\ UNCHANGED <<hub, mode>>
    /\ UNCHANGED <<locals, source, agentVars, loop, online, closed, lastOp>>

Prepare ==
    /\ At(Op, "prepare")
    /\ \/ mode # "receiver" /\ ~source /\ Next1(Op)
       \/ Fail(Op)
    /\ UNCHANGED <<locals, mode, senderVars, agentVars, loop, online, closed, lastOp>>

Serve ==
    /\ At(Op, "serve")
    /\ \/ Op \notin cancelled /\ source' = TRUE /\ mode' = "sender" /\ Next1(Op)
       \/ Fail(Op) /\ UNCHANGED <<source, mode>>
    /\ UNCHANGED <<locals, hub, agentVars, loop, online, closed, lastOp>>

StopFile ==
    /\ At(Op, "stopFile")
    /\ source' = FALSE
    /\ Next1(Op)
    /\ UNCHANGED <<locals, mode, hub, agentVars, loop, online, closed, lastOp>>

StopSender ==
    /\ At(Op, "stopSender")
    /\ hub' = FALSE /\ source' = FALSE
    /\ Next1(Op)
    /\ UNCHANGED <<locals, mode, agentVars, loop, online, closed, lastOp>>

\* The rest of stopRole("receiver"), under receiverMu.
Offline ==
    /\ At(Op, "offline")
    /\ agent' = NoAgent
    /\ live' = live \ {agent}
    /\ Next1(Op) /\ Unlock(Op)
    /\ UNCHANGED <<cancelled, hold, joins, mode, senderVars, down, loop, online, closed, lastOp>>

-----------------------------------------------------------------------------
(* selectMode *)

FreeUnlooped == ~hub /\ ~source /\ agent = NoAgent

Free == ~hub /\ ~source /\ agent = NoAgent /\ loop = NoLoop

Select(step, m, rest) ==
    /\ At(Op, step)
    /\ IF Free THEN mode' = m /\ Do(Op, rest) ELSE UNCHANGED mode /\ Fail(Op)
    /\ UNCHANGED <<locals, senderVars, agentVars, loop, online, closed, lastOp>>

SelectMode ==
    \/ Select("reset", "", <<>>)
    \/ Select("beSender", "sender", EnsureSender)
    \/ Select("beReceiver", "receiver", StartDiscovery)

-----------------------------------------------------------------------------
(* Close, when the process gets a signal *)

Signal ==
    /\ At(Main, "run")
    /\ Next1(Main)
    /\ UNCHANGED <<locals, mode, senderVars, agentVars, loop, online, closed, lastOp>>

BeginClose ==
    /\ At(Main, "close")
    /\ closed' = TRUE
    /\ cancelled' = cancelled \cup {Op}
    /\ Next1(Main)
    /\ UNCHANGED <<hold, joins, receiverMu, mode, senderVars, agentVars, loop, online, lastOp>>

JoinOp ==
    /\ At(Main, "joinOp")
    /\ todo[Op] = <<>>
    /\ Next1(Main)
    /\ UNCHANGED <<locals, mode, senderVars, agentVars, loop, online, closed, lastOp>>

Release ==
    /\ At(Main, "release")
    /\ hub' = FALSE /\ source' = FALSE
    /\ agent' = NoAgent
    /\ live' = live \ {agent}
    /\ Next1(Main)
    /\ UNCHANGED <<locals, mode, down, loop, online, closed, lastOp>>

-----------------------------------------------------------------------------
(* The network *)

\* The watched connection ends: onDown.
Disconnect ==
    /\ Connected
    /\ down' = down \cup {agent}
    /\ UNCHANGED <<todo, locals, mode, senderVars, agent, live, loop, online, closed, lastOp>>

SenderComesOrGoes ==
    /\ online' = ~online
    /\ UNCHANGED <<todo, locals, mode, senderVars, agentVars, loop, closed, lastOp>>

-----------------------------------------------------------------------------
Discovery(x) == Check(x) \/ Take(x) \/ Wait(x) \/ BeginLoop(x)
Connect(x) ==
    \/ Lock(x) \/ Swap(x) \/ Create(x)
    \/ Register(x) \/ RegisterFails(x) \/ Install(x)
LoopStep(l) ==
    Direct(l) \/ Look(l) \/ Healthy(l) \/ Found(l) \/ NotFound(l) \/ Connect(l)
OpStep ==
    \/ Discovery(Op) \/ Connect(Op) \/ SelectMode
    \/ HubCheck \/ Publish \/ Prepare \/ Serve \/ StopFile \/ StopSender \/ Offline
MainStep == Discovery(Main) \/ BeginClose \/ JoinOp \/ Release

Next ==
    \/ \E kind \in DOMAIN Program : Begin(kind)
    \/ Cancel \/ Signal \/ Disconnect \/ SenderComesOrGoes
    \/ OpStep \/ MainStep
    \/ \E l \in Loops : LoopStep(l)

Spec == Init /\ [][Next]_vars

\* Goroutines run and every call ends, within its deadline at the latest.
FairSpec ==
    /\ Spec
    /\ WF_vars(OpStep) /\ WF_vars(MainStep)
    /\ \A l \in Loops : WF_vars(LoopStep(l))

-----------------------------------------------------------------------------
(* Properties *)

\* "Each instance has one role": while a hub or a source exists no agent runs
\* and no discovery loop can make one, although the checks of config.Mode and
\* what follows from them are apart.
ModesExclusive == hub \/ source => live = {} /\ RunningLoops = {}

\* "startDiscovery owns one continuous discovery loop per receiver instance",
\* and that loop one agent: at most one agent runs, and somebody is there to
\* close it, since it is a.agent, or the goroutine in startAgent that made it
\* has not finished.
OneReceiver ==
    /\ TypeOK
    /\ Cardinality(RunningLoops) <= 1
    /\ Cardinality(live) <= 1
    /\ \A r \in live : r = agent \/ \E x \in receiverMu : hold[x] = r

\* "End the task and go offline" closes the loop, the connections and the
\* seeding session, whatever the loop was doing, until the next operation; and
\* when Close has returned nothing is left running.
StopsAreClean ==
    /\ lastOp = "stopReceiver" /\ todo[Op] = <<>> =>
          live = {} /\ RunningLoops = {}
    /\ todo[Main] = <<>> =>
          ~hub /\ ~source /\ live = {} /\ RunningLoops = {} /\ todo[Op] = <<>>

\* No operation waits for a loop that waits for the operation, and so none
\* keeps the application busy or Close from returning.
OpEnds == /\ todo[Op] # <<>> ~> todo[Op] = <<>>
          /\ closed ~> todo[Main] = <<>>

\* "Connects when a sender comes online, reconnects after it was lost": while
\* a loop stays and a sender is there, the agent is connected again and again.
Reconnects ==
    <>[](online /\ loop # NoLoop) => []<>Connected

=============================================================================
