----------------------------- MODULE RolesProofs -----------------------------
(***************************************************************************)
(* Proofs about the roles of an application for any number of discovery    *)
(* loops and agents, when no request arrives before AutoStart has          *)
(* returned.  The argument is that one goroutine at a time, the operation  *)
(* or main, may end and begin loops; that it begins one only behind a wait *)
(* for the previous one; and that whoever has receiverMu owns the agents.  *)
(* What a goroutine owes is read off the next few of its remaining steps.  *)
(***************************************************************************)
EXTENDS Roles, FiniteSetTheorems, SequenceTheorems, TLAPS

\* The i-th of the remaining steps, or "end".
Nth(t, i) == IF i <= Len(t) THEN t[i] ELSE "end"
Ahead(x, i) == Nth(todo[x], i)

\* Which step may follow which, in the operation and in the loops.
Shape(t) ==
    \A i \in 1 .. Len(t) :
        /\ t[i] = "check" => /\ Nth(t, i + 1) = "take" /\ Nth(t, i + 2) = "wait"
                             /\ Nth(t, i + 3) = "begin"
        /\ t[i] = "take" => Nth(t, i + 1) = "wait"
        /\ t[i] = "wait" => Nth(t, i + 1) \in {"begin", "lock"}
        /\ t[i] = "lock" => Nth(t, i + 1) \in {"swap", "offline"}
        /\ t[i] = "swap" => Nth(t, i + 1) = "create"
        /\ t[i] = "create" => Nth(t, i + 1) = "register"
        /\ t[i] = "register" => Nth(t, i + 1) = "install"
        /\ t[i] = "install" => Nth(t, i + 1) \in {"check", "look"}
        /\ t[i] = "prepare" => Nth(t, i + 1) = "hub"
        /\ t[i] = "hub" => /\ Nth(t, i + 1) = "publish"
                           /\ Nth(t, i + 2) \in {"prepare", "serve", "end"}
        /\ t[i] = "publish" => Nth(t, i + 1) \in {"prepare", "serve", "end"}
        /\ t[i] \in {"begin", "offline", "serve", "reset", "beSender", "beReceiver",
                     "stopFile", "stopSender", "direct", "look", "found"} =>
               Nth(t, i + 1) = "end"

Connecting == {"lock", "swap", "create", "register", "install"}
LoopSteps == Connecting \cup {"direct", "look", "found"}
OpSteps == Connecting \cup
    {"take", "wait", "check", "begin", "hub", "publish", "prepare", "serve", "offline",
     "reset", "beSender", "beReceiver", "stopFile", "stopSender"}

\* What may remain for a goroutine that takes the steps S.
Rest(t, S) == t \in Seq(S) /\ Shape(t)

\* All that main has to do, and where it is: on the way through AutoStart, in
\* between, or in the part of Close behind the join of the operation.
Course == <<"check", "take", "wait", "begin", "run", "close", "joinOp", "take", "wait", "release">>
OnCourse(t) == Len(t) <= 10 /\ \A i \in 1 .. Len(t) : t[i] = Course[10 - Len(t) + i]
Left == Len(todo[Main])
Places ==
    /\ OnCourse(todo[Main])
    /\ Rest(todo[Op], OpSteps)
    /\ \A l \in Loops : Rest(todo[l], LoopSteps)

\* Main and the operation take turns.
Turns ==
    /\ Left > 6 => todo[Op] = <<>> /\ lastOp = "none" /\ mode = "receiver"
    /\ Left < 5 => closed
    /\ Left < 4 => todo[Op] = <<>>

Drivers == {Main, Op}

\* The loop behind a driver's stopDiscovery is gone, and no other has begun.
Unlooped(x) ==
    Ahead(x, 1) \in {"begin", "offline", "release"} \cup Connecting

\* A loop that runs is a.loop, or being waited for and told to end.
LoopsOwned ==
    /\ \A x \in Drivers : Ahead(x, 1) = "wait" \/ Unlooped(x) => loop = NoLoop
    /\ \A l \in RunningLoops :
          \/ l = loop
          \/ l \in cancelled /\ \E x \in Drivers : Ahead(x, 1) = "wait" /\ joins[x] = l

\* receiverMu is held from "lock" to the end of its section, and its holder has
\* the agents: none before it has made one, then that one only.
AgentsOwned ==
    /\ \A x, y \in receiverMu : x = y
    /\ \A x \in Actor : x \in receiverMu <=>
          Ahead(x, 1) \in {"swap", "create", "register", "install", "offline"}
    /\ \/ live \subseteq {agent}
       \/ \E x \in receiverMu : Ahead(x, 1) \in {"register", "install"}
    /\ \A x \in receiverMu :
          /\ Ahead(x, 1) = "create" => live = {} /\ agent = NoAgent
          /\ Ahead(x, 1) \in {"register", "install"} => live = {hold[x]} /\ agent = NoAgent

\* What startDiscovery has found out at check: it is about to begin a loop.
Checked(x) ==
    \/ Ahead(x, 1) = "take" /\ Ahead(x, 3) = "begin"
    \/ Ahead(x, 1) = "wait" /\ Ahead(x, 2) = "begin"
    \/ Ahead(x, 1) = "begin"

\* config.Mode agrees with what runs, and with what has been checked.
ModeKept ==
    /\ hub \/ source => mode = "sender"
    /\ mode # "receiver" => RunningLoops = {}
    /\ live # {} /\ mode # "receiver" =>
          mode = "" /\ Ahead(Op, 1) \in {"register", "install"}
    /\ Checked(Op) \/ Ahead(Op, 1) \in {"create", "register", "install"} => mode # "sender"
    /\ Ahead(Op, 1) = "publish" => mode # "receiver"
    /\ Ahead(Op, 1) = "serve" => mode = "sender"

\* Going offline has no way out but its last step.
Stopping ==
    lastOp = "stopReceiver" =>
        \A i \in 1 .. Len(todo[Op]) : todo[Op][i] \in {"take", "wait", "lock", "offline"}

\* The part of the type invariant that each step keeps by itself; the rest of
\* it follows from AgentsOwned.
Types ==
    /\ todo \in [Actor -> Seq(Step)]
    /\ cancelled \subseteq Actor
    /\ hold \in [Actor -> Agents \cup {NoAgent}]
    /\ joins \in [Actor -> Loops \cup {NoLoop}]
    /\ receiverMu \subseteq Actor
    /\ mode \in {"", "sender", "receiver"}
    /\ {hub, source, online, closed} \subseteq BOOLEAN
    /\ agent \in Agents \cup {NoAgent}
    /\ loop \in Loops \cup {NoLoop}
    /\ live \subseteq Agents /\ down \subseteq Agents
    /\ lastOp \in DOMAIN Program \cup {"none"}

IInv ==
    /\ Types /\ Places /\ Turns /\ LoopsOwned /\ AgentsOwned /\ ModeKept
    /\ Stopping /\ StopsAreClean

-----------------------------------------------------------------------------
(* Remaining steps *)

\* Looking ahead in a sequence, and in what is left behind its first step.
LEMMA NthTail ==
    ASSUME NEW t \in Seq(Step)
    PROVE  /\ Nth(t, 1) = "end" <=> t = <<>>
           /\ t # <<>> => /\ Nth(t, 1) = Head(t) /\ Tail(t) \in Seq(Step)
                          /\ Len(Tail(t)) = Len(t) - 1
                          /\ \A i \in Nat \ {0} : Nth(Tail(t), i) = Nth(t, i + 1)
<1>1. Len(t) \in Nat /\ (t = <<>> <=> Len(t) = 0) /\ \A i \in 1 .. Len(t) : t[i] \in Step
  OBVIOUS
<1>2. "end" \notin Step
  BY DEF Step
<1>3. Nth(t, 1) = "end" <=> t = <<>>
  BY <1>1, <1>2 DEF Nth
<1>4. ASSUME t # <<>>
      PROVE  /\ Nth(t, 1) = Head(t) /\ Tail(t) \in Seq(Step) /\ Len(Tail(t)) = Len(t) - 1
             /\ \A i \in Nat \ {0} : Nth(Tail(t), i) = Nth(t, i + 1)
  <2>1. /\ Head(t) = t[1] /\ Tail(t) \in Seq(Step) /\ Len(Tail(t)) = Len(t) - 1
        /\ \A i \in 1 .. Len(t) - 1 : Tail(t)[i] = t[i + 1]
    BY <1>4, HeadTailProperties
  <2>. QED BY <1>1, <1>4, <2>1 DEF Nth
<1>. QED BY <1>3, <1>4

\* What follows what is a property of every rest.
LEMMA ShapeTail ==
    ASSUME NEW t \in Seq(Step), t # <<>>, Shape(t)
    PROVE  Shape(Tail(t))
<1>1. /\ Len(t) \in Nat /\ Len(Tail(t)) = Len(t) - 1
      /\ \A i \in Nat \ {0} : Nth(Tail(t), i) = Nth(t, i + 1)
  BY NthTail
<1>2. ASSUME NEW i \in 1 .. Len(Tail(t))
      PROVE  /\ i + 1 \in 1 .. Len(t) /\ Tail(t)[i] = t[i + 1]
             /\ Nth(Tail(t), i + 1) = Nth(t, i + 2) /\ Nth(Tail(t), i + 2) = Nth(t, i + 3)
             /\ Nth(Tail(t), i + 3) = Nth(t, i + 4)
             /\ i + 1 + 1 = i + 2 /\ i + 1 + 2 = i + 3 /\ i + 1 + 3 = i + 4
  BY <1>1 DEF Nth
<1>. QED BY <1>2 DEF Shape

\* Concatenation of sequences that are spelled out.
Glues(s, u, w) ==
    /\ s \in Seq(Step) /\ u \in Seq(Step) /\ w \in Seq(Step)
    /\ Len(w) = Len(s) + Len(u)
    /\ \A i \in 1 .. Len(s) : w[i] = s[i]
    /\ \A i \in 1 .. Len(u) : w[Len(s) + i] = u[i]

\* Such sequences are equal when they agree at every place.
LEMMA Glue ==
    ASSUME NEW s, NEW u, NEW w, Glues(s, u, w)
    PROVE  s \o u = w
<1>1. /\ s \in Seq(Step) /\ u \in Seq(Step) /\ w \in Seq(Step)
      /\ Len(s) \in Nat /\ Len(u) \in Nat
  BY DEF Glues
<1>2. /\ s \o u \in Seq(Step) /\ Len(s \o u) = Len(s) + Len(u)
      /\ \A i \in 1 .. Len(s) + Len(u) :
            (s \o u)[i] = IF i <= Len(s) THEN s[i] ELSE u[i - Len(s)]
  BY <1>1, ConcatProperties
<1>3. ASSUME NEW i \in 1 .. Len(w) PROVE (s \o u)[i] = w[i]
  <2>1. CASE i <= Len(s)
    BY <1>1, <1>2, <2>1 DEF Glues
  <2>2. CASE ~(i <= Len(s))
    <3>1. i - Len(s) \in 1 .. Len(u) /\ Len(s) + (i - Len(s)) = i
      BY <1>1, <2>2 DEF Glues
    <3>. QED BY <1>1, <1>2, <2>2, <3>1 DEF Glues
  <2>. QED BY <2>1, <2>2
<1>. QED BY <1>1, <1>2, <1>3, SeqEqual DEF Glues

\* The functions, spelled out.
LEMMA Spelled ==
    /\ StartDiscovery = <<"check", "take", "wait", "begin">>
    /\ Manual = <<"take", "wait", "lock", "swap", "create", "register", "install",
                "check", "take", "wait", "begin">>
    /\ ReceiverStop = <<"take", "wait", "lock", "offline">>
    /\ StartSource = <<"prepare", "hub", "publish", "serve">>
    /\ EnsureSender = <<"hub", "publish">>
    /\ EnsureSender \o <<>> = <<"hub", "publish">>
    /\ EnsureSender \o StartSource = <<"hub", "publish", "prepare", "hub", "publish", "serve">>
    /\ StartAgent \o <<"look">> = <<"lock", "swap", "create", "register", "install", "look">>
    /\ <<"run">> \o Close = <<"run", "close", "joinOp", "take", "wait", "release">>
    /\ <<>> \o <<"run">> \o Close = <<"run", "close", "joinOp", "take", "wait", "release">>
    /\ StartDiscovery \o <<"run">> \o Close = Course
<1>1. <<"check">> \o <<"take", "wait">> =
        <<"check", "take", "wait">>
  <2>1. Glues(<<"check">>, <<"take", "wait">>,
              <<"check", "take", "wait">>)
    BY DEF Glues, Step
  <2>. QED BY <2>1, Glue, Zenon
<1>2. <<"check", "take", "wait">> \o <<"begin">> =
        <<"check", "take", "wait", "begin">>
  <2>1. Glues(<<"check", "take", "wait">>, <<"begin">>,
              <<"check", "take", "wait", "begin">>)
    BY DEF Glues, Step
  <2>. QED BY <2>1, Glue, Zenon
<1>3. <<"take", "wait">> \o <<"lock", "swap", "create", "register", "install">> =
        <<"take", "wait", "lock", "swap", "create", "register", "install">>
  <2>1. Glues(<<"take", "wait">>, <<"lock", "swap", "create", "register", "install">>,
              <<"take", "wait", "lock", "swap", "create", "register", "install">>)
    BY DEF Glues, Step
  <2>. QED BY <2>1, Glue, Zenon
<1>4. <<"take", "wait", "lock", "swap", "create", "register", "install">>
        \o <<"check", "take", "wait", "begin">> =
        <<"take", "wait", "lock", "swap", "create", "register", "install",
          "check", "take", "wait", "begin">>
  <2>1. Glues(<<"take", "wait", "lock", "swap", "create", "register", "install">>,
              <<"check", "take", "wait", "begin">>,
              <<"take", "wait", "lock", "swap", "create", "register", "install",
                "check", "take", "wait", "begin">>)
    BY DEF Glues, Step
  <2>. QED BY <2>1, Glue, Zenon
<1>5. <<"take", "wait">> \o <<"lock", "offline">> =
        <<"take", "wait", "lock", "offline">>
  <2>1. Glues(<<"take", "wait">>, <<"lock", "offline">>,
              <<"take", "wait", "lock", "offline">>)
    BY DEF Glues, Step
  <2>. QED BY <2>1, Glue, Zenon
<1>6. <<"prepare">> \o <<"hub", "publish">> =
        <<"prepare", "hub", "publish">>
  <2>1. Glues(<<"prepare">>, <<"hub", "publish">>,
              <<"prepare", "hub", "publish">>)
    BY DEF Glues, Step
  <2>. QED BY <2>1, Glue, Zenon
<1>7. <<"prepare", "hub", "publish">> \o <<"serve">> =
        <<"prepare", "hub", "publish", "serve">>
  <2>1. Glues(<<"prepare", "hub", "publish">>, <<"serve">>,
              <<"prepare", "hub", "publish", "serve">>)
    BY DEF Glues, Step
  <2>. QED BY <2>1, Glue, Zenon
<1>8. <<"hub", "publish">> \o <<>> =
        <<"hub", "publish">>
  <2>1. Glues(<<"hub", "publish">>, <<>>,
              <<"hub", "publish">>)
    BY DEF Glues, Step
  <2>. QED BY <2>1, Glue, Zenon
<1>9. <<"hub", "publish">> \o <<"prepare", "hub", "publish", "serve">> =
        <<"hub", "publish", "prepare", "hub", "publish", "serve">>
  <2>1. Glues(<<"hub", "publish">>, <<"prepare", "hub", "publish", "serve">>,
              <<"hub", "publish", "prepare", "hub", "publish", "serve">>)
    BY DEF Glues, Step
  <2>. QED BY <2>1, Glue, Zenon
<1>10. <<"lock", "swap", "create", "register", "install">> \o <<"look">> =
        <<"lock", "swap", "create", "register", "install", "look">>
  <2>1. Glues(<<"lock", "swap", "create", "register", "install">>, <<"look">>,
              <<"lock", "swap", "create", "register", "install", "look">>)
    BY DEF Glues, Step
  <2>. QED BY <2>1, Glue, Zenon
<1>11. <<"close", "joinOp">> \o <<"take", "wait">> =
        <<"close", "joinOp", "take", "wait">>
  <2>1. Glues(<<"close", "joinOp">>, <<"take", "wait">>,
              <<"close", "joinOp", "take", "wait">>)
    BY DEF Glues, Step
  <2>. QED BY <2>1, Glue, Zenon
<1>12. <<"close", "joinOp", "take", "wait">> \o <<"release">> =
        <<"close", "joinOp", "take", "wait", "release">>
  <2>1. Glues(<<"close", "joinOp", "take", "wait">>, <<"release">>,
              <<"close", "joinOp", "take", "wait", "release">>)
    BY DEF Glues, Step
  <2>. QED BY <2>1, Glue, Zenon
<1>13. <<"run">> \o <<"close", "joinOp", "take", "wait", "release">> =
        <<"run", "close", "joinOp", "take", "wait", "release">>
  <2>1. Glues(<<"run">>, <<"close", "joinOp", "take", "wait", "release">>,
              <<"run", "close", "joinOp", "take", "wait", "release">>)
    BY DEF Glues, Step
  <2>. QED BY <2>1, Glue, Zenon
<1>14. <<"check", "take", "wait", "begin">> \o <<"run">> =
        <<"check", "take", "wait", "begin", "run">>
  <2>1. Glues(<<"check", "take", "wait", "begin">>, <<"run">>,
              <<"check", "take", "wait", "begin", "run">>)
    BY DEF Glues, Step
  <2>. QED BY <2>1, Glue, Zenon
<1>15. <<"check", "take", "wait", "begin", "run">>
        \o <<"close", "joinOp", "take", "wait", "release">> =
        <<"check", "take", "wait", "begin", "run", "close", "joinOp", "take", "wait", "release">>
  <2>1. Glues(<<"check", "take", "wait", "begin", "run">>,
              <<"close", "joinOp", "take", "wait", "release">>,
              <<"check", "take", "wait", "begin", "run",
                "close", "joinOp", "take", "wait", "release">>)
    BY DEF Glues, Step
  <2>. QED BY <2>1, Glue, Zenon
<1>16. <<>> \o <<"run">> =
        <<"run">>
  <2>1. Glues(<<>>, <<"run">>,
              <<"run">>)
    BY DEF Glues, Step
  <2>. QED BY <2>1, Glue, Zenon
<1>. QED
  BY <1>1, <1>2, <1>3, <1>4, <1>5, <1>6, <1>7, <1>8, <1>9, <1>10,
     <1>11, <1>12, <1>13, <1>14, <1>15, <1>16, Zenon
     DEF StartDiscovery, StopDiscovery, Manual, ReceiverStop, StartSource,
         EnsureSender, StartAgent, Close, Course

\* What they leave to be done has the shape, from the start and at every step.
LEMMA Starts ==
    /\ \A t \in {<<>>, <<"direct">>, <<"look">>, <<"found">>, StartAgent \o <<"look">>} :
          Rest(t, LoopSteps)
    /\ \A t \in {<<>>, StartDiscovery, EnsureSender, EnsureSender \o <<>>,
                 EnsureSender \o StartSource} : Rest(t, OpSteps)
    /\ \A kind \in DOMAIN Program : Rest(Program[kind], OpSteps) /\ Program[kind] # <<>>
<1>1. /\ Rest(<<>>, LoopSteps) /\ Rest(<<"direct">>, LoopSteps) /\ Rest(<<"look">>, LoopSteps)
      /\ Rest(<<"found">>, LoopSteps)
  BY DEF Rest, Shape, Nth, LoopSteps
<1>2. Rest(StartAgent \o <<"look">>, LoopSteps)
  <2>1. Rest(<<"lock", "swap", "create", "register", "install", "look">>, LoopSteps)
    BY DEF Rest, Shape, Nth, LoopSteps, Connecting
  <2>. QED BY <2>1, Spelled, Zenon
<1>3. /\ Rest(<<>>, OpSteps) /\ Rest(<<"reset">>, OpSteps) /\ Rest(<<"beSender">>, OpSteps)
      /\ Rest(<<"beReceiver">>, OpSteps) /\ Rest(<<"stopFile">>, OpSteps)
      /\ Rest(<<"stopSender">>, OpSteps)
  BY DEF Rest, Shape, Nth, OpSteps
<1>4. Rest(StartDiscovery, OpSteps)
  <2>1. Rest(<<"check", "take", "wait", "begin">>, OpSteps)
    BY DEF Rest, Shape, Nth, OpSteps
  <2>. QED BY <2>1, Spelled, Zenon
<1>5. Rest(EnsureSender, OpSteps) /\ Rest(EnsureSender \o <<>>, OpSteps)
  <2>1. Rest(<<"hub", "publish">>, OpSteps)
    BY DEF Rest, Shape, Nth, OpSteps
  <2>. QED BY <2>1, Spelled, Zenon
<1>6. Rest(StartSource, OpSteps)
  <2>1. Rest(<<"prepare", "hub", "publish", "serve">>, OpSteps)
    BY DEF Rest, Shape, Nth, OpSteps
  <2>. QED BY <2>1, Spelled, Zenon
<1>7. Rest(EnsureSender \o StartSource, OpSteps)
  <2>1. Rest(<<"hub", "publish", "prepare", "hub", "publish", "serve">>, OpSteps)
    BY DEF Rest, Shape, Nth, OpSteps
  <2>. QED BY <2>1, Spelled, Zenon
<1>8. Rest(Manual, OpSteps)
  <2>1. Rest(<<"take", "wait", "lock", "swap", "create", "register", "install",
               "check", "take", "wait", "begin">>, OpSteps)
    BY DEF Rest, Shape, Nth, OpSteps, Connecting
  <2>. QED BY <2>1, Spelled, Zenon
<1>9. Rest(ReceiverStop, OpSteps)
  <2>1. Rest(<<"take", "wait", "lock", "offline">>, OpSteps)
    BY DEF Rest, Shape, Nth, OpSteps, Connecting
  <2>. QED BY <2>1, Spelled, Zenon
<1>10. ASSUME NEW kind \in DOMAIN Program
       PROVE  Program[kind] \in {<<"reset">>, <<"beSender">>, <<"beReceiver">>, EnsureSender,
                                 StartSource, StartDiscovery, Manual, <<"stopFile">>,
                                 <<"stopSender">>, ReceiverStop}
  BY DEF Program
<1>11. /\ EnsureSender # <<>> /\ StartSource # <<>> /\ StartDiscovery # <<>>
       /\ Manual # <<>> /\ ReceiverStop # <<>>
  BY Spelled
<1>. QED
  BY <1>1, <1>2, <1>3, <1>4, <1>5, <1>6, <1>7, <1>8, <1>9, <1>10, <1>11

-----------------------------------------------------------------------------
(* Looking ahead *)

\* What the first of the remaining steps says about the next ones.
Follows(a, b, c, d) ==
    /\ a = "check" => b = "take" /\ c = "wait" /\ d = "begin"
    /\ a = "take" => b = "wait"
    /\ a = "wait" => b \in {"begin", "lock"}
    /\ a = "lock" => b \in {"swap", "offline"}
    /\ a = "swap" => b = "create"
    /\ a = "create" => b = "register"
    /\ a = "register" => b = "install"
    /\ a = "install" => b \in {"check", "look"}
    /\ a = "prepare" => b = "hub"
    /\ a = "hub" => b = "publish" /\ c \in {"prepare", "serve", "end"}
    /\ a = "publish" => b \in {"prepare", "serve", "end"}
    /\ a \in {"begin", "offline", "serve", "reset", "beSender", "beReceiver",
              "stopFile", "stopSender", "direct", "look", "found"} => b = "end"

\* The shape, at the first step.
LEMMA FirstFollows ==
    ASSUME NEW S, NEW t, S \subseteq Step, Rest(t, S), t # <<>>
    PROVE  /\ Follows(Nth(t, 1), Nth(t, 2), Nth(t, 3), Nth(t, 4))
           /\ Nth(t, 1) \in S
           /\ t \in Seq(Step)
<1>1. Len(t) \in Nat \ {0} /\ t \in Seq(S) /\ Shape(t)
  BY DEF Rest
<1>2. 1 \in 1 .. Len(t) /\ Nth(t, 1) = t[1] /\ t[1] \in S
  BY <1>1 DEF Nth
<1>3. Follows(t[1], Nth(t, 1 + 1), Nth(t, 1 + 2), Nth(t, 1 + 3))
  BY <1>1, <1>2 DEF Shape, Follows
<1>4. t \in Seq(Step)
  BY <1>1, <1>2
<1>. QED BY <1>2, <1>3, <1>4

\* What remains behind a step has the shape again.
LEMMA RestTail ==
    ASSUME NEW S, NEW t, S \subseteq Step, Rest(t, S), t # <<>>
    PROVE  Rest(Tail(t), S)
<1>1. t \in Seq(S) /\ t \in Seq(Step) /\ Shape(t)
  BY FirstFollows DEF Rest
<1>2. Tail(t) \in Seq(S)
  BY <1>1, HeadTailProperties
<1>. QED BY <1>1, <1>2, ShapeTail DEF Rest

\* All of these are steps, and "end" is none.
LEMMA StepSets == LoopSteps \subseteq Step /\ OpSteps \subseteq Step /\ "end" \notin Step
BY DEF LoopSteps, OpSteps, Connecting, Step

\* The steps of the operation and of the loops.
LEMMA OpAhead ==
    ASSUME Types, Places
    PROVE  /\ Ahead(Op, 1) = "end" <=> todo[Op] = <<>>
           /\ Ahead(Op, 1) \in OpSteps \cup {"end"}
           /\ todo[Op] # <<>> => Follows(Ahead(Op, 1), Ahead(Op, 2), Ahead(Op, 3), Ahead(Op, 4))
<1>1. todo[Op] \in Seq(Step) /\ Rest(todo[Op], OpSteps)
  BY DEF Types, Places, Actor
<1>. QED BY <1>1, NthTail, FirstFollows, StepSets DEF Ahead

\* The same for a loop.
LEMMA LoopAhead ==
    ASSUME Types, Places, NEW l \in Loops
    PROVE  /\ Ahead(l, 1) = "end" <=> todo[l] = <<>>
           /\ Ahead(l, 1) \in LoopSteps \cup {"end"}
           /\ todo[l] # <<>> => Follows(Ahead(l, 1), Ahead(l, 2), Ahead(l, 3), Ahead(l, 4))
<1>1. todo[l] \in Seq(Step) /\ Rest(todo[l], LoopSteps)
  BY DEF Types, Places, Actor
<1>. QED BY <1>1, NthTail, FirstFollows, StepSets DEF Ahead

\* The two beginnings of main.
LEMMA CourseProperties ==
    /\ Course \in Seq(Step) /\ OnCourse(Course) /\ Len(Course) = 10
    /\ <<"run", "close", "joinOp", "take", "wait", "release">> \in Seq(Step)
    /\ OnCourse(<<"run", "close", "joinOp", "take", "wait", "release">>)
    /\ Len(<<"run", "close", "joinOp", "take", "wait", "release">>) = 6
<1>1. /\ Course \in Seq(Step) /\ Len(Course) = 10
      /\ <<"run", "close", "joinOp", "take", "wait", "release">> \in Seq(Step)
      /\ Len(<<"run", "close", "joinOp", "take", "wait", "release">>) = 6
  BY DEF Course, Step
<1>2. OnCourse(Course)
  <2>1. \A i \in 1 .. 10 : Course[i] = Course[10 - 10 + i]
    OBVIOUS
  <2>. QED BY <1>1, <2>1 DEF OnCourse
<1>3. OnCourse(<<"run", "close", "joinOp", "take", "wait", "release">>)
  BY DEF OnCourse, Course
<1>. QED BY <1>1, <1>2, <1>3, Zenon

\* Where main is, by how much it has left.
LEMMA MainSteps ==
    ASSUME NEW t \in Seq(Step), OnCourse(t)
    PROVE  /\ Len(t) \in 0 .. 10
           /\ Nth(t, 1) = "end" <=> t = <<>>
           /\ Nth(t, 1) = "end" <=> Len(t) = 0
           /\ Nth(t, 1) = "check" <=> Len(t) = 10
           /\ Nth(t, 1) = "take" <=> Len(t) \in {9, 3}
           /\ Nth(t, 1) = "wait" <=> Len(t) \in {8, 2}
           /\ Nth(t, 1) = "begin" <=> Len(t) = 7
           /\ Nth(t, 1) = "run" <=> Len(t) = 6
           /\ Nth(t, 1) = "close" <=> Len(t) = 5
           /\ Nth(t, 1) = "joinOp" <=> Len(t) = 4
           /\ Nth(t, 1) = "release" <=> Len(t) = 1
<1>1. Len(t) \in 0 .. 10
  <2>1. Len(t) \in Nat
    OBVIOUS
  <2>2. Len(t) <= 10
    BY DEF OnCourse
  <2>3. \A n \in Nat : n <= 10 => n \in 0 .. 10
    OBVIOUS
  <2>. QED BY <2>1, <2>2, <2>3, Zenon
<1>2. Nth(t, 1) = "end" <=> t = <<>>
  BY NthTail
<1>3. /\ Course[1] = "check" /\ Course[2] = "take" /\ Course[3] = "wait" /\ Course[4] = "begin"
      /\ Course[5] = "run" /\ Course[6] = "close" /\ Course[7] = "joinOp"
      /\ Course[8] = "take" /\ Course[9] = "wait" /\ Course[10] = "release"
  BY DEF Course
<1>4. Len(t) = 0 => Nth(t, 1) = "end"
  BY DEF Nth
<1>5. Len(t) > 0 => Nth(t, 1) = Course[11 - Len(t)]
  <2>1. ASSUME Len(t) > 0 PROVE 1 \in 1 .. Len(t) /\ 10 - Len(t) + 1 = 11 - Len(t)
    BY <1>1, <2>1
  <2>2. Len(t) > 0 => Nth(t, 1) = t[1]
    BY <1>1 DEF Nth
  <2>. QED BY <1>1, <2>1, <2>2 DEF OnCourse
<1>6. PICK n : n = Len(t)
  OBVIOUS
<1>7. /\ n \in 0 .. 10 /\ (n = 0 => Nth(t, 1) = "end") /\ (n > 0 => Nth(t, 1) = Course[11 - n])
  BY <1>1, <1>4, <1>5, <1>6
<1>8. \/ n = 0 \/ n = 1 \/ n = 2 \/ n = 3 \/ n = 4 \/ n = 5 \/ n = 6 \/ n = 7 \/ n = 8
      \/ n = 9 \/ n = 10
  BY <1>7
<1>9. /\ 11 - 1 = 10 /\ 11 - 2 = 9 /\ 11 - 3 = 8 /\ 11 - 4 = 7 /\ 11 - 5 = 6
      /\ 11 - 6 = 5 /\ 11 - 7 = 4 /\ 11 - 8 = 3 /\ 11 - 9 = 2 /\ 11 - 10 = 1
  OBVIOUS
<1>10. /\ Nth(t, 1) = "end" <=> n = 0
       /\ Nth(t, 1) = "check" <=> n = 10
       /\ Nth(t, 1) = "take" <=> n \in {9, 3}
       /\ Nth(t, 1) = "wait" <=> n \in {8, 2}
       /\ Nth(t, 1) = "begin" <=> n = 7
       /\ Nth(t, 1) = "run" <=> n = 6
       /\ Nth(t, 1) = "close" <=> n = 5
       /\ Nth(t, 1) = "joinOp" <=> n = 4
       /\ Nth(t, 1) = "release" <=> n = 1
  BY ONLY <1>3, <1>7, <1>8, <1>9
<1>. QED BY <1>1, <1>2, <1>6, <1>10

\* The same in the present state.
LEMMA MainAhead ==
    ASSUME Types, Places
    PROVE  /\ Left \in 0 .. 10
           /\ Ahead(Main, 1) = "end" <=> todo[Main] = <<>>
           /\ Ahead(Main, 1) = "end" <=> Left = 0
           /\ Ahead(Main, 1) = "check" <=> Left = 10
           /\ Ahead(Main, 1) = "take" <=> Left \in {9, 3}
           /\ Ahead(Main, 1) = "wait" <=> Left \in {8, 2}
           /\ Ahead(Main, 1) = "begin" <=> Left = 7
           /\ Ahead(Main, 1) = "run" <=> Left = 6
           /\ Ahead(Main, 1) = "close" <=> Left = 5
           /\ Ahead(Main, 1) = "joinOp" <=> Left = 4
           /\ Ahead(Main, 1) = "release" <=> Left = 1
<1>1. todo[Main] \in Seq(Step)
  BY DEF Types, Actor
<1>. QED BY <1>1, MainSteps DEF Ahead, Left, Places

\* The same after a step.
LEMMA MainNext ==
    ASSUME todo' \in [Actor -> Seq(Step)], Places'
    PROVE  /\ Left' \in 0 .. 10
           /\ Nth(todo'[Main], 1) = "end" <=> todo'[Main] = <<>>
           /\ Nth(todo'[Main], 1) = "end" <=> Left' = 0
           /\ Nth(todo'[Main], 1) = "check" <=> Left' = 10
           /\ Nth(todo'[Main], 1) = "take" <=> Left' \in {9, 3}
           /\ Nth(todo'[Main], 1) = "wait" <=> Left' \in {8, 2}
           /\ Nth(todo'[Main], 1) = "begin" <=> Left' = 7
           /\ Nth(todo'[Main], 1) = "run" <=> Left' = 6
           /\ Nth(todo'[Main], 1) = "close" <=> Left' = 5
           /\ Nth(todo'[Main], 1) = "joinOp" <=> Left' = 4
           /\ Nth(todo'[Main], 1) = "release" <=> Left' = 1
<1>1. todo'[Main] \in Seq(Step)
  BY DEF Actor
<1>. QED BY <1>1, MainSteps DEF Left, Places

\* A goroutine at a step has that step ahead.
LEMMA AtAhead ==
    ASSUME Types, NEW x \in Actor, NEW s, At(x, s)
    PROVE  todo[x] # <<>> /\ Ahead(x, 1) = s
<1>1. todo[x] \in Seq(Step)
  BY DEF Types
<1>. QED BY <1>1, NthTail DEF At, Ahead

-----------------------------------------------------------------------------
(* How a goroutine goes on *)

\* To other steps, which have the shape.
LEMMA Takes ==
    ASSUME Types, Places, NEW x \in Loops \cup {Op}, NEW rest, Do(x, rest),
           Rest(rest, IF x = Op THEN OpSteps ELSE LoopSteps)
    PROVE  /\ todo' \in [Actor -> Seq(Step)] /\ Places'
           /\ \A y \in Actor : y # x => todo'[y] = todo[y]
           /\ todo'[x] = rest
<1>1. x \in Actor /\ x # Main /\ rest \in Seq(Step) /\ todo \in [Actor -> Seq(Step)]
  <2>1. rest \in Seq(IF x = Op THEN OpSteps ELSE LoopSteps)
    BY DEF Rest
  <2>2. (IF x = Op THEN OpSteps ELSE LoopSteps) \subseteq Step
    BY StepSets
  <2>3. rest \in Seq(Step)
    BY <2>1, <2>2
  <2>. QED BY <2>3, RolesConstants DEF Actor, Types
<1>2. /\ todo' \in [Actor -> Seq(Step)] /\ todo'[x] = rest
      /\ \A y \in Actor : y # x => todo'[y] = todo[y]
  BY <1>1 DEF Do
<1>3. todo'[Main] = todo[Main]
  BY <1>1, <1>2 DEF Actor
<1>4. Rest(todo'[Op], OpSteps)
  BY <1>2 DEF Places, Actor
<1>5. ASSUME NEW l \in Loops PROVE Rest(todo'[l], LoopSteps)
  <2>1. l # Op /\ l \in Actor
    BY RolesConstants DEF Actor
  <2>. QED BY <1>2, <2>1 DEF Places
<1>. QED BY <1>2, <1>3, <1>4, <1>5 DEF Places, Left

\* To the next step, whatever the others do.
LEMMA Passes ==
    ASSUME Types, Places, NEW x \in Actor, todo[x] # <<>>, todo'[x] = Tail(todo[x])
    PROVE  /\ todo'[x] \in Seq(Step)
           /\ Nth(todo'[x], 1) = Ahead(x, 2)
           /\ Nth(todo'[x], 2) = Ahead(x, 3)
           /\ Nth(todo'[x], 3) = Ahead(x, 4)
           /\ todo'[x] = <<>> <=> Ahead(x, 2) = "end"
           /\ x = Op => Rest(todo'[x], OpSteps)
           /\ x \in Loops => Rest(todo'[x], LoopSteps)
           /\ x = Main => Left' = Left - 1 /\ OnCourse(todo'[Main])
<1>1. todo[x] \in Seq(Step)
  BY DEF Types
<1>2. /\ Tail(todo[x]) \in Seq(Step) /\ Len(Tail(todo[x])) = Len(todo[x]) - 1
      /\ \A i \in Nat \ {0} : Nth(Tail(todo[x]), i) = Nth(todo[x], i + 1)
  BY <1>1, NthTail
<1>3. /\ Nth(todo'[x], 1) = Ahead(x, 2) /\ Nth(todo'[x], 2) = Ahead(x, 3)
      /\ Nth(todo'[x], 3) = Ahead(x, 4)
  <2>1. /\ Nth(Tail(todo[x]), 1) = Nth(todo[x], 1 + 1)
        /\ Nth(Tail(todo[x]), 2) = Nth(todo[x], 2 + 1)
        /\ Nth(Tail(todo[x]), 3) = Nth(todo[x], 3 + 1)
    BY <1>2
  <2>. QED BY <2>1 DEF Ahead
<1>4. todo'[x] = <<>> <=> Ahead(x, 2) = "end"
  BY <1>2, <1>3, NthTail
<1>5. x = Op => Rest(todo'[x], OpSteps)
  BY StepSets, RestTail DEF Places
<1>6. x \in Loops => Rest(todo'[x], LoopSteps)
  BY StepSets, RestTail DEF Places
<1>7. ASSUME x = Main
      PROVE  Left' = Left - 1 /\ OnCourse(todo'[Main])
  <2>1. Left \in 0 .. 10 /\ Left # 0 /\ Left' = Left - 1
    <3>1. Left' = Left - 1
      BY <1>2, <1>7 DEF Left
    <3>. QED BY <1>7, <3>1, MainAhead
  <2>2. ASSUME NEW i \in 1 .. Left' PROVE todo'[Main][i] = Course[10 - Left' + i]
    <3>1. i + 1 \in 1 .. Left /\ 10 - Left + (i + 1) = 10 - Left' + i
      BY <2>1
    <3>2. todo[Main][i + 1] = Course[10 - Left + (i + 1)]
      BY <3>1 DEF Places, OnCourse, Left
    <3>3. i \in 1 .. Len(todo[Main]) - 1
      BY <2>1 DEF Left
    <3>4. Tail(todo[Main])[i] = todo[Main][i + 1]
      BY <1>1, <1>7, <3>3, HeadTailProperties
    <3>. QED BY <1>7, <3>1, <3>2, <3>4
  <2>3. Len(todo'[Main]) = Left'
    BY DEF Left
  <2>4. Left' <= 10
    BY <2>1
  <2>5. OnCourse(todo'[Main])
    BY <2>2, <2>3, <2>4 DEF OnCourse
  <2>. QED BY <2>1, <2>5
<1>. QED BY <1>2, <1>3, <1>4, <1>5, <1>6, <1>7

\* To the next step, alone.
LEMMA Goes ==
    ASSUME Types, Places, NEW x \in Actor, todo[x] # <<>>, Next1(x)
    PROVE  /\ todo' \in [Actor -> Seq(Step)] /\ Places'
           /\ \A y \in Actor : y # x => todo'[y] = todo[y]
           /\ Nth(todo'[x], 1) = Ahead(x, 2)
           /\ Nth(todo'[x], 2) = Ahead(x, 3)
           /\ Nth(todo'[x], 3) = Ahead(x, 4)
           /\ todo'[x] = <<>> <=> Ahead(x, 2) = "end"
           /\ x = Main => Left' = Left - 1
           /\ todo'[x] = Tail(todo[x])
<1>1. todo \in [Actor -> Seq(Step)]
  BY DEF Types
<1>2. todo'[x] = Tail(todo[x]) /\ \A y \in Actor : y # x => todo'[y] = todo[y]
  BY <1>1 DEF Next1, Do
<1>3. todo' \in [Actor -> Seq(Step)]
  <2>1. Tail(todo[x]) \in Seq(Step)
    BY <1>1, <1>2, Passes
  <2>. QED BY <1>1, <2>1 DEF Next1, Do
<1>4. Places'
  <2>1. Rest(todo'[Op], OpSteps) /\ \A l \in Loops : Rest(todo'[l], LoopSteps)
    BY <1>2, Passes DEF Places, Actor
  <2>2. OnCourse(todo'[Main])
    BY <1>2, Passes DEF Places, Actor
  <2>. QED BY <2>1, <2>2 DEF Places
<1>. QED BY <1>2, <1>3, <1>4, Passes

\* To what comes behind an error.
LEMMA GivesUp ==
    ASSUME Types, Places, NEW x \in Actor, Fail(x)
    PROVE  /\ todo' \in [Actor -> Seq(Step)] /\ Places'
           /\ \A y \in Actor : y # x => todo'[y] = todo[y]
           /\ x = Op => todo'[Op] = <<>> /\ Nth(todo'[Op], 1) = "end"
           /\ x \in Loops => todo'[x] # <<>> /\ Nth(todo'[x], 1) = "look"
           /\ x = Main => Left' = 6
<1>1. CASE x = Op
  <2>1. Do(x, <<>>) /\ Rest(<<>>, OpSteps) /\ Nth(<<>>, 1) = "end"
    <3>1. Op \notin Loops /\ Op # Main
      BY RolesConstants
    <3>2. Rest(<<>>, OpSteps)
      BY Starts
    <3>3. Nth(<<>>, 1) = "end"
      BY DEF Nth
    <3>. QED BY <1>1, <3>1, <3>2, <3>3 DEF Fail
  <2>. QED BY <1>1, <2>1, Takes, RolesConstants
<1>2. CASE x \in Loops
  <2>1. Do(x, <<"look">>) /\ Rest(<<"look">>, LoopSteps) /\ Nth(<<"look">>, 1) = "look"
    <3>1. Rest(<<"look">>, LoopSteps)
      BY Starts
    <3>2. Nth(<<"look">>, 1) = "look"
      BY DEF Nth
    <3>. QED BY <1>2, <3>1, <3>2 DEF Fail
  <2>2. x # Op /\ x # Main /\ <<"look">> # <<>>
    BY <1>2, RolesConstants
  <2>3. Rest(<<"look">>, IF x = Op THEN OpSteps ELSE LoopSteps)
    BY <2>1, <2>2
  <2>4. /\ todo' \in [Actor -> Seq(Step)] /\ Places' /\ todo'[x] = <<"look">>
        /\ \A y \in Actor : y # x => todo'[y] = todo[y]
    BY <1>2, <2>1, <2>3, Takes, Zenon
  <2>. QED BY <2>1, <2>2, <2>4
<1>3. CASE x = Main
  <2>1. Main \in Actor /\ Main \notin Loops /\ Main # Op
    BY RolesConstants DEF Actor
  <2>2. DEFINE rest == <<"run", "close", "joinOp", "take", "wait", "release">>
  <2>3. rest \in Seq(Step) /\ Len(rest) = 6 /\ OnCourse(rest)
    BY CourseProperties, Zenon
  <2>4. todo' = [todo EXCEPT ![Main] = rest]
    <3>1. <<"run">> \o Close = rest
      BY Spelled, Zenon
    <3>. QED BY <1>3, <2>1, <3>1, Zenon DEF Fail, Do
  <2>5. todo \in [Actor -> Seq(Step)]
    BY DEF Types
  <2>. HIDE DEF rest
  <2>6. /\ todo' \in [Actor -> Seq(Step)] /\ todo'[Main] = rest
        /\ \A y \in Actor : y # Main => todo'[y] = todo[y]
    BY <2>1, <2>3, <2>4, <2>5
  <2>7. Left' = 6 /\ OnCourse(todo'[Main])
    <3>1. Left' = 6
      BY <2>3, <2>6 DEF Left
    <3>. QED BY <2>3, <2>6, <3>1
  <2>8. todo'[Op] = todo[Op] /\ \A l \in Loops : todo'[l] = todo[l]
    BY <2>1, <2>6 DEF Actor
  <2>9. Places'
    BY <2>7, <2>8 DEF Places
  <2>. QED BY <1>3, <2>1, <2>6, <2>7, <2>9
<1>. QED BY <1>1, <1>2, <1>3 DEF Actor

-----------------------------------------------------------------------------
(* Who is alone *)

\* The steps at which receiverMu is held.
Section == {"swap", "create", "register", "install", "offline"}

\* Only x goes on.
Moves(x) == \A y \in Actor : y # x => todo'[y] = todo[y]

\* While an operation runs main is in between.
LEMMA OpAlone ==
    ASSUME IInv, todo[Op] # <<>>
    PROVE  /\ Left \in {4, 5, 6} /\ todo[Main] # <<>>
           /\ Ahead(Main, 1) \in {"run", "close", "joinOp"}
<1>1. Left \in {4, 5, 6}
  BY MainAhead DEF IInv, Turns
<1>. QED BY <1>1, MainAhead DEF IInv

\* While a loop runs the role is the receiver's and nothing has been stopped.
LEMMA LoopAlone ==
    ASSUME IInv, NEW l \in Loops, todo[l] # <<>>
    PROVE  /\ mode = "receiver" /\ ~hub /\ ~source /\ todo[Main] # <<>>
           /\ ~(lastOp = "stopReceiver" /\ todo[Op] = <<>>)
<1>1. l \in RunningLoops
  BY DEF RunningLoops
<1>. QED BY <1>1 DEF IInv, ModeKept, StopsAreClean, Types

\* Behind a wait no loop runs.
LEMMA NoLoops ==
    ASSUME IInv, NEW x \in Drivers, Unlooped(x)
    PROVE  loop = NoLoop /\ RunningLoops = {}
<1>1. \A y \in Drivers : Ahead(y, 1) # "wait"
  <2>1. Ahead(x, 1) # "end" /\ Ahead(x, 1) # "wait"
    BY DEF Unlooped, Connecting
  <2>2. CASE x = Op
    <3>1. todo[Op] # <<>>
      BY <2>1, <2>2, OpAhead DEF IInv
    <3>. QED BY <2>1, <2>2, <3>1, OpAlone DEF Drivers
  <2>3. CASE x = Main
    <3>1. Left = 7 \/ Left = 1
      BY <2>3, MainAhead DEF IInv, Unlooped, Connecting
    <3>2. Ahead(Op, 1) = "end"
      BY <3>1, OpAhead DEF IInv, Turns
    <3>. QED BY <2>1, <2>3, <3>2 DEF Drivers
  <2>. QED BY <2>2, <2>3 DEF Drivers
<1>2. loop = NoLoop
  BY DEF IInv, LoopsOwned
<1>. QED BY <1>1, <1>2, RolesConstants DEF IInv, LoopsOwned, RunningLoops

\* Going offline leaves no way out.
LEMMA SafeSteps ==
    ASSUME IInv, lastOp = "stopReceiver"
    PROVE  Ahead(Op, 1) \in {"take", "wait", "lock", "offline", "end"}
BY DEF IInv, Stopping, Ahead, Nth

\* Its next steps are again of that kind.
LEMMA StoppingGoes ==
    ASSUME IInv, todo[Op] # <<>>, todo'[Op] = Tail(todo[Op]), lastOp' = lastOp
    PROVE  Stopping'
<1>1. todo[Op] \in Seq(Step)
  BY DEF IInv, Types, Actor
<1>2. ASSUME NEW i \in 1 .. Len(todo'[Op])
      PROVE  i + 1 \in 1 .. Len(todo[Op]) /\ todo'[Op][i] = todo[Op][i + 1]
  BY <1>1, HeadTailProperties
<1>. QED BY <1>2 DEF IInv, Stopping

-----------------------------------------------------------------------------
(* What a step leaves alone *)

\* A loop's step cannot disturb what the drivers rely on.
LEMMA LoopKeeps ==
    ASSUME IInv, NEW l \in Loops, todo[l] # <<>>, Moves(l),
           UNCHANGED <<joins, loop, lastOp, hub, source, closed, cancelled>>,
           mode' \in {mode, "receiver"}
    PROVE  Turns' /\ LoopsOwned' /\ ModeKept' /\ Stopping' /\ StopsAreClean'
<1>1. /\ l # Main /\ l # Op /\ Main \in Actor /\ Op \in Actor
      /\ todo'[Main] = todo[Main] /\ todo'[Op] = todo[Op]
  BY RolesConstants DEF Moves, Actor
<1>2. /\ mode = "receiver" /\ mode' = "receiver" /\ ~hub /\ ~source /\ todo[Main] # <<>>
      /\ ~(lastOp = "stopReceiver" /\ todo[Op] = <<>>)
  BY LoopAlone
<1>3. RunningLoops' \subseteq RunningLoops
  BY DEF RunningLoops, Moves, Actor
<1>4. Turns'
  BY <1>1, <1>2 DEF IInv, Turns, Left
<1>5. LoopsOwned'
  BY <1>1, <1>3 DEF IInv, LoopsOwned, Unlooped, Ahead, Drivers
<1>6. ModeKept'
  BY <1>1, <1>2 DEF IInv, ModeKept, Checked, Ahead
<1>7. Stopping'
  BY <1>1 DEF IInv, Stopping
<1>8. StopsAreClean'
  BY <1>1, <1>2 DEF StopsAreClean
<1>. QED BY <1>4, <1>5, <1>6, <1>7, <1>8

\* Outside of its sections a goroutine does not disturb who owns the agents.
LEMMA AgentsKeep ==
    ASSUME IInv, NEW x \in Actor, Moves(x), UNCHANGED <<receiverMu, agent, live>>,
           \A y \in Actor : y # x => hold'[y] = hold[y],
           Ahead(x, 1) \notin Section, Nth(todo'[x], 1) \notin Section
    PROVE  AgentsOwned'
<1>1. x \notin receiverMu /\ receiverMu \subseteq Actor
  BY DEF IInv, AgentsOwned, Section, Types
<1>2. \A y \in receiverMu : Nth(todo'[y], 1) = Ahead(y, 1) /\ hold'[y] = hold[y]
  BY <1>1 DEF Moves, Ahead
<1>3. \A y \in Actor : y \in receiverMu' <=> Nth(todo'[y], 1) \in Section
  BY <1>1 DEF Moves, Ahead, IInv, AgentsOwned, Section
<1>. QED BY <1>1, <1>2, <1>3 DEF IInv, AgentsOwned, Section, Ahead

-----------------------------------------------------------------------------
(* The steps of discoverLoop *)

\* A loop outside of startAgent looks for a sender, calls startAgent or ends.
LEMMA NextSeek ==
    ASSUME IInv, NEW l \in Loops, Direct(l) \/ Look(l) \/ Healthy(l) \/ Found(l) \/ NotFound(l)
    PROVE  IInv'
<1>1. l \in Actor /\ l # Op
  BY RolesConstants DEF Actor
<1>2. todo[l] # <<>> /\ Ahead(l, 1) \in {"direct", "look", "found"}
  <2>1. \/ At(l, "direct") \/ At(l, "look") \/ At(l, "found")
    BY DEF Direct, Look, Healthy, Found, NotFound
  <2>. QED BY <1>1, <2>1, AtAhead DEF IInv
<1>3. PICK rest \in {<<>>, <<"look">>, <<"found">>, StartAgent \o <<"look">>} : Do(l, rest)
  BY Zenon DEF Direct, Look, Healthy, Found, NotFound
<1>4. Rest(rest, LoopSteps)
  BY <1>3, Starts, Zenon
<1>5. Nth(rest, 1) \notin Section
  <2>1. StartAgent \o <<"look">> = <<"lock", "swap", "create", "register", "install", "look">>
    BY Spelled
  <2>2. rest \in {<<>>, <<"look">>, <<"found">>,
                  <<"lock", "swap", "create", "register", "install", "look">>}
    BY <1>3, <2>1, Zenon
  <2>. QED BY <2>2 DEF Nth, Section
<1>6. todo' \in [Actor -> Seq(Step)] /\ Places' /\ Moves(l) /\ Nth(todo'[l], 1) \notin Section
  <2>1. Rest(rest, IF l = Op THEN OpSteps ELSE LoopSteps)
    BY <1>1, <1>4
  <2>. QED BY <1>3, <1>5, <2>1, Takes DEF IInv, Moves
<1>7. /\ UNCHANGED <<joins, loop, lastOp, hub, source, closed, receiverMu, agent, live, mode,
                     cancelled, online>>
      /\ hold \in [Actor -> Agents \cup {NoAgent}] => hold' \in [Actor -> Agents \cup {NoAgent}]
      /\ hold \in [Actor -> Agents \cup {NoAgent}] =>
            \A y \in Actor : y # l => hold'[y] = hold[y]
      /\ down' \in SUBSET Agents
  <2>1. /\ agent \in Agents \cup {NoAgent} /\ down \subseteq Agents
        /\ hold[l] \in Agents \cup {NoAgent}
    BY <1>1 DEF IInv, Types
  <2>2. CASE Direct(l) \/ Found(l) \/ NotFound(l)
    BY <2>1, <2>2 DEF Direct, Found, NotFound, locals, senderVars, agentVars
  <2>3. CASE Look(l)
    BY <2>1, <2>3 DEF Look, locals, senderVars, agentVars
  <2>4. CASE Healthy(l)
    BY <2>1, <2>4 DEF Healthy, locals, senderVars, agentVars
  <2>. QED BY <2>2, <2>3, <2>4
<1>8. Types'
  BY <1>6, <1>7 DEF IInv, Types
<1>9. AgentsOwned'
  <2>1. Ahead(l, 1) \notin Section /\ \A y \in Actor : y # l => hold'[y] = hold[y]
    BY <1>2, <1>7 DEF Section, IInv, Types
  <2>. QED BY <1>1, <1>6, <1>7, <2>1, AgentsKeep
<1>10. Turns' /\ LoopsOwned' /\ ModeKept' /\ Stopping' /\ StopsAreClean'
  BY <1>2, <1>6, <1>7, LoopKeeps
<1>. QED BY <1>6, <1>8, <1>9, <1>10 DEF IInv

-----------------------------------------------------------------------------
(* The steps of startAgent *)

\* The holder's step leaves the agents to it or in a.agent.
LEMMA NextConnectOwned ==
    ASSUME IInv, NEW x \in Loops \cup {Op}, Connect(x)
    PROVE  /\ Types' /\ Places' /\ AgentsOwned' /\ Moves(x)
           /\ todo[x] # <<>> /\ Ahead(x, 1) \in Connecting
           /\ UNCHANGED <<joins, loop, lastOp, hub, source, closed, cancelled, online>>
           /\ mode' \in {mode, "receiver"}
<1>1. x \in Actor /\ x # Main
  BY RolesConstants DEF Actor
<1>2. todo[x] # <<>> /\ Follows(Ahead(x, 1), Ahead(x, 2), Ahead(x, 3), Ahead(x, 4)) 
      /\ (Fail(x) => Nth(todo'[x], 1) \notin Section)
  <2>1. \E s \in Connecting : At(x, s)
    BY DEF Connect, Lock, Swap, Create, Register, RegisterFails, Install, Connecting
  <2>2. todo[x] # <<>>
    BY <2>1 DEF At
  <2>3. Fail(x) => Nth(todo'[x], 1) \notin Section
    BY <1>1, GivesUp DEF IInv, Section
  <2>. QED BY <2>2, <2>3, OpAhead, LoopAhead DEF IInv
<1>. USE DEF Section
<1>3. CASE Lock(x)
  <2>1. Ahead(x, 1) = "lock" /\ Ahead(x, 2) \in {"swap", "offline"}
    BY <1>1, <1>2, <1>3, AtAhead DEF Lock, IInv, Follows
  <2>2. /\ todo' \in [Actor -> Seq(Step)] /\ Places' /\ Moves(x)
        /\ Nth(todo'[x], 1) = Ahead(x, 2)
    BY <1>1, <1>2, <1>3, Goes DEF Lock, IInv, Moves
  <2>3. Types'
    BY <1>1, <1>3, <2>2 DEF Lock, IInv, Types, senderVars, agentVars
  <2>4. AgentsOwned'
    BY <1>1, <1>3, <2>1, <2>2 DEF Lock, IInv, AgentsOwned, Ahead, Moves, agentVars
  <2>. QED BY <1>2, <1>3, <2>1, <2>2, <2>3, <2>4 DEF Lock, senderVars, Connecting
<1>4. CASE Swap(x)
  <2>1. Ahead(x, 1) = "swap" /\ Ahead(x, 2) = "create" /\ x \in receiverMu
    BY <1>1, <1>2, <1>4, AtAhead DEF Swap, IInv, Follows, AgentsOwned
  <2>2. /\ \A y \in receiverMu : y = x
        /\ live \subseteq {agent}
    BY <2>1 DEF IInv, AgentsOwned
  <2>3. CASE mode = "sender"
    <3>1. /\ todo' \in [Actor -> Seq(Step)] /\ Places' /\ Moves(x)
          /\ Nth(todo'[x], 1) \notin Section
      BY <1>1, <1>2, <1>4, <2>3, GivesUp DEF Swap, IInv, Moves
    <3>2. Types'
      BY <1>4, <2>3, <3>1 DEF Swap, Unlock, IInv, Types, senderVars
    <3>3. AgentsOwned'
      BY <1>1, <1>4, <2>1, <2>2, <2>3, <3>1 DEF Swap, Unlock, IInv, AgentsOwned, Ahead, Moves
    <3>. QED BY <1>2, <1>4, <2>1, <3>1, <3>2, <3>3 DEF Swap, senderVars, Connecting
  <2>4. CASE mode # "sender"
    <3>1. /\ todo' \in [Actor -> Seq(Step)] /\ Places' /\ Moves(x)
          /\ Nth(todo'[x], 1) = "create"
      BY <1>1, <1>2, <1>4, <2>1, <2>4, Goes DEF Swap, IInv, Moves
    <3>2. Types'
      BY <1>4, <2>4, <3>1 DEF Swap, IInv, Types, senderVars
    <3>3. AgentsOwned'
      BY <1>1, <1>4, <2>1, <2>2, <2>4, <3>1 DEF Swap, IInv, AgentsOwned, Ahead, Moves
    <3>. QED BY <1>2, <1>4, <2>1, <3>1, <3>2, <3>3 DEF Swap, senderVars, Connecting
  <2>. QED BY <2>3, <2>4
<1>5. CASE Create(x)
  <2>1. Ahead(x, 1) = "create" /\ Ahead(x, 2) = "register" /\ x \in receiverMu
    BY <1>1, <1>2, <1>5, AtAhead DEF Create, IInv, Follows, AgentsOwned
  <2>2. /\ \A y \in receiverMu : y = x
        /\ live = {} /\ agent = NoAgent
    BY <2>1 DEF IInv, AgentsOwned
  <2>3. CASE /\ \E r \in Agents \ live : /\ hold' = [hold EXCEPT ![x] = r]
                                         /\ live' = live \cup {r}
                                         /\ down' = down \ {r}
             /\ Next1(x) /\ UNCHANGED receiverMu
    <3>1. /\ todo' \in [Actor -> Seq(Step)] /\ Places' /\ Moves(x)
          /\ Nth(todo'[x], 1) = "register"
      BY <1>1, <1>2, <2>1, <2>3, Goes DEF IInv, Moves
    <3>2. PICK r \in Agents : /\ hold' = [hold EXCEPT ![x] = r]
                              /\ live' = {r} /\ down' = down \ {r}
      BY <2>2, <2>3
    <3>3. hold \in [Actor -> Agents \cup {NoAgent}]
      BY DEF IInv, Types
    <3>4. Types'
      BY <1>1, <1>5, <2>3, <3>1, <3>2 DEF Create, IInv, Types, senderVars
    <3>5. AgentsOwned'
      BY <1>1, <1>5, <2>1, <2>2, <2>3, <3>1, <3>2, <3>3
         DEF Create, IInv, AgentsOwned, Ahead, Moves
    <3>. QED BY <1>2, <1>5, <2>1, <3>1, <3>4, <3>5 DEF Create, senderVars, Connecting
  <2>4. CASE Fail(x) /\ Unlock(x) /\ UNCHANGED <<hold, live, down>>
    <3>1. /\ todo' \in [Actor -> Seq(Step)] /\ Places' /\ Moves(x)
          /\ Nth(todo'[x], 1) \notin Section
      BY <1>1, <1>2, <2>4, GivesUp DEF IInv, Moves
    <3>2. Types'
      BY <1>5, <2>4, <3>1 DEF Create, Unlock, IInv, Types, senderVars
    <3>3. AgentsOwned'
      BY <1>1, <1>5, <2>1, <2>2, <2>4, <3>1 DEF Create, Unlock, IInv, AgentsOwned, Ahead, Moves
    <3>. QED BY <1>2, <1>5, <2>1, <3>1, <3>2, <3>3 DEF Create, senderVars, Connecting
  <2>. QED BY <1>5, <2>3, <2>4 DEF Create
<1>6. CASE Register(x)
  <2>1. Ahead(x, 1) = "register" /\ Ahead(x, 2) = "install" /\ x \in receiverMu
    BY <1>1, <1>2, <1>6, AtAhead DEF Register, IInv, Follows, AgentsOwned
  <2>2. /\ todo' \in [Actor -> Seq(Step)] /\ Places' /\ Moves(x)
        /\ Nth(todo'[x], 1) = "install"
    BY <1>1, <1>2, <1>6, <2>1, Goes DEF Register, IInv, Moves
  <2>3. Types'
    BY <1>6, <2>2 DEF Register, IInv, Types, senderVars, agentVars, locals
  <2>4. AgentsOwned'
    BY <1>1, <1>6, <2>1, <2>2 DEF Register, IInv, AgentsOwned, Ahead, Moves, agentVars, locals
  <2>. QED BY <1>2, <1>6, <2>1, <2>2, <2>3, <2>4 DEF Register, senderVars, locals, Connecting
<1>7. ASSUME Ahead(x, 1) \in {"register", "install"}, Discard(x), UNCHANGED agent
      PROVE  /\ todo' \in [Actor -> Seq(Step)] /\ Places' /\ Moves(x) /\ AgentsOwned'
             /\ hold' \in [Actor -> Agents \cup {NoAgent}]
             /\ live' \subseteq Agents /\ receiverMu' \subseteq Actor
  <2>1. /\ x \in receiverMu /\ \A y \in receiverMu : y = x
        /\ live = {hold[x]} /\ agent = NoAgent
    BY <1>1, <1>7 DEF IInv, AgentsOwned
  <2>2. /\ todo' \in [Actor -> Seq(Step)] /\ Places' /\ Moves(x)
        /\ Nth(todo'[x], 1) \notin Section
    BY <1>1, <1>2, <1>7, GivesUp DEF Discard, IInv, Moves
  <2>3. AgentsOwned'
    BY <1>1, <1>7, <2>1, <2>2 DEF Discard, Unlock, IInv, AgentsOwned, Ahead, Moves
  <2>. QED BY <1>1, <1>7, <2>2, <2>3 DEF Discard, Unlock, IInv, Types
<1>8. CASE RegisterFails(x)
  <2>1. Ahead(x, 1) = "register"
    BY <1>1, <1>8, AtAhead DEF RegisterFails, IInv
  <2>2. Discard(x) /\ UNCHANGED agent
    BY <1>8 DEF RegisterFails
  <2>3. Types'
    BY <1>7, <1>8, <2>1, <2>2 DEF RegisterFails, IInv, Types, senderVars
  <2>. QED BY <1>2, <1>7, <1>8, <2>1, <2>2, <2>3 DEF RegisterFails, senderVars, Connecting
<1>9. CASE Install(x)
  <2>1. Ahead(x, 1) = "install" /\ Ahead(x, 2) \in {"check", "look"} /\ x \in receiverMu
    BY <1>1, <1>2, <1>9, AtAhead DEF Install, IInv, Follows, AgentsOwned
  <2>2. CASE x \in cancelled
    <3>1. Discard(x) /\ UNCHANGED <<agent, mode>>
      BY <1>9, <2>2 DEF Install
    <3>2. Types'
      BY <1>7, <1>9, <2>1, <3>1 DEF Install, IInv, Types, senderVars
    <3>. QED BY <1>2, <1>7, <1>9, <2>1, <3>1, <3>2 DEF Install, senderVars, Connecting
  <2>3. CASE x \notin cancelled
    <3>1. /\ agent' = hold[x] /\ hold' = [hold EXCEPT ![x] = NoAgent] /\ mode' = "receiver"
          /\ Next1(x) /\ receiverMu' = receiverMu \ {x} /\ UNCHANGED live
      BY <1>9, <2>3 DEF Install, Unlock
    <3>2. /\ \A y \in receiverMu : y = x
          /\ live = {hold[x]}
      BY <2>1 DEF IInv, AgentsOwned
    <3>3. /\ todo' \in [Actor -> Seq(Step)] /\ Places' /\ Moves(x)
          /\ Nth(todo'[x], 1) \notin Section
      BY <1>1, <1>2, <2>1, <3>1, Goes DEF IInv, Moves
    <3>4. Types'
      BY <1>1, <1>9, <3>1, <3>3 DEF Install, IInv, Types, senderVars
    <3>5. AgentsOwned'
      BY <1>1, <2>1, <3>1, <3>2, <3>3 DEF IInv, AgentsOwned, Ahead, Moves
    <3>. QED BY <1>2, <1>9, <2>1, <3>1, <3>3, <3>4, <3>5 DEF Install, senderVars, Connecting
  <2>. QED BY <2>2, <2>3
<1>. QED BY <1>3, <1>4, <1>5, <1>6, <1>8, <1>9 DEF Connect

\* A loop in startAgent.
LEMMA NextLoopConnect ==
    ASSUME IInv, NEW l \in Loops, Connect(l)
    PROVE  IInv'
<1>1. /\ Types' /\ Places' /\ AgentsOwned' /\ Moves(l) /\ todo[l] # <<>>
      /\ UNCHANGED <<joins, loop, lastOp, hub, source, closed, cancelled>>
      /\ mode' \in {mode, "receiver"}
  BY NextConnectOwned
<1>. QED BY <1>1, LoopKeeps DEF IInv

\* The operation in startAgent; the first step is also that of going offline.
LEMMA NextOpConnect ==
    ASSUME IInv, Connect(Op)
    PROVE  IInv'
<1>1. /\ Types' /\ Places' /\ AgentsOwned' /\ Moves(Op)
      /\ todo[Op] # <<>> /\ Ahead(Op, 1) \in Connecting
      /\ UNCHANGED <<joins, loop, lastOp, hub, source, closed>>
      /\ mode' \in {mode, "receiver"}
  BY NextConnectOwned
<1>2. /\ loop = NoLoop /\ RunningLoops = {} /\ RunningLoops' = {}
      /\ Left \in {4, 5, 6} /\ todo'[Main] = todo[Main] /\ todo[Main] # <<>>
  <2>1. loop = NoLoop /\ RunningLoops = {}
    BY <1>1, NoLoops DEF Unlooped, Drivers
  <2>2. RunningLoops' = {}
    BY <1>1, <2>1, RolesConstants DEF RunningLoops, Moves, Actor
  <2>. QED BY <1>1, <2>1, <2>2, OpAlone, RolesConstants DEF Moves, Actor
<1>3. /\ Follows(Ahead(Op, 1), Ahead(Op, 2), Ahead(Op, 3), Ahead(Op, 4)) /\ Op \in Actor
      /\ Next1(Op) => Nth(todo'[Op], 1) = Ahead(Op, 2) /\ todo'[Op] = Tail(todo[Op])
                      /\ (todo'[Op] = <<>> <=> Ahead(Op, 2) = "end")
      /\ Fail(Op) => Nth(todo'[Op], 1) = "end"
  BY <1>1, OpAhead, Goes, GivesUp DEF IInv, Actor
<1>4. Turns'
  BY <1>1, <1>2 DEF IInv, Turns, Left
<1>5. LoopsOwned'
  BY <1>1, <1>2 DEF LoopsOwned
<1>6. lastOp = "stopReceiver" => Next1(Op) /\ Ahead(Op, 1) = "lock"
  BY <1>1, <1>3, SafeSteps, AtAhead
     DEF IInv, Connecting, Connect, Lock, Swap, Create, Register, RegisterFails, Install
<1>7. Stopping'
  BY <1>1, <1>3, <1>6, StoppingGoes DEF Stopping
<1>8. StopsAreClean'
  BY <1>1, <1>2, <1>3, <1>6 DEF StopsAreClean, Follows
<1>9. ModeKept'
  <2>1. \A s : At(Op, s) => Ahead(Op, 1) = s
    BY <1>3, AtAhead DEF IInv
  <2>2. hub \/ source => mode = "sender"
    BY DEF IInv, ModeKept
  <2>3. live # {} /\ mode # "receiver" => mode = "" /\ Ahead(Op, 1) \in {"register", "install"}
    BY DEF IInv, ModeKept
  <2>4. Ahead(Op, 1) \in {"create", "register", "install"} => mode # "sender"
    BY DEF IInv, ModeKept
  <2>5. mode \in {"", "sender", "receiver"}
    BY DEF IInv, Types
  <2>6. Op \in receiverMu /\ Ahead(Op, 1) \in {"register", "install"} => live = {hold[Op]}
    BY DEF IInv, AgentsOwned
  <2>7. Ahead(Op, 1) \in {"register", "install"} => Op \in receiverMu
    BY <1>3 DEF IInv, AgentsOwned
  <2>. USE <1>1, <1>2, <1>3, <2>1, <2>2, <2>3, <2>4, <2>5, <2>6, <2>7
           DEF ModeKept, Checked, Ahead, Follows
  <2>8. CASE Lock(Op)
    BY <2>8 DEF Lock, agentVars
  <2>9. CASE Swap(Op)
    BY <2>9 DEF Swap
  <2>10. CASE Create(Op)
    BY <2>10 DEF Create
  <2>11. CASE Register(Op)
    BY <2>11 DEF Register, agentVars
  <2>12. CASE RegisterFails(Op)
    BY <2>12 DEF RegisterFails, Discard
  <2>13. CASE Install(Op)
    BY <2>13 DEF Install, Discard
  <2>. QED BY ONLY Connect(Op), <2>8, <2>9, <2>10, <2>11, <2>12, <2>13 DEF Connect
<1>. QED BY <1>1, <1>4, <1>5, <1>7, <1>8, <1>9 DEF IInv

-----------------------------------------------------------------------------
(* The steps of the operation outside of startAgent *)

\* A step that is neither in a section of receiverMu nor in stopDiscovery can
\* only disturb ModeKept.
LEMMA OpKeeps ==
    ASSUME IInv, todo[Op] # <<>>, Moves(Op), Ahead(Op, 1) \notin Section,
           Ahead(Op, 1) \notin {"take", "wait", "lock"},
           Nth(todo'[Op], 1) \notin {"wait", "begin", "offline", "release"} \cup Connecting,
           UNCHANGED <<hold, joins, receiverMu, agent, live, loop, closed, lastOp, cancelled>>
    PROVE  /\ Turns' /\ LoopsOwned' /\ AgentsOwned' /\ Stopping' /\ StopsAreClean'
           /\ RunningLoops' = RunningLoops
<1>1. /\ Op \in Actor /\ Main \in Actor /\ Op # Main /\ todo'[Main] = todo[Main]
      /\ RunningLoops' = RunningLoops
  BY RolesConstants DEF Moves, Actor, RunningLoops
<1>2. Left \in {4, 5, 6} /\ todo[Main] # <<>>
  BY OpAlone
<1>3. lastOp # "stopReceiver"
  <2>1. Ahead(Op, 1) # "end"
    BY OpAhead DEF IInv
  <2>. QED BY <2>1, SafeSteps DEF Section
<1>4. Turns'
  BY <1>1, <1>2 DEF IInv, Turns, Left
<1>5. LoopsOwned'
  BY <1>1 DEF IInv, LoopsOwned, Unlooped, Ahead, Drivers
<1>6. AgentsOwned'
  <2>1. Nth(todo'[Op], 1) \notin Section
    BY DEF Section, Connecting
  <2>. QED BY <1>1, <2>1, AgentsKeep
<1>7. Stopping' /\ StopsAreClean'
  BY <1>1, <1>2, <1>3 DEF Stopping, StopsAreClean
<1>. QED BY <1>1, <1>4, <1>5, <1>6, <1>7

\* What the three ways to go on look like.
LEMMA OpMoves ==
    ASSUME IInv, todo[Op] # <<>>
    PROVE  /\ Follows(Ahead(Op, 1), Ahead(Op, 2), Ahead(Op, 3), Ahead(Op, 4))
           /\ \A s : At(Op, s) => Ahead(Op, 1) = s
           /\ Next1(Op) => /\ todo' \in [Actor -> Seq(Step)] /\ Places' /\ Moves(Op)
                           /\ Nth(todo'[Op], 1) = Ahead(Op, 2)
                           /\ Nth(todo'[Op], 2) = Ahead(Op, 3)
                           /\ Nth(todo'[Op], 3) = Ahead(Op, 4)
           /\ Fail(Op) => /\ todo' \in [Actor -> Seq(Step)] /\ Places' /\ Moves(Op)
                          /\ Nth(todo'[Op], 1) = "end"
BY OpAhead, AtAhead, Goes, GivesUp DEF IInv, Actor, Moves

\* Publishing the hub and the source; stopping them.
LEMMA NextSender ==
    ASSUME IInv, HubCheck \/ Publish \/ Prepare \/ Serve \/ StopFile \/ StopSender
    PROVE  IInv'
<1>1. todo[Op] # <<>>
  BY DEF HubCheck, Publish, Prepare, Serve, StopFile, StopSender, At
<1>2. /\ todo' \in [Actor -> Seq(Step)] /\ Places' /\ Moves(Op)
      /\ Ahead(Op, 1) \in {"hub", "publish", "prepare", "serve", "stopFile", "stopSender"}
      /\ Nth(todo'[Op], 1) \in {"hub", "publish", "prepare", "serve", "end"}
      /\ HubCheck => (Nth(todo'[Op], 1) = "serve" => mode = "sender")
      /\ HubCheck => (Nth(todo'[Op], 1) = "publish" => mode # "receiver")
      /\ Publish => Nth(todo'[Op], 1) # "publish"
      /\ Publish => (Nth(todo'[Op], 1) = "serve" => mode' = "sender")
      /\ Prepare => Nth(todo'[Op], 1) \in {"hub", "end"}
      /\ Serve \/ StopFile \/ StopSender => Nth(todo'[Op], 1) = "end"
  <2>. USE <1>1, OpMoves DEF Follows
  <2>1. CASE HubCheck
    <3>1. Ahead(Op, 1) = "hub"
      BY <2>1 DEF HubCheck
    <3>2. CASE Fail(Op)
      BY <3>1, <3>2, RolesConstants DEF Publish, Prepare, Serve, StopFile, StopSender
    <3>3. CASE Next1(Op) /\ mode # "receiver"
      BY <3>1, <3>3 DEF Publish, Prepare, Serve, StopFile, StopSender
    <3>4. CASE hub /\ Do(Op, Tail(Tail(todo[Op])))
      <4>1. /\ todo[Op] \in Seq(Step) /\ Op \in Actor /\ Rest(todo[Op], OpSteps)
            /\ Types /\ Places
        BY DEF IInv, Types, Places, Actor
      <4>2. /\ Rest(Tail(todo[Op]), OpSteps) /\ Tail(todo[Op]) \in Seq(Step)
            /\ Nth(Tail(todo[Op]), 1) = Nth(todo[Op], 1 + 1)
            /\ Nth(Tail(todo[Op]), 2) = Nth(todo[Op], 2 + 1)
        BY <4>1, RestTail, StepSets, NthTail
      <4>3. Nth(Tail(todo[Op]), 1) = "publish" /\ Tail(todo[Op]) # <<>>
        <5>1. Nth(todo[Op], 1 + 1) = "publish"
          BY <3>1 DEF Ahead
        <5>. QED BY ONLY <4>2, <5>1, NthTail
      <4>4. Rest(Tail(Tail(todo[Op])), OpSteps)
        BY <4>2, <4>3, RestTail, StepSets
      <4>5. Nth(Tail(Tail(todo[Op])), 1) = Nth(Tail(todo[Op]), 1 + 1)
        <5>1. \A i \in Nat \ {0} : Nth(Tail(Tail(todo[Op])), i) = Nth(Tail(todo[Op]), i + 1)
          BY ONLY <4>2, <4>3, NthTail, Zenon
        <5>. QED BY ONLY <5>1
      <4>6. /\ todo' \in [Actor -> Seq(Step)] /\ Places' /\ Moves(Op)
            /\ todo'[Op] = Tail(Tail(todo[Op]))
        BY <3>4, <4>1, <4>4, Takes DEF Moves
      <4>7. Nth(todo'[Op], 1) \in {"prepare", "serve", "end"} /\ mode = "sender"
        BY <3>1, <3>4, <4>2, <4>5, <4>6 DEF Ahead, IInv, ModeKept
      <4>. QED BY <3>1, <4>6, <4>7 DEF Publish, Prepare, Serve, StopFile, StopSender
    <3>. QED BY <2>1, <3>2, <3>3, <3>4 DEF HubCheck, Next1
  <2>2. CASE Publish
    BY <2>2 DEF HubCheck, Publish, Prepare, Serve, StopFile, StopSender
  <2>3. CASE Prepare
    BY <2>3 DEF HubCheck, Publish, Prepare, Serve, StopFile, StopSender
  <2>4. CASE Serve
    BY <2>4 DEF HubCheck, Publish, Prepare, Serve, StopFile, StopSender
  <2>5. CASE StopFile
    BY <2>5 DEF HubCheck, Publish, Prepare, Serve, StopFile, StopSender
  <2>6. CASE StopSender
    BY <2>6 DEF HubCheck, Publish, Prepare, Serve, StopFile, StopSender
  <2>. QED BY <2>1, <2>2, <2>3, <2>4, <2>5, <2>6
<1>3. /\ UNCHANGED <<hold, joins, receiverMu, agent, live, loop, closed, lastOp, cancelled,
                     down, online>>
      /\ mode' \in {mode, "sender"} /\ {hub', source'} \subseteq BOOLEAN
  <2>1. {hub, source} \subseteq BOOLEAN
    BY DEF IInv, Types
  <2>. QED BY <2>1 DEF HubCheck, Publish, Prepare, Serve, StopFile, StopSender, locals, senderVars,
                       agentVars
<1>4. Types'
  BY <1>2, <1>3 DEF IInv, Types
<1>5. /\ Turns' /\ LoopsOwned' /\ AgentsOwned' /\ Stopping' /\ StopsAreClean'
      /\ RunningLoops' = RunningLoops
  BY <1>1, <1>2, <1>3, OpKeeps DEF Section, Connecting
<1>6. ModeKept'
  <2>1. live # {} => mode = "receiver"
    BY <1>2 DEF IInv, ModeKept
  <2>2. /\ hub \/ source => mode = "sender"
        /\ mode # "receiver" => RunningLoops = {}
        /\ Ahead(Op, 1) = "publish" => mode # "receiver"
        /\ Ahead(Op, 1) = "serve" => mode = "sender"
    BY DEF IInv, ModeKept
  <2>3. \A s : At(Op, s) => Ahead(Op, 1) = s
    BY <1>1, OpMoves
  <2>. USE <1>2, <1>3, <1>5, <2>1, <2>2, <2>3 DEF ModeKept, Checked, Ahead, senderVars
  <2>4. CASE HubCheck
    BY <2>4 DEF HubCheck
  <2>5. CASE Publish
    <3>1. Ahead(Op, 1) = "publish"
      BY <2>5 DEF Publish
    <3>2. live' = {} /\ RunningLoops' = {}
      BY <3>1
    <3>. QED BY <2>5, <3>1, <3>2 DEF Publish
  <2>6. CASE Prepare
    BY <2>6 DEF Prepare
  <2>7. CASE Serve
    BY <2>7 DEF Serve
  <2>8. CASE StopFile
    BY <2>8 DEF StopFile
  <2>9. CASE StopSender
    BY <2>9 DEF StopSender
  <2>. QED BY <2>4, <2>5, <2>6, <2>7, <2>8, <2>9
<1>. QED BY <1>2, <1>4, <1>5, <1>6 DEF IInv

\* The first steps of what selectMode and AutoStart call.
LEMMA SelectedSteps ==
    /\ Nth(<<>>, 1) = "end" /\ Nth(<<"hub", "publish">>, 1) = "hub"
    /\ Nth(<<"hub", "publish", "prepare", "hub", "publish", "serve">>, 1) = "hub"
    /\ Nth(<<"check", "take", "wait", "begin">>, 1) = "check"
BY DEF Nth

\* A role is selected when nothing of a role is left, and then no loop runs and
\* no agent lives.
LEMMA NextSelect ==
    ASSUME IInv, SelectMode
    PROVE  IInv'
<1>1. PICK step \in {"reset", "beSender", "beReceiver"}, m \in {"", "sender", "receiver"},
           rest \in {<<>>, EnsureSender, StartDiscovery} : Select(step, m, rest)
  BY Zenon DEF SelectMode
<1>2. todo[Op] # <<>> /\ Ahead(Op, 1) = step /\ Op \in Actor
  BY <1>1, AtAhead DEF Select, At, IInv, Actor
<1>3. Rest(rest, OpSteps) /\ Nth(rest, 1) \in {"end", "hub", "check"}
  <2>1. Rest(rest, OpSteps)
    BY <1>1, Starts, Zenon
  <2>2. rest \in {<<>>, <<"hub", "publish">>, <<"check", "take", "wait", "begin">>}
    BY <1>1, Spelled, Zenon
  <2>3. Nth(rest, 1) \in {"end", "hub", "check"}
    BY <2>2, SelectedSteps, Zenon
  <2>. QED BY <2>1, <2>3
<1>4. /\ todo' \in [Actor -> Seq(Step)] /\ Places' /\ Moves(Op)
      /\ Nth(todo'[Op], 1) \in {"end", "hub", "check"}
  <2>1. CASE Do(Op, rest)
    BY <1>3, <2>1, Takes DEF Moves, IInv
  <2>2. CASE Fail(Op)
    BY <1>2, <2>2, OpMoves
  <2>. QED BY <1>1, <2>1, <2>2 DEF Select
<1>5. /\ UNCHANGED <<hold, joins, receiverMu, agent, live, loop, closed, lastOp, cancelled,
                     down, online, hub, source>>
      /\ mode' = mode \/ (Free /\ mode' \in {"", "sender", "receiver"})
  BY <1>1 DEF Select, locals, senderVars, agentVars
<1>6. Types'
  BY <1>4, <1>5 DEF IInv, Types
<1>7. /\ Turns' /\ LoopsOwned' /\ AgentsOwned' /\ Stopping' /\ StopsAreClean'
      /\ RunningLoops' = RunningLoops
  BY <1>1, <1>2, <1>4, <1>5, OpKeeps DEF Section, Connecting
<1>8. ASSUME Free PROVE RunningLoops = {} /\ live = {}
  <2>1. RunningLoops = {}
    <3>1. \A y \in Drivers : Ahead(y, 1) # "wait"
      BY <1>1, <1>2, OpAlone DEF Drivers
    <3>. QED BY <1>8, <3>1, RolesConstants DEF Free, IInv, LoopsOwned, RunningLoops
  <2>2. receiverMu = {}
    <3>1. \A y \in Actor : Ahead(y, 1) \notin Section
      <4>1. \A l \in Loops : Ahead(l, 1) = "end"
        BY <2>1, LoopAhead DEF IInv, RunningLoops
      <4>. QED BY <1>1, <1>2, <4>1, OpAlone DEF Actor, Section
    <3>. QED BY <3>1 DEF IInv, AgentsOwned, Section, Types
  <2>3. live \subseteq {NoAgent} /\ live \subseteq Agents
    BY <1>8, <2>2 DEF Free, IInv, AgentsOwned, Types
  <2>. QED BY <2>1, <2>3, RolesConstants
<1>9. ModeKept'
  BY <1>1, <1>2, <1>4, <1>5, <1>7, <1>8 DEF IInv, ModeKept, Checked, Ahead, Free
<1>. QED BY <1>4, <1>6, <1>7, <1>9 DEF IInv

\* Going offline ends with no loop and no agent.
LEMMA NextOffline ==
    ASSUME IInv, Offline
    PROVE  IInv'
<1>1. /\ Op \in Actor /\ todo[Op] # <<>> /\ Ahead(Op, 1) = "offline" /\ Ahead(Op, 2) = "end"
      /\ todo' \in [Actor -> Seq(Step)] /\ Places' /\ Moves(Op) /\ Nth(todo'[Op], 1) = "end"
      /\ todo'[Op] = Tail(todo[Op])
  <2>1. Op \in Actor /\ todo[Op] # <<>> /\ Next1(Op)
    BY DEF Offline, At, Actor
  <2>2. Ahead(Op, 1) = "offline" /\ Ahead(Op, 2) = "end"
    BY <2>1, OpMoves DEF Offline, Follows
  <2>. QED BY <2>1, <2>2, Goes DEF IInv, Moves
<1>2. /\ loop = NoLoop /\ RunningLoops = {} /\ RunningLoops' = {}
      /\ Left \in {4, 5, 6} /\ todo'[Main] = todo[Main] /\ todo[Main] # <<>>
  <2>1. loop = NoLoop /\ RunningLoops = {}
    BY <1>1, NoLoops DEF Unlooped, Drivers
  <2>2. RunningLoops' = {}
    BY <1>1, <2>1, RolesConstants DEF RunningLoops, Moves, Actor
  <2>. QED BY <1>1, <2>1, <2>2, OpAlone, RolesConstants DEF Moves, Actor
<1>3. Op \in receiverMu /\ (\A y \in receiverMu : y = Op) /\ live \subseteq {agent}
  BY <1>1 DEF IInv, AgentsOwned
<1>4. live' = {} /\ receiverMu' = {} /\ agent' = NoAgent
  BY <1>3 DEF Offline, Unlock
<1>5. UNCHANGED <<hold, joins, mode, hub, source, loop, closed, lastOp, cancelled, down, online>>
  BY DEF Offline, senderVars
<1>6. Types'
  BY <1>1, <1>4, <1>5 DEF IInv, Types
<1>7. Turns' /\ LoopsOwned'
  <2>1. Left' = Left
    BY <1>2 DEF Left
  <2>2. Turns'
    BY <1>2, <1>5, <2>1 DEF IInv, Turns
  <2>. QED BY <1>2, <1>5, <2>2 DEF LoopsOwned
<1>8. AgentsOwned'
  BY <1>1, <1>3, <1>4 DEF IInv, AgentsOwned, Ahead, Moves
<1>9. ModeKept'
  BY <1>1, <1>2, <1>4, <1>5 DEF IInv, ModeKept, Checked, Ahead
<1>10. Stopping' /\ StopsAreClean'
  BY <1>1, <1>2, <1>4, <1>5, StoppingGoes DEF StopsAreClean
<1>. QED BY <1>1, <1>6, <1>7, <1>8, <1>9, <1>10 DEF IInv

\* An operation is admitted.
LEMMA NextBegin ==
    ASSUME IInv, ~Early, NEW kind \in DOMAIN Program, Begin(kind)
    PROVE  IInv'
<1>1. /\ Op \in Actor /\ Op # Main /\ Main \in Actor /\ Ahead(Op, 1) = "end"
      /\ Left \in {5, 6}
  <2>1. Len(<<"run">> \o Close) = 6
    <3>1. Len(<<"run", "close", "joinOp", "take", "wait", "release">>) = 6
      OBVIOUS
    <3>. QED BY <3>1, Spelled, Zenon
  <2>2. Left <= 6 /\ ~closed /\ todo[Op] = <<>>
    BY <2>1 DEF Begin, Left
  <2>. QED BY <2>2, MainAhead, OpAhead, RolesConstants DEF IInv, Turns, Actor
<1>2. /\ Rest(Program[kind], OpSteps) /\ Program[kind] # <<>>
      /\ Nth(Program[kind], 1) \in {"reset", "beSender", "beReceiver", "hub", "prepare", "check",
                                    "take", "stopFile", "stopSender"}
      /\ Nth(Program[kind], 1) = "take" => Nth(Program[kind], 3) = "lock"
      /\ kind = "stopReceiver" =>
            \A i \in 1 .. Len(Program[kind]) :
                Program[kind][i] \in {"take", "wait", "lock", "offline"}
  <2>1. Program[kind] \in
          {<<"reset">>, <<"beSender">>, <<"beReceiver">>, <<"hub", "publish">>,
           <<"prepare", "hub", "publish", "serve">>, <<"check", "take", "wait", "begin">>,
           <<"take", "wait", "lock", "swap", "create", "register", "install",
             "check", "take", "wait", "begin">>,
           <<"stopFile">>, <<"stopSender">>, <<"take", "wait", "lock", "offline">>}
    <3>1. Program[kind] \in {<<"reset">>, <<"beSender">>, <<"beReceiver">>, EnsureSender,
                             StartSource, StartDiscovery, Manual, <<"stopFile">>,
                             <<"stopSender">>, ReceiverStop}
      BY DEF Program
    <3>. QED BY <3>1, Spelled, Zenon
  <2>2. /\ Nth(Program[kind], 1) \in {"reset", "beSender", "beReceiver", "hub", "prepare", "check",
                                      "take", "stopFile", "stopSender"}
        /\ Nth(Program[kind], 1) = "take" => Nth(Program[kind], 3) = "lock"
    <3>1. /\ Nth(<<"reset">>, 1) = "reset" /\ Nth(<<"beSender">>, 1) = "beSender"
          /\ Nth(<<"beReceiver">>, 1) = "beReceiver" /\ Nth(<<"hub", "publish">>, 1) = "hub"
          /\ Nth(<<"prepare", "hub", "publish", "serve">>, 1) = "prepare"
          /\ Nth(<<"check", "take", "wait", "begin">>, 1) = "check"
          /\ Nth(<<"stopFile">>, 1) = "stopFile" /\ Nth(<<"stopSender">>, 1) = "stopSender"
      BY DEF Nth
    <3>2. /\ Nth(<<"take", "wait", "lock", "offline">>, 1) = "take"
          /\ Nth(<<"take", "wait", "lock", "offline">>, 3) = "lock"
          /\ Nth(<<"take", "wait", "lock", "swap", "create", "register", "install",
                   "check", "take", "wait", "begin">>, 1) = "take"
          /\ Nth(<<"take", "wait", "lock", "swap", "create", "register", "install",
                   "check", "take", "wait", "begin">>, 3) = "lock"
      BY DEF Nth
    <3>. QED BY <2>1, <3>1, <3>2, Zenon
  <2>3. ASSUME kind = "stopReceiver", NEW i \in 1 .. Len(Program[kind])
        PROVE  Program[kind][i] \in {"take", "wait", "lock", "offline"}
    <3>1. Program[kind] = <<"take", "wait", "lock", "offline">>
      <4>1. Program["stopReceiver"] = ReceiverStop
        BY DEF Program
      <4>. QED BY <2>3, <4>1, Spelled, Zenon
    <3>. QED BY <2>3, <3>1
  <2>. QED BY <2>2, <2>3, Starts
<1>3. /\ todo' \in [Actor -> Seq(Step)] /\ Places' /\ Moves(Op) /\ todo'[Op] = Program[kind]
  BY <1>2, Takes DEF Begin, IInv, Moves
<1>4. /\ todo'[Main] = todo[Main] /\ RunningLoops' = RunningLoops /\ todo[Main] # <<>>
  BY <1>1, <1>3, RolesConstants, MainAhead DEF Moves, Actor, RunningLoops, IInv
<1>5. /\ lastOp' = kind /\ cancelled' = cancelled \ {Op}
      /\ UNCHANGED <<hold, joins, receiverMu, mode, hub, source, agent, live, down, loop, online,
                     closed>>
  BY DEF Begin, senderVars, agentVars
<1>6. Types'
  BY <1>3, <1>5 DEF IInv, Types
<1>7. Turns'
  <2>1. Left' = Left
    BY <1>4 DEF Left
  <2>. QED BY <1>1, <1>5, <2>1 DEF Turns
<1>8. LoopsOwned'
  <2>1. Op \notin RunningLoops
    BY RolesConstants DEF RunningLoops
  <2>. QED BY <1>1, <1>2, <1>3, <1>4, <1>5, <2>1
           DEF IInv, LoopsOwned, Unlooped, Ahead, Drivers, Connecting
<1>9. AgentsOwned'
  BY <1>1, <1>2, <1>3, <1>5, AgentsKeep DEF Section
<1>10. ModeKept'
  BY <1>1, <1>2, <1>3, <1>4, <1>5 DEF IInv, ModeKept, Checked, Ahead
<1>11. Stopping'
  BY <1>2, <1>3, <1>5 DEF Stopping
<1>12. StopsAreClean'
  BY <1>2, <1>3, <1>4 DEF StopsAreClean
<1>. QED BY <1>3, <1>6, <1>7, <1>8, <1>9, <1>10, <1>11, <1>12 DEF IInv

\* Nobody goes on: the request is cancelled, the network changes.
LEMMA NextNobody ==
    ASSUME IInv, Cancel \/ Disconnect \/ SenderComesOrGoes \/ UNCHANGED vars
    PROVE  IInv'
<1>1. /\ UNCHANGED <<todo, hold, joins, receiverMu, mode, hub, source, agent, live, loop, closed,
                     lastOp>>
      /\ cancelled \subseteq cancelled' /\ cancelled' \subseteq cancelled \cup {Op}
      /\ down' \subseteq down \cup ({agent} \ {NoAgent})
      /\ online' \in BOOLEAN
  <2>1. online \in BOOLEAN
    BY DEF IInv, Types
  <2>. QED BY <2>1 DEF Cancel, Disconnect, SenderComesOrGoes, Connected, vars, locals, senderVars,
                       agentVars
<1>2. Types'
  BY <1>1 DEF IInv, Types, Actor
<1>3. Places' /\ Turns'
  BY <1>1 DEF IInv, Places, Turns, Left
<1>4. LoopsOwned'
  BY <1>1 DEF IInv, LoopsOwned, Unlooped, Ahead, RunningLoops
<1>5. AgentsOwned'
  BY <1>1 DEF IInv, AgentsOwned, Ahead
<1>6. ModeKept'
  BY <1>1 DEF IInv, ModeKept, Checked, Ahead, RunningLoops
<1>7. Stopping' /\ StopsAreClean'
  BY <1>1 DEF IInv, Stopping, StopsAreClean, RunningLoops
<1>. QED BY <1>2, <1>3, <1>4, <1>5, <1>6, <1>7 DEF IInv

-----------------------------------------------------------------------------
(* startDiscovery and stopDiscovery, by the operation or by main *)

\* A driver in them is the only one that is.
LEMMA DriverAlone ==
    ASSUME IInv, NEW x \in Drivers, NEW s \in {"check", "take", "wait", "begin"}, At(x, s)
    PROVE  /\ x \in Actor /\ todo[x] # <<>> /\ Ahead(x, 1) = s /\ Main # Op
           /\ \A y \in Drivers : y # x => Ahead(y, 1) \in {"run", "close", "joinOp", "end"}
           /\ x = Main => todo[Op] = <<>> /\ Ahead(Op, 1) = "end"
           /\ x = Op => Left \in {4, 5, 6} /\ todo[Main] # <<>>
<1>1. x \in Actor /\ todo[x] # <<>> /\ Ahead(x, 1) = s /\ Main # Op
  BY AtAhead, RolesConstants DEF Drivers, Actor, At, IInv
<1>2. CASE x = Main
  <2>1. Left \in {10, 9, 8, 7, 3, 2}
    BY <1>1, <1>2, MainAhead DEF IInv
  <2>2. todo[Op] = <<>> /\ Ahead(Op, 1) = "end"
    BY <2>1, OpAhead DEF IInv, Turns
  <2>. QED BY <1>1, <1>2, <2>2 DEF Drivers
<1>3. CASE x = Op
  BY <1>1, <1>3, OpAlone DEF Drivers
<1>. QED BY <1>2, <1>3 DEF Drivers

\* startDiscovery returns an error, or has passed its check.
LEMMA NextCheck ==
    ASSUME IInv, NEW x \in Drivers, NEW s \in {"check", "begin"}, At(x, s),
           Fail(x) \/ (s = "check" /\ mode # "sender" /\ Next1(x)),
           UNCHANGED <<cancelled, hold, joins, receiverMu, mode, hub, source, agent, live, down,
                       loop, online, closed, lastOp>>
    PROVE  IInv'
<1>1. /\ x \in Actor /\ todo[x] # <<>> /\ Ahead(x, 1) = s /\ Main # Op
      /\ x = Main => todo[Op] = <<>> /\ Ahead(Op, 1) = "end"
  BY DriverAlone
<1>2. /\ todo' \in [Actor -> Seq(Step)] /\ Places' /\ Moves(x)
      /\ x = Op => Nth(todo'[Op], 1) \in {"take", "end"}
      /\ x = Op /\ Nth(todo'[Op], 1) = "take" => mode # "sender"
      /\ x = Main => Left' \in {9, 6} /\ Left \in {10, 7} /\ (Left' = 9 => Left = 10)
  <2>1. CASE Fail(x)
    BY <1>1, <2>1, GivesUp, MainAhead DEF IInv, Moves
  <2>2. CASE s = "check" /\ mode # "sender" /\ Next1(x)
    <3>1. /\ todo' \in [Actor -> Seq(Step)] /\ Places' /\ Moves(x)
          /\ Nth(todo'[x], 1) = Ahead(x, 2) /\ (x = Main => Left' = Left - 1)
      BY <1>1, <2>2, Goes DEF IInv, Moves
    <3>2. x = Op => Ahead(Op, 2) = "take"
      BY <1>1, <2>2, OpMoves DEF Follows
    <3>3. x = Main => Left = 10
      BY <1>1, <2>2, MainAhead DEF IInv
    <3>. QED BY <2>2, <3>1, <3>2, <3>3
  <2>. QED BY <2>1, <2>2
<1>3. Types'
  BY <1>2 DEF IInv, Types
<1>4. CASE x = Op
  <2>1. /\ Turns' /\ LoopsOwned' /\ AgentsOwned' /\ Stopping' /\ StopsAreClean'
        /\ RunningLoops' = RunningLoops
    BY <1>1, <1>2, <1>4, OpKeeps DEF Section, Connecting
  <2>2. ModeKept'
    BY <1>1, <1>2, <1>4, <2>1 DEF IInv, ModeKept, Checked, Ahead
  <2>. QED BY <1>2, <1>3, <2>1, <2>2 DEF IInv
<1>5. CASE x = Main
  <2>1. /\ todo'[Op] = todo[Op] /\ Op \in Actor /\ RunningLoops' = RunningLoops
        /\ todo'[Main] # <<>> /\ lastOp = "none"
    <3>1. todo'[Main] # <<>>
      BY <1>2, <1>5, MainNext
    <3>2. lastOp = "none"
      BY <1>2, <1>5 DEF IInv, Turns
    <3>. QED BY <1>1, <1>2, <1>5, <3>1, <3>2, RolesConstants DEF Moves, Actor, RunningLoops
  <2>2. Nth(todo'[Main], 1) \in {"take", "run"}
    <3>1. Left' = 9 => Nth(todo'[Main], 1) = "take"
      BY <1>1, <1>2, <1>5, MainNext
    <3>2. Left' = 6 => Nth(todo'[Main], 1) = "run"
      BY <1>1, <1>2, <1>5, MainNext
    <3>. QED BY <1>2, <1>5, <3>1, <3>2
  <2>3. Turns'
    BY <1>1, <1>2, <1>5, <2>1 DEF IInv, Turns
  <2>4. LoopsOwned'
    <3>1. \A y \in Drivers : Nth(todo'[y], 1) \notin {"begin", "offline", "release"} \cup Connecting
      BY <1>1, <1>5, <2>1, <2>2 DEF Drivers, Ahead, Connecting
    <3>2. \A y \in Drivers : Nth(todo'[y], 1) # "wait"
      BY <1>1, <1>5, <2>1, <2>2 DEF Drivers, Ahead
    <3>3. \A y \in Drivers : Ahead(y, 1) # "wait"
      BY <1>1, <1>5 DEF Drivers
    <3>. QED BY <2>1, <3>1, <3>2, <3>3 DEF IInv, LoopsOwned, Unlooped, Ahead
  <2>5. AgentsOwned'
    BY <1>1, <1>2, <1>5, <2>2, AgentsKeep DEF Section
  <2>6. ModeKept'
    BY <2>1 DEF IInv, ModeKept, Checked, Ahead
  <2>7. Stopping' /\ StopsAreClean'
    BY <2>1 DEF Stopping, StopsAreClean
  <2>. QED BY <1>2, <1>3, <2>3, <2>4, <2>5, <2>6, <2>7 DEF IInv
<1>. QED BY <1>4, <1>5 DEF Drivers

\* A driver takes the loop, to wait for it.
LEMMA NextTake ==
    ASSUME IInv, NEW x \in Drivers, Take(x)
    PROVE  IInv'
<1>1. /\ x \in Actor /\ todo[x] # <<>> /\ Ahead(x, 1) = "take" /\ Main # Op
      /\ \A y \in Drivers : y # x => Ahead(y, 1) \in {"run", "close", "joinOp", "end"}
      /\ x = Main => todo[Op] = <<>> /\ Ahead(Op, 1) = "end"
      /\ x = Op => Left \in {4, 5, 6} /\ todo[Main] # <<>>
  <2>1. At(x, "take")
    BY DEF Take
  <2>. QED BY <2>1, DriverAlone
<1>2. /\ todo' \in [Actor -> Seq(Step)] /\ Places' /\ Moves(x)
      /\ Nth(todo'[x], 1) = Ahead(x, 2) /\ Nth(todo'[x], 2) = Ahead(x, 3)
      /\ x = Main => Left' = Left - 1
      /\ todo'[x] = Tail(todo[x])
  BY <1>1, Goes DEF Take, IInv, Moves
<1>3. /\ x = Main => Left \in {9, 3} /\ Left' \in {8, 2}
      /\ Nth(todo'[x], 1) = "wait" /\ todo'[Main] # <<>>
      /\ RunningLoops' = RunningLoops /\ Op \in Actor /\ Main \in Actor
      /\ \A y \in Drivers : y # x => todo'[y] = todo[y]
  <2>1. /\ RunningLoops' = RunningLoops /\ Op \in Actor /\ Main \in Actor
        /\ \A y \in Drivers : y # x => todo'[y] = todo[y]
    BY <1>2, RolesConstants DEF Moves, Actor, RunningLoops, Drivers
  <2>2. CASE x = Op
    <3>1. Ahead(Op, 2) = "wait"
      BY <1>1, <2>2, OpMoves DEF Follows
    <3>. QED BY <1>1, <1>2, <2>1, <2>2, <3>1 DEF Drivers
  <2>3. CASE x = Main
    <3>1. Left \in {9, 3} /\ Left' \in {8, 2}
      BY <1>1, <1>2, <2>3, MainAhead DEF IInv
    <3>2. Nth(todo'[Main], 1) = "wait" /\ todo'[Main] # <<>>
      BY <1>2, <3>1, MainNext
    <3>. QED BY <2>1, <2>3, <3>1, <3>2
  <2>. QED BY <2>2, <2>3 DEF Drivers
<1>4. /\ joins' = [joins EXCEPT ![x] = loop] /\ loop' = NoLoop
      /\ joins \in [Actor -> Loops \cup {NoLoop}] /\ loop \in Loops \cup {NoLoop}
      /\ cancelled' = cancelled \cup ({loop} \ {NoLoop})
      /\ UNCHANGED <<hold, receiverMu, mode, hub, source, agent, live, down, online, closed,
                     lastOp>>
  BY DEF Take, senderVars, agentVars, IInv, Types
<1>5. Types'
  BY <1>1, <1>2, <1>4 DEF IInv, Types, Actor
<1>6. Turns'
  <2>1. x = Op => Left' = Left
    BY <1>1, <1>3 DEF Left, Drivers
  <2>2. x = Main => todo'[Op] = todo[Op]
    BY <1>1, <1>3 DEF Drivers
  <2>3. x = Main => (Left' > 6 => Left > 6) /\ (Left' < 5 => Left < 4) /\ (Left' < 4 => Left < 4)
    BY <1>2, <1>3
  <2>. QED BY <1>1, <1>3, <1>4, <2>1, <2>2, <2>3 DEF IInv, Turns, Drivers
<1>7. LoopsOwned'
  <2>1. ASSUME NEW l \in RunningLoops
        PROVE  /\ l \in cancelled'
               /\ \E y \in Drivers : Nth(todo'[y], 1) = "wait" /\ joins'[y] = l
    <3>1. l = loop /\ l # NoLoop
      BY <1>1, RolesConstants DEF IInv, LoopsOwned, RunningLoops
    <3>. QED BY <1>1, <1>3, <1>4, <3>1
  <2>. QED BY <1>3, <1>4, <2>1 DEF LoopsOwned, Ahead
<1>8. AgentsOwned'
  BY <1>1, <1>2, <1>3, <1>4, AgentsKeep DEF Section
<1>9. ModeKept'
  <2>1. CASE x = Op
    BY <1>1, <1>2, <1>3, <1>4, <2>1 DEF IInv, ModeKept, Checked, Ahead
  <2>2. CASE x = Main
    <3>1. todo'[Op] = todo[Op]
      BY <1>1, <1>3, <2>2 DEF Drivers
    <3>. QED BY <1>3, <1>4, <3>1 DEF IInv, ModeKept, Checked, Ahead
  <2>. QED BY <2>1, <2>2 DEF Drivers
<1>10. Stopping' /\ StopsAreClean'
  <2>1. CASE x = Op
    <3>1. todo'[Op] # <<>>
      BY <1>2, <1>3, <2>1, NthTail
    <3>2. Stopping'
      BY <1>1, <1>2, <1>4, <2>1, StoppingGoes
    <3>. QED BY <1>3, <3>1, <3>2 DEF StopsAreClean
  <2>2. CASE x = Main
    <3>1. todo'[Op] = todo[Op]
      BY <1>1, <1>3, <2>2 DEF Drivers
    <3>. QED BY <1>3, <1>4, <3>1 DEF IInv, Stopping, StopsAreClean
  <2>. QED BY <2>1, <2>2 DEF Drivers
<1>. QED BY <1>2, <1>5, <1>6, <1>7, <1>8, <1>9, <1>10 DEF IInv

\* It has waited: no loop is left.
LEMMA NextWait ==
    ASSUME IInv, NEW x \in Drivers, Wait(x)
    PROVE  IInv'
<1>1. /\ x \in Actor /\ todo[x] # <<>> /\ Ahead(x, 1) = "wait" /\ Main # Op
      /\ \A y \in Drivers : y # x => Ahead(y, 1) \in {"run", "close", "joinOp", "end"}
      /\ x = Main => todo[Op] = <<>> /\ Ahead(Op, 1) = "end"
      /\ x = Op => Left \in {4, 5, 6} /\ todo[Main] # <<>>
  <2>1. At(x, "wait")
    BY DEF Wait
  <2>. QED BY <2>1, DriverAlone
<1>2. /\ todo' \in [Actor -> Seq(Step)] /\ Places' /\ Moves(x)
      /\ Nth(todo'[x], 1) = Ahead(x, 2)
      /\ x = Main => Left' = Left - 1
      /\ todo'[x] = Tail(todo[x])
  BY <1>1, Goes DEF Wait, IInv, Moves
<1>3. /\ x = Main => Left \in {8, 2} /\ Left' \in {7, 1}
      /\ Nth(todo'[x], 1) \in {"begin", "lock", "release"} /\ todo'[Main] # <<>>
      /\ RunningLoops' = RunningLoops /\ Op \in Actor /\ Main \in Actor
      /\ \A y \in Drivers : y # x => todo'[y] = todo[y]
  <2>1. /\ RunningLoops' = RunningLoops /\ Op \in Actor /\ Main \in Actor
        /\ \A y \in Drivers : y # x => todo'[y] = todo[y]
    BY <1>2, RolesConstants DEF Moves, Actor, RunningLoops, Drivers
  <2>2. CASE x = Op
    <3>1. Ahead(Op, 2) \in {"begin", "lock"}
      BY <1>1, <2>2, OpMoves DEF Follows
    <3>. QED BY <1>1, <1>2, <2>1, <2>2, <3>1 DEF Drivers
  <2>3. CASE x = Main
    <3>1. Left \in {8, 2} /\ Left' \in {7, 1}
      BY <1>1, <1>2, <2>3, MainAhead DEF IInv
    <3>2. Nth(todo'[Main], 1) \in {"begin", "release"} /\ todo'[Main] # <<>>
      BY <1>2, <3>1, MainNext
    <3>. QED BY <2>1, <2>3, <3>1, <3>2
  <2>. QED BY <2>2, <2>3 DEF Drivers
<1>4. /\ joins' = [joins EXCEPT ![x] = NoLoop] /\ joins[x] \notin RunningLoops
      /\ joins \in [Actor -> Loops \cup {NoLoop}]
      /\ UNCHANGED <<cancelled, hold, receiverMu, mode, hub, source, agent, live, down, loop,
                     online, closed, lastOp>>
  BY DEF Wait, senderVars, agentVars, IInv, Types
<1>5. Types'
  BY <1>1, <1>2, <1>4 DEF IInv, Types
<1>6. Turns'
  <2>1. x = Op => Left' = Left
    BY <1>1, <1>3 DEF Left, Drivers
  <2>2. x = Main => todo'[Op] = todo[Op]
    BY <1>1, <1>3 DEF Drivers
  <2>3. x = Main => (Left' > 6 => Left > 6) /\ (Left' < 5 => Left < 4) /\ (Left' < 4 => Left < 4)
    BY <1>2, <1>3
  <2>. QED BY <1>1, <1>3, <1>4, <2>1, <2>2, <2>3 DEF IInv, Turns, Drivers
<1>7. LoopsOwned'
  <2>1. loop = NoLoop
    BY <1>1 DEF IInv, LoopsOwned
  <2>2. RunningLoops = {}
    BY <1>1, <1>4, <2>1, RolesConstants DEF IInv, LoopsOwned, RunningLoops
  <2>. QED BY <1>3, <1>4, <2>1, <2>2 DEF LoopsOwned
<1>8. AgentsOwned'
  BY <1>1, <1>2, <1>3, <1>4, AgentsKeep DEF Section
<1>9. ModeKept'
  <2>1. CASE x = Op
    BY <1>1, <1>2, <1>3, <1>4, <2>1 DEF IInv, ModeKept, Checked, Ahead
  <2>2. CASE x = Main
    <3>1. todo'[Op] = todo[Op]
      BY <1>1, <1>3, <2>2 DEF Drivers
    <3>. QED BY <1>3, <1>4, <3>1 DEF IInv, ModeKept, Checked, Ahead
  <2>. QED BY <2>1, <2>2 DEF Drivers
<1>10. Stopping' /\ StopsAreClean'
  <2>1. CASE x = Op
    <3>1. todo'[Op] # <<>>
      BY <1>2, <1>3, <2>1, NthTail
    <3>2. Stopping'
      BY <1>1, <1>2, <1>4, <2>1, StoppingGoes
    <3>. QED BY <1>3, <3>1, <3>2 DEF StopsAreClean
  <2>2. CASE x = Main
    <3>1. todo'[Op] = todo[Op]
      BY <1>1, <1>3, <2>2 DEF Drivers
    <3>. QED BY <1>3, <1>4, <3>1 DEF IInv, Stopping, StopsAreClean
  <2>. QED BY <2>1, <2>2 DEF Drivers
<1>. QED BY <1>2, <1>5, <1>6, <1>7, <1>8, <1>9, <1>10 DEF IInv

\* A loop begins when none runs, and its owner is then behind startDiscovery.
LEMMA NextBeginLoop ==
    ASSUME IInv, NEW x \in Drivers, BeginLoop(x), ~closed
    PROVE  IInv'
<1>1. /\ x \in Actor /\ todo[x] # <<>> /\ Ahead(x, 1) = "begin" /\ Main # Op
      /\ \A y \in Drivers : y # x => Ahead(y, 1) \in {"run", "close", "joinOp", "end"}
      /\ x = Main => todo[Op] = <<>> /\ Ahead(Op, 1) = "end"
      /\ x = Op => Left \in {4, 5, 6} /\ todo[Main] # <<>>
  <2>1. At(x, "begin")
    BY DEF BeginLoop
  <2>. QED BY <2>1, DriverAlone
<1>2. PICK l \in Loops \ RunningLoops, first \in {"direct", "look"} :
        /\ todo' = [todo EXCEPT ![x] = Tail(@), ![l] = <<first>>]
        /\ loop' = l /\ cancelled' = cancelled \ {l} /\ mode' = "receiver"
  BY DEF BeginLoop
<1>3. UNCHANGED <<hold, joins, receiverMu, hub, source, agent, live, down, online, closed, lastOp>>
  BY DEF BeginLoop, senderVars, agentVars
<1>4. RunningLoops = {} /\ x \notin Loops /\ l \in Actor /\ Op \in Actor /\ Main \in Actor
  BY <1>1, NoLoops, RolesConstants DEF Unlooped, Drivers, Actor
<1>5. /\ todo'[x] = Tail(todo[x]) /\ todo'[l] = <<first>>
      /\ \A y \in Actor : y # x /\ y # l => todo'[y] = todo[y]
  <2>1. todo \in [Actor -> Seq(Step)]
    BY DEF IInv, Types
  <2>. QED BY <1>1, <1>2, <1>4, <2>1
<1>6. /\ Rest(<<first>>, LoopSteps) /\ <<first>> \in Seq(Step) /\ Nth(<<first>>, 1) = first
      /\ <<first>> # <<>>
  <2>1. Rest(<<first>>, LoopSteps)
    BY <1>2, Starts, Zenon
  <2>2. first \in Step
    BY <1>2 DEF Step
  <2>. QED BY <2>1, <2>2 DEF Nth
<1>7. todo' \in [Actor -> Seq(Step)] /\ Places'
  <2>1. todo'[x] \in Seq(Step)
    BY <1>1, <1>5, Passes DEF IInv
  <2>2. todo' \in [Actor -> Seq(Step)]
    <3>1. todo \in [Actor -> Seq(Step)] /\ Tail(todo[x]) \in Seq(Step)
      BY <1>5, <2>1 DEF IInv, Types
    <3>. QED BY <1>2, <1>6, <3>1
  <2>3. OnCourse(todo'[Main]) /\ Rest(todo'[Op], OpSteps)
    <3>1. l # Main /\ l # Op
      BY RolesConstants
    <3>. QED BY <1>1, <1>4, <1>5, <3>1, Passes DEF IInv, Places
  <2>4. ASSUME NEW m \in Loops PROVE Rest(todo'[m], LoopSteps)
    BY <1>4, <1>5, <1>6 DEF IInv, Places, Actor
  <2>. QED BY <2>2, <2>3, <2>4 DEF Places
<1>8. /\ Nth(todo'[l], 1) \in {"direct", "look"} /\ RunningLoops' = {l}
      /\ \A y \in Drivers : y # x => todo'[y] = todo[y]
  <2>1. RunningLoops' = {l}
    BY <1>4, <1>5, <1>6 DEF RunningLoops, Actor
  <2>. QED BY <1>4, <1>5, <1>6, <2>1, RolesConstants DEF Drivers, Actor
<1>9. /\ x = Op => Nth(todo'[Op], 1) = "end" /\ lastOp # "stopReceiver" /\ mode # "sender"
      /\ x = Main => /\ Left' = 6 /\ Nth(todo'[Main], 1) = "run" /\ todo'[Main] # <<>>
                     /\ lastOp = "none" /\ mode = "receiver"
  <2>1. CASE x = Op
    <3>1. Ahead(Op, 2) = "end" /\ lastOp # "stopReceiver"
      BY <1>1, <2>1, OpMoves, SafeSteps DEF Follows
    <3>2. mode # "sender"
      BY <1>1, <2>1 DEF IInv, ModeKept, Checked
    <3>. QED BY <1>1, <1>5, <2>1, <3>1, <3>2, Passes DEF IInv
  <2>2. CASE x = Main
    <3>1. Left = 7
      BY <1>1, <2>2, MainAhead DEF IInv
    <3>2. Left' = 6
      BY <1>1, <1>5, <2>2, <3>1, Passes DEF IInv
    <3>3. Nth(todo'[Main], 1) = "run" /\ todo'[Main] # <<>>
      BY <1>7, <3>2, MainNext
    <3>. QED BY <1>1, <2>2, <3>1, <3>2, <3>3 DEF IInv, Turns
  <2>. QED BY <2>1, <2>2 DEF Drivers
<1>10. Types'
  BY <1>2, <1>3, <1>7 DEF IInv, Types
<1>11. Turns'
  <2>1. x = Op => Left' = Left
    BY <1>1, <1>8 DEF Left, Drivers
  <2>. QED BY <1>1, <1>3, <1>9, <2>1 DEF IInv, Turns, Drivers
<1>12. LoopsOwned'
  <2>1. \A y \in Drivers : Nth(todo'[y], 1) \in {"run", "close", "joinOp", "end"}
    BY <1>1, <1>8, <1>9 DEF Drivers, Ahead
  <2>. QED BY <1>2, <1>8, <2>1 DEF LoopsOwned, Unlooped, Connecting, Ahead
<1>13. AgentsOwned'
  <2>1. x \notin receiverMu /\ l \notin receiverMu /\ receiverMu \subseteq Actor
    <3>1. Ahead(l, 1) = "end"
      BY <1>4, LoopAhead DEF IInv, RunningLoops
    <3>. QED BY <1>1, <1>4, <3>1 DEF IInv, AgentsOwned, Types
  <2>2. Nth(todo'[x], 1) \notin Section /\ Nth(todo'[l], 1) \notin Section
    BY <1>8, <1>9 DEF Section, Drivers
  <2>3. \A y \in Actor : y \in receiverMu' <=> Nth(todo'[y], 1) \in Section
    BY <1>3, <1>5, <2>1, <2>2 DEF IInv, AgentsOwned, Ahead, Section
  <2>4. \A y \in receiverMu : Nth(todo'[y], 1) = Ahead(y, 1)
    BY <1>5, <2>1 DEF Ahead
  <2>. QED BY <1>3, <2>3, <2>4 DEF IInv, AgentsOwned, Section, Ahead
<1>14. ModeKept'
  <2>1. Nth(todo'[Op], 1) = "end" /\ mode # "sender"
    BY <1>1, <1>8, <1>9 DEF Drivers, Ahead
  <2>2. ~hub /\ ~source
    BY <2>1 DEF IInv, ModeKept, Types
  <2>. QED BY <1>2, <1>3, <2>1, <2>2 DEF ModeKept, Checked, Ahead
<1>15. Stopping' /\ StopsAreClean'
  <2>1. lastOp # "stopReceiver" /\ todo'[Main] # <<>>
    BY <1>1, <1>8, <1>9 DEF Drivers
  <2>. QED BY <1>3, <2>1 DEF Stopping, StopsAreClean
<1>. QED BY <1>7, <1>10, <1>11, <1>12, <1>13, <1>14, <1>15 DEF IInv

\* Every step of startDiscovery and stopDiscovery.
LEMMA NextDiscovery ==
    ASSUME IInv, NEW x \in Drivers, Discovery(x)
    PROVE  IInv'
<1>1. CASE Check(x)
  <2>1. /\ At(x, "check") /\ (Fail(x) \/ (mode # "sender" /\ Next1(x)))
        /\ UNCHANGED <<cancelled, hold, joins, receiverMu, mode, hub, source, agent, live, down,
                       loop, online, closed, lastOp>>
    BY <1>1 DEF Check, locals, senderVars, agentVars
  <2>. QED BY <2>1, NextCheck
<1>2. CASE BeginLoop(x) /\ closed
  <2>1. /\ At(x, "begin") /\ Fail(x)
        /\ UNCHANGED <<cancelled, hold, joins, receiverMu, mode, hub, source, agent, live, down,
                       loop, online, closed, lastOp>>
    BY <1>2 DEF BeginLoop, senderVars, agentVars
  <2>. QED BY <2>1, NextCheck
<1>. QED BY <1>1, <1>2, NextTake, NextWait, NextBeginLoop DEF Discovery

-----------------------------------------------------------------------------
(* Close *)

\* Main goes on between its two runs through stopDiscovery.
LEMMA NextClose ==
    ASSUME IInv, Signal \/ BeginClose \/ JoinOp
    PROVE  IInv'
<1>1. /\ Main \in Actor /\ Op \in Actor /\ Main # Op /\ todo[Main] # <<>> /\ Next1(Main)
      /\ Ahead(Main, 1) \in {"run", "close", "joinOp"}
      /\ Signal => Left = 6
      /\ BeginClose => Left = 5
      /\ JoinOp => Left = 4
  <2>1. Main \in Actor /\ Op \in Actor /\ Main # Op
    BY RolesConstants DEF Actor
  <2>. QED BY <2>1, AtAhead, MainAhead DEF Signal, BeginClose, JoinOp, IInv
<1>2. /\ todo' \in [Actor -> Seq(Step)] /\ Places' /\ Moves(Main) /\ Left' = Left - 1
  BY <1>1, Goes DEF IInv, Moves
<1>3. /\ Left' \in {5, 4, 3} /\ Nth(todo'[Main], 1) \in {"close", "joinOp", "take"}
      /\ todo'[Main] # <<>>
  <2>1. Left' \in {5, 4, 3}
    BY <1>1, <1>2
  <2>. QED BY <1>2, <2>1, MainNext
<1>4. /\ todo'[Op] = todo[Op] /\ RunningLoops' = RunningLoops
  BY <1>1, <1>2, RolesConstants DEF Moves, Actor, RunningLoops
<1>5. /\ UNCHANGED <<hold, joins, receiverMu, mode, hub, source, agent, live, down, loop, online,
                     lastOp>>
      /\ cancelled \subseteq cancelled' /\ cancelled' \subseteq cancelled \cup {Op}
      /\ closed' \in {closed, TRUE}
      /\ BeginClose => closed' = TRUE
  BY DEF Signal, BeginClose, JoinOp, locals, senderVars, agentVars
<1>6. Types'
  BY <1>1, <1>2, <1>5 DEF IInv, Types
<1>7. Turns'
  BY <1>1, <1>2, <1>3, <1>4, <1>5 DEF IInv, Turns, JoinOp
<1>8. LoopsOwned'
  BY <1>1, <1>3, <1>4, <1>5 DEF IInv, LoopsOwned, Unlooped, Ahead, Drivers, Connecting
<1>9. AgentsOwned'
  BY <1>1, <1>2, <1>3, <1>5, AgentsKeep DEF Section
<1>10. ModeKept'
  BY <1>4, <1>5 DEF IInv, ModeKept, Checked, Ahead
<1>11. Stopping' /\ StopsAreClean'
  BY <1>3, <1>4, <1>5 DEF IInv, Stopping, StopsAreClean
<1>. QED BY <1>2, <1>6, <1>7, <1>8, <1>9, <1>10, <1>11 DEF IInv

\* Nobody holds receiverMu when main releases what there is.
LEMMA NextRelease ==
    ASSUME IInv, Release
    PROVE  IInv'
<1>1. /\ Main \in Actor /\ Op \in Actor /\ Main # Op /\ todo[Main] # <<>> /\ Next1(Main)
      /\ Ahead(Main, 1) = "release" /\ Left = 1
  <2>1. Main \in Actor /\ Op \in Actor /\ Main # Op
    BY RolesConstants DEF Actor
  <2>. QED BY <2>1, AtAhead, MainAhead DEF Release, IInv
<1>2. /\ todo' \in [Actor -> Seq(Step)] /\ Places' /\ Moves(Main) /\ Left' = 0
      /\ Nth(todo'[Main], 1) = "end"
  <2>1. todo' \in [Actor -> Seq(Step)] /\ Places' /\ Moves(Main) /\ Left' = 0
    BY <1>1, Goes DEF IInv, Moves
  <2>. QED BY <2>1, MainNext
<1>3. /\ loop = NoLoop /\ RunningLoops = {} /\ RunningLoops' = {}
      /\ todo[Op] = <<>> /\ todo'[Op] = <<>> /\ closed /\ Ahead(Op, 1) = "end"
  <2>1. loop = NoLoop /\ RunningLoops = {}
    BY <1>1, NoLoops DEF Unlooped, Drivers
  <2>2. todo[Op] = <<>> /\ closed /\ Ahead(Op, 1) = "end"
    BY <1>1, OpAhead DEF IInv, Turns
  <2>. QED BY <1>1, <1>2, <2>1, <2>2, RolesConstants DEF Moves, Actor, RunningLoops
<1>4. receiverMu = {}
  <2>1. \A l \in Loops : Ahead(l, 1) = "end"
    BY <1>3, LoopAhead DEF IInv, RunningLoops
  <2>. QED BY <1>1, <1>3, <2>1 DEF IInv, AgentsOwned, Types, Actor
<1>5. /\ live' = {} /\ agent' = NoAgent /\ hub' = FALSE /\ source' = FALSE
      /\ UNCHANGED <<hold, joins, receiverMu, mode, down, loop, online, closed, lastOp, cancelled>>
  <2>1. live \subseteq {agent}
    BY <1>4 DEF IInv, AgentsOwned
  <2>. QED BY <2>1 DEF Release, locals
<1>6. Types'
  BY <1>2, <1>5 DEF IInv, Types
<1>7. Turns'
  BY <1>2, <1>3, <1>5 DEF Turns
<1>8. LoopsOwned'
  BY <1>3, <1>5 DEF LoopsOwned
<1>9. AgentsOwned'
  BY <1>1, <1>2, <1>4, <1>5 DEF IInv, AgentsOwned, Ahead, Moves
<1>10. ModeKept'
  BY <1>3, <1>5 DEF IInv, ModeKept, Checked, Ahead
<1>11. Stopping' /\ StopsAreClean'
  BY <1>3, <1>5 DEF IInv, Stopping, StopsAreClean
<1>. QED BY <1>2, <1>6, <1>7, <1>8, <1>9, <1>10, <1>11 DEF IInv

-----------------------------------------------------------------------------
(* The theorems *)

\* One step of anybody.
LEMMA NextIInv ==
    ASSUME IInv, ~Early, [Next]_vars
    PROVE  IInv'
<1>1. Main \in Drivers /\ Op \in Drivers
  BY DEF Drivers
<1>2. CASE OpStep
  BY <1>1, <1>2, NextDiscovery, NextOpConnect, NextSelect, NextSender, NextOffline DEF OpStep
<1>3. CASE MainStep
  BY <1>1, <1>3, NextDiscovery, NextClose, NextRelease DEF MainStep
<1>4. ASSUME NEW l \in Loops, LoopStep(l) PROVE IInv'
  BY <1>4, NextSeek, NextLoopConnect DEF LoopStep
<1>. QED BY <1>2, <1>3, <1>4, NextBegin, NextNobody, NextClose DEF Next

\* A set whose elements are equal has at most one.
LEMMA AtMostOne ==
    ASSUME NEW S, \A x, y \in S : x = y
    PROVE  Cardinality(S) <= 1
<1>1. CASE S = {}
  BY <1>1, FS_EmptySet
<1>2. CASE S # {}
  <2>1. PICK x : S = {x}
    BY <1>2
  <2>. QED BY <2>1, FS_Singleton
<1>. QED BY <1>1, <1>2

\* receiverMu is held by one goroutine, in the middle of startAgent or stopRole.
LEMMA TypesComplete ==
    ASSUME Types, AgentsOwned
    PROVE  TypeOK
<1>1. Cardinality(receiverMu) <= 1
  BY AtMostOne DEF AgentsOwned
<1>2. ASSUME NEW x \in receiverMu
      PROVE  /\ todo[x] # <<>>
             /\ Head(todo[x]) \in {"swap", "create", "register", "install", "offline"}
  <2>1. /\ todo[x] \in Seq(Step)
        /\ Ahead(x, 1) \in {"swap", "create", "register", "install", "offline"}
    BY DEF Types, AgentsOwned
  <2>. QED BY <2>1, NthTail DEF Ahead
<1>. QED BY <1>1, <1>2 DEF Types, TypeOK

\* At the start main is ahead of AutoStart, or the operation of ensureSender.
LEMMA InitIInv ==
    ASSUME Init
    PROVE  IInv
<1>1. PICK file \in {<<>>, StartSource} :
        todo = [x \in Actor |->
                  IF x = Op /\ mode = "sender" THEN EnsureSender \o file
                  ELSE IF x = Main
                    THEN (IF mode = "receiver" THEN StartDiscovery ELSE <<>>)
                           \o <<"run">> \o Close
                    ELSE <<>>]
  BY DEF Init
<1>2. DEFINE sender == EnsureSender \o file
             main == (IF mode = "receiver" THEN StartDiscovery ELSE <<>>) \o <<"run">> \o Close
<1>3. /\ Rest(sender, OpSteps) /\ Rest(<<>>, OpSteps) /\ Rest(<<>>, LoopSteps)
      /\ Nth(sender, 1) = "hub" /\ Nth(<<>>, 1) = "end"
  <2>1. Rest(sender, OpSteps) /\ Rest(<<>>, OpSteps) /\ Rest(<<>>, LoopSteps)
    BY <1>1, Starts, Zenon
  <2>2. sender \in {<<"hub", "publish">>,
                    <<"hub", "publish", "prepare", "hub", "publish", "serve">>}
    BY <1>1, Spelled, Zenon
  <2>. QED BY <2>1, <2>2, SelectedSteps, Zenon
<1>4. main \in Seq(Step) /\ OnCourse(main) /\ Len(main) = IF mode = "receiver" THEN 10 ELSE 6
  <2>1. main = IF mode = "receiver" THEN Course
               ELSE <<"run", "close", "joinOp", "take", "wait", "release">>
    BY Spelled, Zenon
  <2>. QED BY <2>1, CourseProperties, Zenon
<1>. HIDE DEF sender, main
<1>5. /\ Op \in Actor /\ Main \in Actor /\ Main # Op
      /\ \A l \in Loops : l \in Actor /\ l \notin Drivers
      /\ sender \in Seq(Step) /\ <<>> \in Seq(Step)
  BY <1>3, StepSets, RolesConstants DEF Actor, Drivers, Rest
<1>6. todo = [x \in Actor |-> IF x = Op /\ mode = "sender" THEN sender
                               ELSE IF x = Main THEN main ELSE <<>>]
  BY <1>1, Zenon DEF sender, main
<1>7. /\ todo \in [Actor -> Seq(Step)] /\ todo[Main] = main
      /\ todo[Op] = IF mode = "sender" THEN sender ELSE <<>>
      /\ \A l \in Loops : todo[l] = <<>>
  BY <1>4, <1>5, <1>6 DEF Drivers
<1>8. Left = IF mode = "receiver" THEN 10 ELSE 6
  BY <1>4, <1>7 DEF Left
<1>9. Types
  BY <1>7 DEF Types, Init, Actor
<1>10. Places
  BY <1>3, <1>4, <1>7 DEF Places
<1>11. Turns
  <2>1. lastOp = "none"
    BY DEF Init
  <2>2. CASE mode = "receiver"
    BY <1>7, <1>8, <2>1, <2>2 DEF Turns
  <2>3. CASE mode # "receiver"
    BY <1>8, <2>3 DEF Turns
  <2>. QED BY <2>2, <2>3
<1>12. /\ RunningLoops = {} /\ todo[Main] # <<>>
       /\ Ahead(Op, 1) \in {"hub", "end"} /\ Ahead(Main, 1) \in {"check", "run"}
       /\ \A l \in Loops : Ahead(l, 1) = "end"
  <2>1. Ahead(Main, 1) \in {"check", "run"} /\ todo[Main] # <<>>
    BY <1>8, <1>9, <1>10, MainAhead
  <2>. QED BY <1>3, <1>7, <2>1 DEF RunningLoops, Ahead
<1>13. LoopsOwned
  BY <1>12 DEF LoopsOwned, Init
<1>14. AgentsOwned
  BY <1>12 DEF AgentsOwned, Init, Actor
<1>15. ModeKept
  BY <1>12 DEF ModeKept, Checked, Init
<1>16. Stopping /\ StopsAreClean
  BY <1>12 DEF Stopping, StopsAreClean, Init
<1>. QED BY <1>9, <1>10, <1>11, <1>13, <1>14, <1>15, <1>16 DEF IInv

\* The inductive invariant, of every run in which requests come after AutoStart.
THEOREM RolesInvariant ==
    ASSUME ~Early
    PROVE  Spec => []IInv
<1>1. Init => IInv
  BY InitIInv
<1>2. IInv /\ [Next]_vars => IInv'
  BY NextIInv
<1>. QED BY <1>1, <1>2, PTL DEF Spec

\* An instance has one role: while a hub or a source of ensureSender and
\* startSource exists, no agent has a session and no discovery loop runs.
THEOREM ModesSeparate ==
    ASSUME ~Early
    PROVE  Spec => []ModesExclusive
<1>1. IInv => ModesExclusive
  BY DEF IInv, ModeKept, ModesExclusive
<1>. QED BY <1>1, RolesInvariant, PTL

\* startDiscovery and startAgent keep one loop and one agent, which has an owner:
\* two loops cannot run, since one of them would be a.loop and the other waited
\* for, and a driver that waits has taken a.loop.
THEOREM ReceiverUnique ==
    ASSUME ~Early
    PROVE  Spec => []OneReceiver
<1>1. ASSUME IInv PROVE OneReceiver
  <2>1. TypeOK
    BY <1>1, TypesComplete DEF IInv
  <2>2. ASSUME NEW l \in RunningLoops, NEW m \in RunningLoops PROVE l = m
    <3>1. \A x, y \in Drivers : Ahead(x, 1) = "wait" /\ Ahead(y, 1) = "wait" => x = y
      <4>1. Ahead(Op, 1) = "wait" => Ahead(Main, 1) # "wait"
        BY <1>1, OpAhead, OpAlone DEF IInv
      <4>. QED BY <4>1 DEF Drivers
    <3>2. l \in Loops /\ m \in Loops
      BY DEF RunningLoops
    <3>. QED BY <1>1, <3>1, <3>2, RolesConstants DEF IInv, LoopsOwned
  <2>3. ASSUME NEW r \in live, NEW q \in live PROVE r = q
    BY <1>1 DEF IInv, AgentsOwned
  <2>4. Cardinality(RunningLoops) <= 1 /\ Cardinality(live) <= 1
    BY <2>2, <2>3, AtMostOne
  <2>5. ASSUME NEW r \in live
        PROVE  r = agent \/ \E x \in receiverMu : hold[x] = r
    BY <1>1 DEF IInv, AgentsOwned
  <2>. QED BY <2>1, <2>4, <2>5 DEF OneReceiver
<1>. QED BY <1>1, RolesInvariant, PTL

\* A driver that waits for a loop does not hold receiverMu, which the loop may
\* need to come to its end, and the loop's context has been cancelled: stopRole and
\* Close do not wait in a circle.  This is the safety part of OpEnds.
WaitsEnd ==
    \A x \in Drivers : At(x, "wait") =>
        x \notin receiverMu /\ (joins[x] \in RunningLoops => joins[x] \in cancelled)

\* stopDiscovery, called by an operation or by Close, never waits in a circle, for any
\* number of loops.
THEOREM NoCircularWait ==
    ASSUME ~Early
    PROVE  Spec => []WaitsEnd
<1>1. ASSUME IInv PROVE WaitsEnd
  <2>1. SUFFICES ASSUME NEW x \in Drivers, At(x, "wait")
                 PROVE  x \notin receiverMu /\ (joins[x] \in RunningLoops => joins[x] \in cancelled)
    BY DEF WaitsEnd
  <2>2. x \in Actor /\ Ahead(x, 1) = "wait"
    BY <1>1, <2>1, AtAhead DEF IInv, Drivers, Actor
  <2>3. x \notin receiverMu
    BY <1>1, <2>2 DEF IInv, AgentsOwned
  <2>4. loop \notin RunningLoops
    BY <1>1, <2>1, <2>2, RolesConstants DEF IInv, LoopsOwned, RunningLoops
  <2>. QED BY <1>1, <2>3, <2>4 DEF IInv, LoopsOwned
<1>. QED BY <1>1, RolesInvariant, PTL

\* stopRole("receiver") leaves no agent and no loop until the next operation, and
\* behind Close nothing runs.
THEOREM StopsClean ==
    ASSUME ~Early
    PROVE  Spec => []StopsAreClean
<1>1. IInv => StopsAreClean
  BY DEF IInv
<1>. QED BY <1>1, RolesInvariant, PTL

=============================================================================
