---------------------------- MODULE SessionProofs ----------------------------
(***************************************************************************)
(* Proofs about an agent's session for any number of connections, slots    *)
(* and tasks.  None of the three invariants is inductive: that no handler  *)
(* reads a closed file needs to know which descriptors are open at each    *)
(* place of a task; that a cache directory outlives its file, and that one *)
(* is kept at most, needs the order of BeSendSub, prune and removal; that  *)
(* close leaves nothing behind needs what each of its stages has ended.    *)
(***************************************************************************)
EXTENDS Session, Integers, FiniteSetTheorems, TLAPS

Lone(S) == \A x, y \in S : x = y

\* r.mu is held by a launch that found the agent open and at rest; a socket
\* between Accept and its registration has no handler.
Launching ==
    /\ acceptor \in Conn => h[acceptor] = "none"
    /\ \A c \in Conn : h[c] = "launch" => pc = "idle" /\ tid < MaxTasks
    /\ pc # "idle" => tid \in TaskNo

\* The task has a descriptor of its own.
Holding == {"sub", "work", "rename", "clear", "close"}

\* Open are the retained files and the task's own, which is not yet retained;
\* what is served is one of them, and withdrawn before it is closed.
Descriptors ==
    /\ opened = files \cup (IF pc \in Holding THEN {tid} ELSE {})
    /\ files \subseteq 1 .. tid
    /\ pc \in {"begin", "create", "uncache"} \cup Holding => tid \notin files
    /\ pc \in {"prune", "extract"} => files = {tid}
    /\ pc \in {"work", "rename"} => files = {}
    /\ pc = "close" => provider = NoFile
    /\ closer # "closed" /\ provider # NoFile => provider \in opened

\* agent.cache is what is on disk, until close removes it: the directory of the
\* retained archive, if any, and the one of the task that runs.
Caches ==
    /\ opened \cap archive \subseteq dirs
    /\ closer # "closed" => cache = dirs
    /\ dirs \subseteq 1 .. tid
    /\ pc = "create" => {tid} \cap archive \subseteq dirs
    /\ pc = "begin" => tid \notin dirs
    /\ pc = "extract" => dirs \subseteq {tid}
    /\ IF pc = "idle" THEN Lone(dirs) ELSE Lone(dirs \ {tid})

\* What agent.close has ended, stage by stage.
Ended ==
    /\ closer \notin {"open", "stopped"} => ~Locked
    /\ closer \in {"joined", "draining", "closed"} => pc = "idle" /\ ~command
    /\ closer \in {"draining", "closed"} => done
    /\ closer = "closed" =>
         acceptor = "ended" /\ (\A c \in Conn : h[c] = "none") /\ opened = {} /\ dirs = {}

IInv == TypeOK /\ Launching /\ Descriptors /\ Caches /\ Ended

-----------------------------------------------------------------------------
\* How many handlers read or send when one moves.
LEMMA UploadsCounted ==
    ASSUME TypeOK, NEW c \in Conn, NEW p, Goto(c, p)
    PROVE  /\ Cardinality(Uploading) \in Nat /\ Cardinality(Uploading') \in Nat
           /\ (h[c] \in {"upload", "send"} <=> p \in {"upload", "send"}) =>
                Cardinality(Uploading') = Cardinality(Uploading)
           /\ h[c] \notin {"upload", "send"} /\ p \in {"upload", "send"} =>
                Cardinality(Uploading') = Cardinality(Uploading) + 1
           /\ h[c] \in {"upload", "send"} /\ p \notin {"upload", "send"} =>
                Cardinality(Uploading) = Cardinality(Uploading') + 1
<1>. DEFINE A == Uploading
            B == Uploading'
            U == {"upload", "send"}
<1>1. IsFiniteSet(A) /\ IsFiniteSet(B)
  BY FS_Subset, SessionConstants DEF Uploading
<1>2. Cardinality(A) \in Nat /\ Cardinality(B) \in Nat
  BY <1>1, FS_CardinalityType
<1>3. B = IF p \in U THEN A \cup {c} ELSE A \ {c}
  BY DEF Uploading, TypeOK, Goto
<1>4. c \in A <=> h[c] \in U
  BY DEF Uploading
<1>. HIDE DEF A, B, U
<1>5. /\ Cardinality(A \cup {c}) = IF c \in A THEN Cardinality(A) ELSE Cardinality(A) + 1
      /\ Cardinality(A \ {c}) = IF c \in A THEN Cardinality(A) - 1 ELSE Cardinality(A)
  BY <1>1, FS_AddElement, FS_RemoveElement
<1>6. /\ (h[c] \in U <=> p \in U) => Cardinality(B) = Cardinality(A)
      /\ h[c] \notin U /\ p \in U => Cardinality(B) = Cardinality(A) + 1
      /\ h[c] \in U /\ p \notin U => Cardinality(A) = Cardinality(B) + 1
  BY <1>2, <1>3, <1>4, <1>5
<1>. QED BY <1>2, <1>6 DEF A, B, U

\* A set whose elements are all equal has at most one.
LEMMA LoneSmall ==
    ASSUME NEW S, Lone(S)
    PROVE  Cardinality(S) <= 1
<1>1. CASE S = {}
  BY <1>1, FS_EmptySet
<1>2. CASE S # {}
  <2>1. PICK x : S = {x}
    BY <1>2 DEF Lone
  <2>2. Cardinality({x}) = 1
    BY FS_Singleton
  <2>. QED BY <2>1, <2>2
<1>. QED BY <1>1, <1>2

\* The semaphore counts the handlers that read or send, and r.mu is held once.
LEMMA NextSlots ==
    ASSUME IInv, [Next]_vars
    PROVE  /\ h' \in [Conn -> Place]
           /\ \A b, c \in Conn : {h'[b], h'[c]} \subseteq {"launch", "run"} => b = c
           /\ slots' = Cardinality(Uploading') /\ slots' <= SlotCap
<1>. DEFINE Slots ==
       /\ h \in [Conn -> Place]
       /\ \A b, c \in Conn : {h[b], h[c]} \subseteq {"launch", "run"} => b = c
       /\ slots = Cardinality(Uploading) /\ slots <= SlotCap
<1>a. TypeOK /\ Slots /\ slots \in Nat /\ Launching
  <2>1. Cardinality(Uploading) \in Nat
    BY FS_Subset, FS_CardinalityType, SessionConstants DEF Uploading
  <2>. QED BY <2>1 DEF IInv, TypeOK
<1>. SUFFICES Slots'
  OBVIOUS
<1>b. ASSUME UNCHANGED <<h, slots>> PROVE Slots'
  BY <1>a, <1>b DEF Uploading
<1>c. ASSUME NEW c \in Conn, NEW p \in Place, Goto(c, p),
             p \notin {"launch", "run"} \/ ~Locked
      PROVE /\ h' \in [Conn -> Place]
            /\ \A b, d \in Conn : {h'[b], h'[d]} \subseteq {"launch", "run"} => b = d
  BY <1>a, <1>c DEF Goto, Locked
<1>d. ASSUME NEW c \in Conn, NEW p \in Place, Goto(c, p),
             p \notin {"launch", "run"} \/ ~Locked,
             h[c] \in {"upload", "send"} <=> p \in {"upload", "send"}, slots' = slots
      PROVE Slots'
  <2>1. Cardinality(Uploading') = Cardinality(Uploading)
    BY <1>a, <1>d, UploadsCounted, Zenon
  <2>. QED BY <1>a, <1>c, <1>d, <2>1
<1>e. ASSUME NEW c \in Conn, h[c] \in {"upload", "send"}, Goto(c, "read"), ReleaseUpload
      PROVE Slots'
  <2>1. /\ Cardinality(Uploading) = Cardinality(Uploading') + 1
        /\ Cardinality(Uploading') \in Nat
    <3>1. "read" \notin {"upload", "send"}
      OBVIOUS
    <3>. QED BY <1>a, <1>e, <3>1, UploadsCounted, Zenon
  <2>2. slots' = Cardinality(Uploading') /\ slots' <= SlotCap
    BY <1>a, <1>e, <2>1, SessionConstants DEF ReleaseUpload
  <2>. QED BY <1>c, <1>e, <2>2 DEF Place
<1>1. CASE Enter
  <2>1. CASE done \/ Cardinality(conns) >= MaxConns
    BY <1>1, <1>b, <2>1 DEF Enter
  <2>2. CASE ~(done \/ Cardinality(conns) >= MaxConns)
    <3>1. PICK c \in Conn : c = acceptor
      BY <1>1 DEF Enter
    <3>2. Goto(c, "read") /\ h[c] = "none" /\ slots' = slots
      BY <1>1, <1>a, <2>2, <3>1 DEF Enter, Goto, Launching
    <3>. QED BY <1>d, <3>2 DEF Place
  <2>. QED BY <2>1, <2>2
<1>2. ASSUME NEW c \in Conn, GetChunk(c) \/ PeerReg(c) \/ Start(c) \/ LaunchCommand(c)
      PROVE Slots'
  BY <1>2, <1>d DEF GetChunk, PeerReg, Start, LaunchCommand, HandlerOnly, Place
<1>3. ASSUME NEW c \in Conn, HandlerEnds(c) PROVE Slots'
  BY <1>3, <1>d DEF HandlerEnds, Place
<1>4. ASSUME NEW c \in Conn, AcquireUpload(c) PROVE Slots'
  <2>1. CASE slots < UploadLimit /\ slots' = slots + 1 /\ Goto(c, "upload")
    <3>1. "upload" \in {"upload", "send"} /\ h[c] \notin {"upload", "send"}
      BY <1>4 DEF AcquireUpload
    <3>2. Cardinality(Uploading') = Cardinality(Uploading) + 1
      BY <1>a, <2>1, <3>1, UploadsCounted, Zenon
    <3>3. slots + 1 <= SlotCap
      BY <1>a, <2>1, SessionConstants DEF UploadLimit
    <3>. QED BY <1>a, <1>c, <2>1, <3>2, <3>3 DEF Place
  <2>2. CASE slots' = slots /\ Goto(c, "read")
    BY <1>4, <1>d, <2>2 DEF AcquireUpload, Place
  <2>. QED BY <1>4, <2>1, <2>2 DEF AcquireUpload
<1>5. ASSUME NEW c \in Conn, ReadChunk(c) PROVE Slots'
  BY <1>5, <1>d, <1>e DEF ReadChunk, Place
<1>6. ASSUME NEW c \in Conn, SendChunk(c) PROVE Slots'
  BY <1>6, <1>e DEF SendChunk
<1>7. ASSUME NEW c \in Conn, MetaFails(c) \/ Launch(c) \/ TaskAdded(c) \/ CommandAdded(c)
      PROVE Slots'
  BY <1>7, <1>d DEF MetaFails, Launch, TaskAdded, CommandAdded, HandlerOnly, Place
<1>8. CASE TaskStep
  BY <1>8, <1>b
     DEF TaskStep, MakeCache, CreateTemp, BeSendSub, AddChunk, Joined, RetainFile,
         ClearChunks, CloseFile, RemoveCache, PruneCaches, Extract, TaskEnds, Task
<1>9. CASE Stop \/ CloseStep
  BY <1>9, <1>b DEF Stop, CloseStep, Bar, JoinTasks, StopSession, Drained, Closer
<1>. QED
  BY <1>b, <1>1, <1>2, <1>3, <1>4, <1>5, <1>6, <1>7, <1>8, <1>9
     DEF Next, HandlerStep, HangUp, Accept, ApplyControl, BackoffEnds, CommandEnds, vars

\* Peers, handlers, commands and controls leave the task, its files and the
\* closer alone; only a launch begins a task.
LEMMA QuietSteps ==
    ASSUME [Next]_vars
    PROVE  \/ UNCHANGED <<seedVars, taskVars, closer>>
           \/ \E c \in Conn : TaskAdded(c)
           \/ TaskStep \/ Stop \/ CloseStep
<1>. USE DEF HandlerOnly, vars
<1>1. ASSUME NEW c \in Conn, GetChunk(c) \/ PeerReg(c) \/ Start(c) \/ LaunchCommand(c)
      PROVE UNCHANGED <<seedVars, taskVars, closer>>
  BY <1>1 DEF GetChunk, PeerReg, Start, LaunchCommand
<1>2. ASSUME NEW c \in Conn, HandlerStep(c), ~TaskAdded(c)
      PROVE UNCHANGED <<seedVars, taskVars, closer>>
  BY <1>2 DEF HandlerStep, HandlerEnds, AcquireUpload, ReadChunk, SendChunk, MetaFails,
              Launch, CommandAdded
<1>3. ASSUME NEW c \in Conn, HangUp(c) PROVE UNCHANGED <<seedVars, taskVars, closer>>
  BY <1>3 DEF HangUp
<1>4. CASE Accept \/ Enter \/ ApplyControl \/ BackoffEnds \/ CommandEnds
  BY <1>4 DEF Accept, Enter, ApplyControl, BackoffEnds, CommandEnds
<1>. QED BY <1>1, <1>2, <1>3, <1>4 DEF Next

\* Types, and the state a launch leaves to its goroutine.
LEMMA NextTypes ==
    ASSUME IInv, [Next]_vars
    PROVE  TypeOK' /\ Launching'
<1>. USE SessionConstants
<1>a. TypeOK /\ Launching /\ MaxTasks \in Nat /\ tid \in Nat
  BY DEF IInv, TypeOK
\* Network and flags.
<1>b. /\ live' \subseteq Conn /\ conns' \subseteq Conn
      /\ acceptor' \in Conn \cup {"listen", "ended"}
      /\ acceptor' \in Conn => h'[acceptor'] = "none"
  <2>. DEFINE Net == /\ live \subseteq Conn /\ conns \subseteq Conn
                     /\ acceptor \in Conn \cup {"listen", "ended"}
                     /\ acceptor \in Conn => h[acceptor] = "none"
  <2>a. Net /\ h \in [Conn -> Place]
    BY <1>a DEF TypeOK, Launching
  <2>. SUFFICES Net'
    OBVIOUS
  <2>b. ASSUME UNCHANGED acceptor, live' \subseteq live, conns' \subseteq conns,
               h' = h \/ \E c \in Conn, p \in Place : Goto(c, p) /\ h[c] # "none"
        PROVE Net'
    BY <2>a, <2>b DEF Goto
  <2>1. CASE Accept
    BY <2>a, <2>1 DEF Accept
  <2>2. CASE Enter
    BY <2>a, <2>2 DEF Enter
  <2>3. ASSUME NEW c \in Conn, GetChunk(c) \/ PeerReg(c) \/ Start(c) \/ LaunchCommand(c)
        PROVE Net'
    BY <2>3, <2>b DEF GetChunk, PeerReg, Start, LaunchCommand, HandlerOnly, netVars, Place
  <2>4. ASSUME NEW c \in Conn, HandlerEnds(c) \/ AcquireUpload(c) \/ ReadChunk(c) \/ SendChunk(c)
        PROVE Net'
    BY <2>4, <2>b DEF HandlerEnds, AcquireUpload, ReadChunk, SendChunk, CloseConn, netVars, Place
  <2>5. ASSUME NEW c \in Conn, MetaFails(c) \/ Launch(c) \/ TaskAdded(c) \/ CommandAdded(c)
        PROVE Net'
    BY <2>5, <2>b DEF MetaFails, Launch, TaskAdded, CommandAdded, HandlerOnly, netVars, Place
  <2>6. ASSUME NEW c \in Conn, HangUp(c) PROVE Net'
    BY <2>6, <2>b DEF HangUp
  <2>7. CASE TaskStep
    BY <2>7, <2>b
       DEF TaskStep, MakeCache, CreateTemp, BeSendSub, AddChunk, Joined, RetainFile,
           ClearChunks, CloseFile, RemoveCache, PruneCaches, Extract, TaskEnds, Task, netVars
  <2>8. CASE Stop \/ CloseStep
    BY <2>8, <2>b DEF Stop, CloseStep, Bar, JoinTasks, StopSession, Drained, Closer, netVars
  <2>. QED
    BY <2>b, <2>1, <2>2, <2>3, <2>4, <2>5, <2>6, <2>7, <2>8
       DEF Next, HandlerStep, ApplyControl, BackoffEnds, CommandEnds, vars, netVars
<1>c. /\ backoff' \in BOOLEAN /\ done' \in BOOLEAN /\ command' \in BOOLEAN
  <2>a. backoff \in BOOLEAN /\ done \in BOOLEAN /\ command \in BOOLEAN
    BY <1>a DEF TypeOK
  <2>1. ASSUME NEW c \in Conn, GetChunk(c) \/ PeerReg(c) \/ Start(c) \/ LaunchCommand(c)
        PROVE UNCHANGED <<backoff, done, command>>
    BY <2>1 DEF GetChunk, PeerReg, Start, LaunchCommand, HandlerOnly
  <2>2. ASSUME NEW c \in Conn, HandlerStep(c)
        PROVE UNCHANGED <<backoff, done>> /\ (command' = command \/ command' = TRUE)
    BY <2>2 DEF HandlerStep, HandlerEnds, AcquireUpload, ReadChunk, SendChunk, MetaFails,
                Launch, TaskAdded, CommandAdded, HandlerOnly
  <2>3. ASSUME TaskStep PROVE UNCHANGED <<backoff, done, command>>
    BY <2>3
       DEF TaskStep, MakeCache, CreateTemp, BeSendSub, AddChunk, Joined, RetainFile,
           ClearChunks, CloseFile, RemoveCache, PruneCaches, Extract, TaskEnds, Task
  <2>4. ASSUME Stop \/ CloseStep
        PROVE UNCHANGED <<backoff, command>> /\ (done' = done \/ done' = TRUE)
    BY <2>4 DEF Stop, CloseStep, Bar, JoinTasks, StopSession, Drained, Closer
  <2>. QED
    BY <2>a, <2>1, <2>2, <2>3, <2>4
       DEF Next, HangUp, Accept, Enter, ApplyControl, BackoffEnds, CommandEnds, vars
\* The task and its files.
<1>. DEFINE Tasks ==
       /\ has \in BOOLEAN
       /\ provider \in TaskNo \cup {NoFile}
       /\ files \subseteq TaskNo /\ opened \subseteq TaskNo
       /\ pc \in TaskPlace /\ tid \in 0 .. MaxTasks
       /\ archive \subseteq TaskNo /\ cache \subseteq archive /\ dirs \subseteq archive
       /\ closer \in {"open", "stopped", "barred", "joined", "draining", "closed"}
       /\ pc # "idle" => tid \in TaskNo
<1>d. Tasks
  BY <1>a DEF TypeOK, Launching
<1>e. Tasks'
  <2>1. CASE UNCHANGED <<seedVars, taskVars, closer>>
    BY <1>d, <2>1 DEF seedVars, taskVars, TaskNo
  <2>2. ASSUME NEW c \in Conn, TaskAdded(c) PROVE Tasks'
    <3>1. tid < MaxTasks /\ tid + 1 \in TaskNo /\ tid + 1 \in 0 .. MaxTasks
      BY <1>a, <1>d, <2>2 DEF TaskAdded, Launching, TaskNo
    <3>. QED BY <1>d, <2>2, <3>1 DEF TaskAdded, TaskPlace, seedVars
  <2>3. CASE MakeCache \/ CreateTemp \/ BeSendSub \/ AddChunk
    BY <1>d, <2>3
    DEF MakeCache, CreateTemp, BeSendSub, AddChunk, TaskEnds, Task, TaskPlace, seedVars
  <2>4. CASE Joined \/ RetainFile \/ ClearChunks \/ CloseFile
    BY <1>d, <2>4 DEF Joined, RetainFile, ClearChunks, CloseFile, Task, TaskPlace, seedVars
  <2>5. CASE RemoveCache \/ PruneCaches \/ Extract
    BY <1>d, <2>5 DEF RemoveCache, PruneCaches, Extract, TaskEnds, Task, TaskPlace, seedVars
  <2>6. CASE Stop \/ CloseStep
    BY <1>d, <2>6 DEF Stop, CloseStep, Bar, JoinTasks, StopSession, Drained, Closer, seedVars
  <2>. QED BY <2>1, <2>2, <2>3, <2>4, <2>5, <2>6, QuietSteps DEF TaskStep
\* A launch is the only one in r.mu, so nothing changes under it.
<1>f. \A c \in Conn : h'[c] = "launch" => pc' = "idle" /\ tid' < MaxTasks
  <2>. SUFFICES ASSUME NEW b \in Conn, h'[b] = "launch" PROVE pc' = "idle" /\ tid' < MaxTasks
    OBVIOUS
  <2>a. /\ h \in [Conn -> Place]
        /\ \A c \in Conn : h[c] = "launch" => pc = "idle" /\ tid < MaxTasks
        /\ \A c, d \in Conn : {h[c], h[d]} \subseteq {"launch", "run"} => c = d
    BY <1>a DEF TypeOK, Launching
  <2>1. ASSUME NEW c \in Conn, TaskAdded(c) PROVE FALSE
    BY <2>a, <2>1 DEF TaskAdded, Goto
  <2>2. ASSUME NEW c \in Conn, Launch(c) PROVE pc' = "idle" /\ tid' < MaxTasks
    <3>1. tid <= MaxTasks
      BY <1>a DEF TypeOK
    <3>. QED BY <2>a, <2>2, <1>a, <3>1 DEF Launch, HandlerOnly, Goto, taskVars, Locked
  <2>3. CASE h[b] = "launch" /\ UNCHANGED <<pc, tid>>
    BY <2>a, <2>3
  <2>4. CASE h[b] = "launch" /\ TaskStep
    BY <2>a, <2>4
       DEF TaskStep, MakeCache, CreateTemp, BeSendSub, AddChunk, Joined, RetainFile,
           ClearChunks, CloseFile, RemoveCache, PruneCaches, Extract, TaskEnds, Task
  <2>5. ASSUME NEW c \in Conn, HandlerStep(c), ~TaskAdded(c), ~Launch(c)
        PROVE h[b] = "launch" /\ UNCHANGED <<pc, tid>>
    BY <2>a, <2>5
       DEF HandlerStep, HandlerEnds, AcquireUpload, ReadChunk, SendChunk, MetaFails,
           CommandAdded, HandlerOnly, Goto, taskVars
  <2>6. ASSUME NEW c \in Conn, GetChunk(c) \/ PeerReg(c) \/ Start(c) \/ LaunchCommand(c)
        PROVE h[b] = "launch" /\ UNCHANGED <<pc, tid>>
    BY <2>a, <2>6 DEF GetChunk, PeerReg, Start, LaunchCommand, HandlerOnly, Goto, taskVars
  <2>7. ASSUME Enter PROVE h[b] = "launch" /\ UNCHANGED <<pc, tid>>
    BY <2>a, <2>7 DEF Enter, taskVars
  <2>8. ASSUME \/ \E c \in Conn : HangUp(c)
               \/ Accept \/ ApplyControl \/ BackoffEnds \/ CommandEnds \/ Stop \/ CloseStep
               \/ UNCHANGED vars
        PROVE h[b] = "launch" /\ UNCHANGED <<pc, tid>>
    BY <2>8 DEF HangUp, Accept, ApplyControl, BackoffEnds, CommandEnds, Stop, CloseStep, Bar,
                JoinTasks, StopSession, Drained, Closer, taskVars, vars
  <2>9. TaskStep => h' = h
    BY DEF TaskStep, MakeCache, CreateTemp, BeSendSub, AddChunk, Joined, RetainFile,
           ClearChunks, CloseFile, RemoveCache, PruneCaches, Extract, TaskEnds, Task
  <2>. QED
    BY <2>1, <2>2, <2>3, <2>4, <2>5, <2>6, <2>7, <2>8, <2>9 DEF Next
<1>. QED BY <1>b, <1>c, <1>e, <1>f, NextSlots DEF TypeOK, Launching

\* Descriptors: the task's own is opened once, retained once or closed once, and
\* what is served is withdrawn first.
LEMMA NextDescriptors ==
    ASSUME IInv, [Next]_vars
    PROVE  Descriptors'
<1>. USE SessionConstants DEF Descriptors, Holding, seedVars
<1>a. /\ Descriptors /\ tid \in Nat /\ (pc # "idle" => tid \in 1 .. tid)
      /\ NoFile \notin 1 .. MaxTasks /\ (pc # "idle" => tid # NoFile)
      /\ (closer \in {"joined", "draining", "closed"} => pc = "idle")
  BY DEF IInv, TypeOK, Launching, TaskNo, Ended
<1>1. CASE UNCHANGED <<seedVars, taskVars, closer>>
  BY <1>a, <1>1 DEF taskVars
<1>2. ASSUME NEW c \in Conn, TaskAdded(c) PROVE Descriptors'
  <2>1. pc = "idle"
    BY <1>2 DEF TaskAdded, IInv, Launching
  <2>2. tid' = tid + 1 /\ pc' = "begin" /\ UNCHANGED <<seedVars, closer>>
    BY <1>2 DEF TaskAdded
  <2>. QED BY <1>a, <2>1, <2>2
<1>3. CASE MakeCache
  BY <1>a, <1>3 DEF MakeCache, TaskEnds, Task
<1>4. CASE CreateTemp
  BY <1>a, <1>4 DEF CreateTemp, Task
<1>5. CASE BeSendSub
  BY <1>a, <1>5 DEF BeSendSub, Task
<1>6. CASE AddChunk \/ Joined
  BY <1>a, <1>6 DEF AddChunk, Joined, Task
<1>7. CASE RetainFile
  BY <1>a, <1>7 DEF RetainFile, Task
<1>8. CASE ClearChunks
  BY <1>a, <1>8 DEF ClearChunks, Task
<1>9. CASE CloseFile
  BY <1>a, <1>9 DEF CloseFile, Task
<1>10. CASE RemoveCache \/ PruneCaches \/ Extract
  BY <1>a, <1>10 DEF RemoveCache, PruneCaches, Extract, TaskEnds, Task
<1>11. CASE Stop \/ Bar \/ JoinTasks \/ StopSession
  BY <1>a, <1>11 DEF Stop, Bar, JoinTasks, StopSession, Closer
<1>12. CASE Drained
  BY <1>a, <1>12 DEF Drained, Closer
<1>. QED
  BY <1>1, <1>2, <1>3, <1>4, <1>5, <1>6, <1>7, <1>8, <1>9, <1>10, <1>11, <1>12, QuietSteps
     DEF TaskStep, CloseStep

\* Cache directories: a task makes its own before its file, and removes it after;
\* the others go only when no file in them is retained any more.
LEMMA NextCaches ==
    ASSUME IInv, [Next]_vars
    PROVE  Caches'
<1>. USE SessionConstants DEF Caches, Lone, seedVars
<1>a. /\ Caches /\ Descriptors /\ tid \in Nat /\ (pc # "idle" => tid \in 1 .. tid)
      /\ (closer \in {"joined", "draining", "closed"} => pc = "idle")
      /\ (closer = "closed" => opened = {} /\ dirs = {})
  BY DEF IInv, TypeOK, Launching, TaskNo, Ended
<1>1. CASE UNCHANGED <<seedVars, taskVars, closer>>
  BY <1>a, <1>1 DEF taskVars
<1>2. ASSUME NEW c \in Conn, TaskAdded(c) PROVE Caches'
  <2>1. pc = "idle" /\ opened \subseteq 1 .. tid
    BY <1>a, <1>2 DEF TaskAdded, IInv, Launching, Descriptors, Holding
  <2>2. /\ tid' = tid + 1 /\ pc' = "begin" /\ UNCHANGED <<seedVars, closer, cache, dirs>>
        /\ archive' \subseteq archive \cup {tid + 1}
    BY <1>2 DEF TaskAdded
  <2>. QED BY <1>a, <2>1, <2>2
<1>3. CASE MakeCache
  BY <1>a, <1>3 DEF MakeCache, TaskEnds, Task
<1>4. CASE CreateTemp
  BY <1>a, <1>4 DEF CreateTemp, Task
<1>5. CASE BeSendSub
  BY <1>a, <1>5 DEF BeSendSub, Task
<1>6. CASE AddChunk \/ Joined \/ RetainFile \/ ClearChunks \/ CloseFile
  BY <1>a, <1>6 DEF AddChunk, Joined, RetainFile, ClearChunks, CloseFile, Task
<1>7. CASE RemoveCache
  <2>1. tid \notin opened /\ closer # "closed"
    BY <1>a, <1>7 DEF RemoveCache, TaskEnds, Task, Descriptors, Holding
  <2>. QED BY <1>a, <1>7, <2>1 DEF RemoveCache, TaskEnds, Task
<1>8. CASE PruneCaches
  <2>1. opened = {tid} /\ closer # "closed" /\ pc = "prune"
    BY <1>a, <1>8 DEF PruneCaches, Task, Descriptors, Holding
  <2>. QED BY <1>a, <1>8, <2>1 DEF PruneCaches, Task
<1>9. CASE Extract
  BY <1>a, <1>9 DEF Extract, TaskEnds, Task
<1>10. CASE Stop \/ Bar \/ JoinTasks \/ StopSession
  BY <1>a, <1>10 DEF Stop, Bar, JoinTasks, StopSession, Closer
<1>11. CASE Drained
  <2>1. pc = "idle" /\ cache = dirs /\ opened = files
    BY <1>a, <1>11 DEF Drained, Closer, Descriptors, Holding
  <2>. QED BY <1>a, <1>11, <2>1 DEF Drained, Closer
<1>. QED
  BY <1>1, <1>2, <1>3, <1>4, <1>5, <1>6, <1>7, <1>8, <1>9, <1>10, <1>11, QuietSteps
     DEF TaskStep, CloseStep

\* Each stage of close ends something that nobody can begin again.
LEMMA NextEnded ==
    ASSUME IInv, [Next]_vars
    PROVE  Ended'
<1>. USE SessionConstants DEF Ended, Locked
<1>a. /\ Ended /\ h \in [Conn -> Place]
      /\ (closer = "draining" => cache = dirs /\ opened = files)
  BY DEF IInv, TypeOK, Ended, Caches, Descriptors, Holding
<1>b. ASSUME UNCHANGED <<h, closer, pc, command, done, acceptor, opened, dirs>>
      PROVE Ended'
  BY <1>a, <1>b
<1>c. ASSUME NEW c \in Conn, NEW p \in Place, Goto(c, p), h[c] # "none",
             p \in {"launch", "run"} => closer = "open",
             UNCHANGED <<closer, pc, command, done, acceptor, opened, dirs>>
      PROVE Ended'
  BY <1>a, <1>c DEF Goto
<1>1. ASSUME NEW c \in Conn, HangUp(c) PROVE Ended'
  BY <1>1, <1>b DEF HangUp, seedVars, taskVars
<1>2. CASE Accept
  BY <1>a, <1>2 DEF Accept, seedVars, taskVars
<1>3. CASE Enter
  BY <1>a, <1>3 DEF Enter, seedVars, taskVars
<1>4. ASSUME NEW c \in Conn, GetChunk(c) \/ PeerReg(c) \/ Start(c) \/ LaunchCommand(c)
      PROVE Ended'
  BY <1>4, <1>c DEF GetChunk, PeerReg, Start, LaunchCommand, HandlerOnly,
                    netVars, seedVars, taskVars, Place
<1>5. ASSUME NEW c \in Conn, HandlerEnds(c) \/ AcquireUpload(c) \/ ReadChunk(c) \/ SendChunk(c)
      PROVE Ended'
  BY <1>5, <1>c DEF HandlerEnds, AcquireUpload, ReadChunk, SendChunk,
                    netVars, seedVars, taskVars, Place
<1>6. ASSUME NEW c \in Conn, MetaFails(c) \/ Launch(c) PROVE Ended'
  BY <1>6, <1>c DEF MetaFails, Launch, HandlerOnly, netVars, seedVars, taskVars, Place
<1>7. ASSUME NEW c \in Conn, TaskAdded(c) \/ CommandAdded(c) PROVE Ended'
  <2>1. closer \in {"open", "stopped"}
    BY <1>a, <1>7 DEF TaskAdded, CommandAdded
  <2>2. closer' = closer
    BY <1>7 DEF TaskAdded, CommandAdded
  <2>. QED BY <2>1, <2>2
<1>8. CASE ApplyControl \/ BackoffEnds
  BY <1>8, <1>b DEF ApplyControl, BackoffEnds, netVars, seedVars, taskVars
<1>9. CASE CommandEnds
  BY <1>a, <1>9 DEF CommandEnds, netVars, seedVars, taskVars
<1>10. CASE TaskStep
  <2>1. pc # "idle" /\ UNCHANGED <<h, closer, command, done, acceptor>>
    BY <1>10
       DEF TaskStep, MakeCache, CreateTemp, BeSendSub, AddChunk, Joined, RetainFile,
           ClearChunks, CloseFile, RemoveCache, PruneCaches, Extract, TaskEnds, Task, netVars
  <2>. QED BY <1>a, <2>1
<1>11. CASE Stop \/ Bar \/ JoinTasks \/ StopSession
  BY <1>a, <1>11 DEF Stop, Bar, JoinTasks, StopSession, Closer, netVars, seedVars
<1>12. CASE Drained
  BY <1>a, <1>12 DEF Drained, Closer, netVars
<1>13. CASE UNCHANGED vars
  BY <1>13, <1>b DEF vars, netVars, seedVars, taskVars
<1>. QED
  BY <1>1, <1>2, <1>3, <1>4, <1>5, <1>6, <1>7, <1>8, <1>9, <1>10, <1>11, <1>12, <1>13
     DEF Next, HandlerStep, CloseStep

-----------------------------------------------------------------------------
(* The theorems *)

\* The conjunction is inductive.
THEOREM SessionInvariant == Spec => []IInv
<1>1. Init => IInv
  <2>. SUFFICES ASSUME Init PROVE IInv
    OBVIOUS
  <2>1. Uploading = {} /\ Cardinality(Uploading) = 0
    BY FS_EmptySet DEF Init, Uploading
  <2>2. TypeOK
    <3>1. h \in [Conn -> Place] /\ \A c \in Conn : h[c] = "none"
      BY DEF Init, Place
    <3>2. slots = Cardinality(Uploading) /\ slots <= SlotCap
      BY <2>1, SessionConstants DEF Init
    <3>3. {backoff, done, has, command} \subseteq BOOLEAN
      BY DEF Init
    <3>. QED BY <3>1, <3>2, <3>3, SessionConstants DEF Init, TypeOK, TaskPlace
  <2>3. Launching /\ Descriptors /\ Caches /\ Ended
    BY SessionConstants DEF Init, Launching, Descriptors, Caches, Ended, Holding, Lone, Locked
  <2>. QED BY <2>2, <2>3 DEF IInv
<1>2. IInv /\ [Next]_vars => IInv'
  BY NextTypes, NextDescriptors, NextCaches, NextEnded DEF IInv
<1>. QED BY <1>1, <1>2, PTL DEF Spec

\* No handler reads a file that a failed task, the next task or Stop has closed.
THEOREM ServingSafe == Spec => []ServedIsOpen
<1>1. IInv => ServedIsOpen
  BY DEF IInv, ServedIsOpen, Descriptors, Ended
<1>. QED BY <1>1, SessionInvariant, PTL

\* The directory of an open archive is on disk, and a resting agent keeps one.
THEOREM CachesSafe == Spec => []CacheOutlivesFile
<1>1. IInv => CacheOutlivesFile
  BY LoneSmall DEF IInv, CacheOutlivesFile, Caches
<1>. QED BY <1>1, SessionInvariant, PTL

\* agent.close returns with nothing left behind, and slots are never lost.
THEOREM CloseSafe == Spec => []CloseIsClean
<1>1. ASSUME IInv PROVE CloseIsClean
  <2>1. closer = "closed" => slots = 0
    <3>. SUFFICES ASSUME closer = "closed" PROVE slots = 0
      OBVIOUS
    <3>1. Uploading = {}
      BY <1>1 DEF IInv, Ended, Uploading
    <3>. QED BY <1>1, <3>1, FS_EmptySet DEF IInv, TypeOK
  <2>. QED BY <1>1, <2>1 DEF IInv, CloseIsClean, Ended
<1>. QED BY <1>1, SessionInvariant, PTL

=============================================================================
