------------------------------- MODULE Session -------------------------------
(***************************************************************************)
(* A receiving agent and the Session it owns: the accept loop, a handler   *)
(* goroutine per connection, the upload slots, the files and cache         *)
(* directories that its download tasks leave behind, and agent.close, which *)
(* ends all of that while peers are being served and calls arrive.         *)
(*                                                                         *)
(* The workers of a download and the content of chunks are the business of *)
(* Download and Swarm: here a task is the frame of agent.download and      *)
(* RunTo, and a file has one chunk.                                        *)
(***************************************************************************)
EXTENDS Naturals, FiniteSets

CONSTANTS
    Conn,       \* sockets; one that was closed stands for a new one
    MaxConns,   \* connections served at once, 512 in the code
    SlotCap,    \* capacity of uploadSem, 8 in the code
    SlowCap,    \* const.UploadConcurrencyHDD, 2 in the code
    MaxTasks,   \* bound on the tasks an agent is given
    NoFile      \* an empty chunkProvider

ASSUME SessionConstants ==
    /\ IsFiniteSet(Conn) /\ {"listen", "ended"} \cap Conn = {}
    /\ MaxConns \in Nat \ {0}
    /\ SlowCap \in Nat \ {0} /\ SlotCap \in Nat /\ SlowCap <= SlotCap
    /\ MaxTasks \in Nat /\ NoFile \notin 1 .. MaxTasks

VARIABLES
    live,      \* sockets that neither side has closed
    acceptor,  \* "listen", "ended", or the connection it has just accepted
    conns,     \* Session.connections
    h,         \* where each connection's handler is
    slots,     \* len(uploadSem)
    backoff,   \* backoffUntil lies ahead
    done,      \* Session.done is closed, and with it the listener
    provider,  \* the file behind chunkProvider
    has,       \* its chunk is in chunkHash
    files,     \* Session.files
    opened,    \* files whose descriptor is open; a file is named by its task
    pc, tid,   \* the task: place, number
    archive,   \* which tasks unpack an archive kept in a cache directory
    cache,     \* agent.cache
    dirs,      \* cache directories on disk
    command,   \* a command runs
    closer     \* where agent.close is

netVars == <<live, acceptor, conns>>
seedVars == <<provider, has, files, opened>>
taskVars == <<pc, tid, archive, cache, dirs>>
vars == <<netVars, h, slots, backoff, done, seedVars, taskVars, command, closer>>

TaskNo == 1 .. MaxTasks
Place == {"none", "read", "slot", "upload", "send", "meta", "launch", "run", "watch"}
TaskPlace == {"idle", "begin", "create", "sub", "work", "rename", "clear",
              "close", "uncache", "prune", "extract"}

Uploading == {c \in Conn : h[c] \in {"upload", "send"}}
Locked == \E c \in Conn : h[c] \in {"launch", "run"}

(***************************************************************************)
(* The one type invariant.  At most one handler is inside r.mu, no more    *)
(* handlers hold a slot than the semaphore has, and it counts them all.    *)
(***************************************************************************)
TypeOK ==
    /\ live \subseteq Conn /\ conns \subseteq Conn
    /\ acceptor \in Conn \cup {"listen", "ended"}
    /\ h \in [Conn -> Place]
    /\ \A b, c \in Conn : {h[b], h[c]} \subseteq {"launch", "run"} => b = c
    /\ slots = Cardinality(Uploading) /\ slots <= SlotCap
    /\ {backoff, done, has, command} \subseteq BOOLEAN
    /\ provider \in TaskNo \cup {NoFile}
    /\ files \subseteq TaskNo /\ opened \subseteq TaskNo
    /\ pc \in TaskPlace /\ tid \in 0 .. MaxTasks
    /\ archive \subseteq TaskNo /\ cache \subseteq archive /\ dirs \subseteq archive
    /\ closer \in {"open", "stopped", "barred", "joined", "draining", "closed"}

\* startReceiver: the session listens, no task was given.
Init ==
    /\ live = {} /\ acceptor = "listen" /\ conns = {}
    /\ h = [c \in Conn |-> "none"]
    /\ slots = 0 /\ backoff = FALSE /\ done = FALSE
    /\ provider = NoFile /\ has = FALSE /\ files = {} /\ opened = {}
    /\ pc = "idle" /\ tid = 0 /\ archive = {} /\ cache = {} /\ dirs = {}
    /\ command = FALSE /\ closer = "open"

-----------------------------------------------------------------------------
(* Peers and the accept loop *)

HangUp(c) ==
    /\ c \in live
    /\ live' = live \ {c}
    /\ UNCHANGED <<acceptor, conns, h, slots, backoff, done, seedVars,
                   taskVars, command, closer>>

\* A peer dialled and lis.Accept returns its socket, or the listener is closed.
Accept ==
    /\ acceptor = "listen"
    /\ \/ /\ ~done
          /\ \E c \in Conn \ live :
                h[c] = "none" /\ acceptor' = c /\ live' = live \cup {c}
       \/ done /\ acceptor' = "ended" /\ UNCHANGED live
    /\ UNCHANGED <<conns, h, slots, backoff, done, seedVars, taskVars, command,
                   closer>>

\* The section after Accept: too late, too many, or a handler is started.
EnterUnchecked ==
    /\ acceptor \in Conn
    /\ h' = [h EXCEPT ![acceptor] = "read"]
    /\ conns' = conns \cup {acceptor}
    /\ acceptor' = "listen"
    /\ UNCHANGED <<live, slots, backoff, done, seedVars, taskVars,
                   command, closer>>

Enter ==
    /\ acceptor \in Conn
    /\ IF done \/ Cardinality(conns) >= MaxConns
         THEN /\ live' = live \ {acceptor}
              /\ acceptor' = IF done THEN "ended" ELSE "listen"
              /\ UNCHANGED <<conns, h>>
         ELSE /\ h' = [h EXCEPT ![acceptor] = "read"]
              /\ conns' = conns \cup {acceptor}
              /\ acceptor' = "listen"
              /\ UNCHANGED live
    /\ UNCHANGED <<slots, backoff, done, seedVars, taskVars, command,
                   closer>>

-----------------------------------------------------------------------------
(* Handlers: handle, GetChunk, Control, PeerReg *)

Goto(c, place) == h' = [h EXCEPT ![c] = place]
HandlerOnly(c, place) ==
    /\ Goto(c, place)
    /\ UNCHANGED <<netVars, slots, backoff, done, seedVars, taskVars, command,
                   closer>>

CloseConn(c) == conns' = conns \ {c} /\ live' = live \ {c}

\* The read failed or its two minutes passed, the packet made no sense, or the
\* registered peer that PeerReg watches went away: the handler ends.
HandlerEnds(c) ==
    /\ h[c] = "read" \/ (h[c] = "watch" /\ c \notin live)
    /\ Goto(c, "none")
    /\ CloseConn(c)
    /\ UNCHANGED <<acceptor, slots, backoff, done, seedVars, taskVars,
                   command, closer>>

\* getChunk: HasChunk, or an error is sent.
GetChunk(c) ==
    /\ h[c] = "read" /\ c \in live
    /\ provider # NoFile /\ has
    /\ HandlerOnly(c, "slot")

PeerReg(c) ==
    /\ h[c] = "read" /\ c \in live
    /\ HandlerOnly(c, "watch")

UploadLimit == IF backoff THEN SlowCap ELSE SlotCap

\* acquireUpload: a slot, unless the session stopped or the timer fired.
AcquireUpload(c) ==
    /\ h[c] = "slot"
    /\ \/ ~done /\ slots < UploadLimit /\ slots' = slots + 1 /\ Goto(c, "upload")
       \/ slots' = slots /\ Goto(c, "read")
    /\ UNCHANGED <<netVars, backoff, done, seedVars, taskVars, command, closer>>

\* ReleaseUploadSlot is deferred: also when the read or a write fails.
ReleaseUpload == slots' = IF slots > 0 THEN slots - 1 ELSE 0

\* An empty provider, a closed file or the disk may refuse.
ReadChunk(c) ==
    /\ h[c] = "upload"
    /\ \/ provider # NoFile /\ provider \in opened /\ Goto(c, "send") /\ UNCHANGED slots
       \/ Goto(c, "read") /\ ReleaseUpload
    /\ UNCHANGED <<netVars, backoff, done, seedVars, taskVars, command, closer>>

SendChunk(c) ==
    /\ h[c] = "send"
    /\ Goto(c, "read")
    /\ ReleaseUpload
    /\ \/ c \in live /\ UNCHANGED <<conns, live>>
       \/ CloseConn(c)
    /\ UNCHANGED <<acceptor, backoff, done, seedVars, taskVars, command,
                   closer>>

\* "start" found no running task and its probe succeeded; it asks the sender
\* for the file's metadata again.
Start(c) ==
    /\ h[c] = "read" /\ c \in live
    /\ pc = "idle" /\ ~Locked /\ tid < MaxTasks
    /\ HandlerOnly(c, "meta")

MetaFails(c) ==
    /\ h[c] = "meta"
    /\ HandlerOnly(c, "read")

\* launch has r.mu and looks at r.ctx and at the task.
Launch(c) ==
    /\ h[c] = "meta" /\ ~Locked
    /\ HandlerOnly(c, IF closer # "open" \/ pc # "idle" \/ tid = MaxTasks
                        THEN "read" ELSE "launch")

\* The rest of its section: taskWG.Add, and the goroutine starts.
TaskAdded(c) ==
    /\ h[c] = "launch"
    /\ Goto(c, "read")
    /\ tid' = tid + 1 /\ pc' = "begin"
    /\ \E kept \in {{}, {tid + 1}} : archive' = archive \cup kept
    /\ UNCHANGED <<netVars, slots, backoff, done, seedVars, cache, dirs, command,
                   closer>>

\* launchCommand is built alike.
LaunchCommand(c) ==
    /\ h[c] = "read" /\ c \in live /\ ~Locked
    /\ closer = "open" /\ ~command
    /\ HandlerOnly(c, "run")

CommandAdded(c) ==
    /\ h[c] = "run"
    /\ Goto(c, "read")
    /\ command' = TRUE
    /\ UNCHANGED <<netVars, slots, backoff, done, seedVars, taskVars, closer>>

CommandEnds ==
    /\ command /\ ~Locked
    /\ command' = FALSE
    /\ UNCHANGED <<netVars, h, slots, backoff, done, seedVars, taskVars, closer>>

\* The coordinator's backoff arrives on the agent's own control connection.
ApplyControl ==
    /\ closer \in {"open", "stopped"} /\ ~backoff
    /\ backoff' = TRUE
    /\ UNCHANGED <<netVars, h, slots, done, seedVars, taskVars, command, closer>>

BackoffEnds ==
    /\ backoff
    /\ backoff' = FALSE
    /\ UNCHANGED <<netVars, h, slots, done, seedVars, taskVars, command, closer>>

-----------------------------------------------------------------------------
(* The task's goroutine *)

Task(from, to) ==
    /\ pc = from /\ pc' = to
    /\ UNCHANGED <<netVars, h, slots, backoff, done, tid, archive, command, closer>>

\* The goroutine ends by writing r.task under r.mu.
TaskEnds(from) == ~Locked /\ Task(from, "idle")

MakeCachePruning ==
    \/ TaskEnds("begin") /\ UNCHANGED <<seedVars, cache, dirs>>
    \/ /\ Task("begin", "create") /\ UNCHANGED seedVars
       /\ cache' = {tid} \cap archive
       /\ dirs' = {tid} \cap archive

\* MkdirAll or MkdirTemp may fail.
MakeCache ==
    \/ TaskEnds("begin") /\ UNCHANGED <<seedVars, cache, dirs>>
    \/ /\ Task("begin", "create") /\ UNCHANGED seedVars
       /\ cache' = cache \cup ({tid} \cap archive)
       /\ dirs' = dirs \cup ({tid} \cap archive)

CreateTemp ==
    \/ Task("create", "uncache") /\ UNCHANGED <<seedVars, cache, dirs>>
    \/ /\ closer = "open" /\ Task("create", "sub")
       /\ opened' = opened \cup {tid}
       /\ UNCHANGED <<provider, has, files, cache, dirs>>

\* Truncate may fail; BeSendSub closes what was retained and serves the new file.
BeSendSub ==
    \/ Task("sub", "clear") /\ UNCHANGED <<seedVars, cache, dirs>>
    \/ /\ Task("sub", "work")
       /\ provider' = tid /\ has' = FALSE
       /\ opened' = opened \ files /\ files' = {}
       /\ UNCHANGED <<cache, dirs>>

AddChunk ==
    /\ Task("work", "work") /\ ~has
    /\ has' = TRUE
    /\ UNCHANGED <<provider, files, opened, cache, dirs>>

\* Every worker has joined; the context is looked at once more.
Joined ==
    /\ \/ has /\ closer = "open" /\ Task("work", "rename")
       \/ Task("work", "clear")
    /\ UNCHANGED <<seedVars, cache, dirs>>

\* Rename and RetainFile; the target may be taken.
RetainFile ==
    \/ Task("rename", "clear") /\ UNCHANGED <<seedVars, cache, dirs>>
    \/ /\ Task("rename", "prune")
       /\ files' = files \cup {tid}
       /\ UNCHANGED <<provider, has, opened, cache, dirs>>

ClearClosing ==
    /\ Task("clear", "close")
    /\ opened' = opened \ {tid}
    /\ UNCHANGED <<provider, has, files, cache, dirs>>

\* The deferred cleanup: the file is withdrawn before its descriptor closes.
ClearChunks ==
    /\ Task("clear", "close")
    /\ provider' = NoFile /\ has' = FALSE
    /\ UNCHANGED <<files, opened, cache, dirs>>

CloseFile ==
    /\ Task("close", "uncache")
    /\ opened' = opened \ {tid}
    /\ UNCHANGED <<provider, has, files, cache, dirs>>

RemoveCache ==
    /\ TaskEnds("uncache")
    /\ cache' = cache \ {tid} /\ dirs' = dirs \ {tid}
    /\ UNCHANGED seedVars

PruneCaches ==
    /\ pc = "prune" /\ ~Locked
    /\ Task("prune", IF tid \in archive THEN "extract" ELSE "idle")
    /\ cache' = cache \cap {tid} /\ dirs' = dirs \ (cache \ {tid})
    /\ UNCHANGED seedVars

\* Extract may fail; the archive is served all the same.
Extract == TaskEnds("extract") /\ UNCHANGED <<seedVars, cache, dirs>>

TaskStep ==
    \/ MakeCache \/ CreateTemp \/ BeSendSub \/ AddChunk \/ Joined \/ RetainFile
    \/ ClearChunks \/ CloseFile \/ RemoveCache \/ PruneCaches \/ Extract

-----------------------------------------------------------------------------
(* agent.close *)

Closer(from, to) ==
    /\ closer = from /\ closer' = to
    /\ UNCHANGED <<h, slots, backoff, pc, tid, archive, command>>

Stop == Closer("open", "stopped") /\ UNCHANGED <<netVars, done, seedVars, cache, dirs>>

BarUnlocked ==
    Closer("stopped", "barred") /\ UNCHANGED <<netVars, done, seedVars, cache, dirs>>

\* cancelTask and cancelCommand pass through r.mu; sdk.Close.
Bar ==
    /\ ~Locked
    /\ Closer("stopped", "barred") /\ UNCHANGED <<netVars, done, seedVars, cache, dirs>>

\* taskWG.Wait
JoinTasks ==
    /\ pc = "idle" /\ ~command
    /\ Closer("barred", "joined") /\ UNCHANGED <<netVars, done, seedVars, cache, dirs>>

\* Session.Stop up to wg.Wait: the listener and every connection are closed.
StopSession ==
    /\ Closer("joined", "draining")
    /\ done' = TRUE
    /\ live' = live \ conns
    /\ UNCHANGED <<acceptor, conns, seedVars, cache, dirs>>

\* wg.Wait; then the retained files are closed and the caches removed.  The
\* watcher that agent.close also waits for ended when Bar closed its connection.
Drained ==
    /\ acceptor = "ended" /\ \A c \in Conn : h[c] = "none"
    /\ Closer("draining", "closed")
    /\ opened' = opened \ files /\ files' = {}
    /\ dirs' = dirs \ cache
    /\ UNCHANGED <<netVars, done, provider, has, cache>>

CloseStep == Bar \/ JoinTasks \/ StopSession \/ Drained

-----------------------------------------------------------------------------
HandlerStep(c) ==
    \/ HandlerEnds(c) \/ AcquireUpload(c) \/ ReadChunk(c) \/ SendChunk(c)
    \/ MetaFails(c) \/ Launch(c) \/ TaskAdded(c) \/ CommandAdded(c)

Next ==
    \/ \E c \in Conn : HangUp(c)
    \/ \E c \in Conn : GetChunk(c) \/ PeerReg(c) \/ Start(c) \/ LaunchCommand(c)
    \/ \E c \in Conn : HandlerStep(c)
    \/ Accept \/ Enter
    \/ ApplyControl \/ BackoffEnds
    \/ TaskStep \/ CommandEnds
    \/ Stop \/ CloseStep

Spec == Init /\ [][Next]_vars

\* Goroutines run; reads, writes, calls, slots and commands have deadlines, and
\* a download ends (Delivery).  Nothing is assumed of peers: they may stay
\* connected, registered and silent for ever.
FairSpec ==
    /\ Spec
    /\ WF_vars(done /\ Accept) /\ WF_vars(Enter)
    /\ WF_vars(TaskStep) /\ WF_vars(CommandEnds)
    /\ WF_vars(CloseStep)
    /\ \A c \in Conn : WF_vars(HandlerStep(c))

-----------------------------------------------------------------------------
(* Properties *)

\* A handler never reads a file that has been closed, whether by the cleanup
\* of a failed task, by the next task's BeSendSub or by Stop, although it holds
\* no lock between HasChunk, its wait for a slot and ReadChunk.
ServedIsOpen ==
    \A c \in Conn : h[c] = "upload" /\ provider # NoFile => provider \in opened

\* "The previous seed descriptor is closed by BeSendSub before pruning its
\* cache": the directory of an archive that is open is never removed, whatever
\* became of the tasks in between, and a resting agent keeps at most one.
CacheOutlivesFile ==
    /\ opened \cap archive \subseteq dirs
    /\ pc = "idle" => Cardinality(dirs) <= 1

\* When close returns nothing of the agent is left: no handler, task, command
\* or accept loop runs, no descriptor is open and no cache directory remains,
\* also if a call launched something while close was under way; until then an
\* upload slot is held by exactly the handlers that read or send (TypeOK).
CloseIsClean ==
    /\ TypeOK
    /\ closer = "closed" =>
        /\ acceptor = "ended" /\ \A c \in Conn : h[c] = "none"
        /\ pc = "idle" /\ ~command
        /\ opened = {} /\ dirs = {} /\ slots = 0

\* close returns, although idle or registered peers keep their connections
\* and handlers wait for slots or for the sender.
CloseReturns == closer = "stopped" ~> closer = "closed"

=============================================================================
