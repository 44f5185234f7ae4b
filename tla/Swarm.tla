-------------------------------- MODULE Swarm --------------------------------
(***************************************************************************)
(* What the nodes exchange: the content of chunks.  One sender serves a    *)
(* source file; receivers run download tasks, verify each chunk they get   *)
(* (a CRC32 of the bytes the provider read, sent along with them), report  *)
(* it to the tracker, and serve it to each other while they download and   *)
(* after they finish.                                                      *)
(*                                                                         *)
(* A CRC proves that the bytes arrived as they were read; it says nothing  *)
(* about which file they were read from.  Versions of the source are taken *)
(* to be of equal size: FileChunk.Save rejects a chunk of another length.  *)
(***************************************************************************)
EXTENDS Naturals, FiniteSets

CONSTANTS
    Sender,     \* the session of the sender
    Receivers,  \* receiving agents, registered throughout
    Chunk,      \* chunk indexes of the file
    Version,    \* source files that may be served, one at a time
    NoVersion,  \* no file is served; no task was given
    Zero,       \* what a freshly truncated .part file holds
    Edited,     \* bytes of a source file modified after it was prepared
    Retask,     \* may a node get a new task between HasChunk and ReadChunk?
    Overlap,    \* may the next source be served while tasks for the last one run?
    LateReport  \* ... and while reports about the last one are under way?

ASSUME SwarmConstants ==
    /\ Sender \notin Receivers
    /\ {NoVersion, Zero, Edited} \cap Version = {}
    /\ {Retask, Overlap, LateReport} \subseteq BOOLEAN

Node == Receivers \cup {Sender}
Content == Version \cup {Zero, Edited}

VARIABLES
    src,      \* the version in the sender's chunkProvider
    edited,   \* the source file was modified since BeSendMain
    owners,   \* ChunkOwners of the tracker, the sender left out
    task,     \* the version each receiver's last task is for
    status,   \* of that task; "idle" before the first one
    part,     \* bytes of the file behind each receiver's chunkProvider
    hash,     \* keys of each receiver's chunkHash
    fetches,  \* getChunk exchanges under way
    reports   \* reportChunk messages written and not yet handled

vars == <<src, edited, owners, task, status, part, hash, fetches, reports>>

Status == {"idle", "running", "seeding", "failed"}

\* "sent": a source was chosen and asked.  "checked": its handler has passed
\* HasChunk and waits for an upload slot.  "answered": data is on its way.
Fetch ==
    [to : Receivers, from : Node, index : Chunk,
     stage : {"sent", "checked", "answered"}, data : Content]

(***************************************************************************)
(* The one type invariant; a receiver asks for a chunk at most once at a   *)
(* time and only while its task runs.                                      *)
(***************************************************************************)
TypeOK ==
    /\ src \in Version \cup {NoVersion}
    /\ edited \in BOOLEAN
    /\ owners \in [Chunk -> SUBSET Receivers]
    /\ task \in [Receivers -> Version \cup {NoVersion}]
    /\ status \in [Receivers -> Status]
    /\ part \in [Receivers -> [Chunk -> Content]]
    /\ hash \in [Receivers -> SUBSET Chunk]
    /\ fetches \subseteq Fetch
    /\ reports \subseteq Receivers \X Chunk
    /\ \A f \in fetches : status[f.to] = "running" /\ f.index \notin hash[f.to]
    /\ \A f, g \in fetches : f.to = g.to /\ f.index = g.index => f = g

Init ==
    /\ src = NoVersion
    /\ edited = FALSE
    /\ owners = [i \in Chunk |-> {}]
    /\ task = [r \in Receivers |-> NoVersion]
    /\ status = [r \in Receivers |-> "idle"]
    /\ part = [r \in Receivers |-> [i \in Chunk |-> Zero]]
    /\ hash = [r \in Receivers |-> {}]
    /\ fetches = {}
    /\ reports = {}

-----------------------------------------------------------------------------
(* The sender's source *)

\* Nothing in the code keeps a file from being served while tasks or reports of
\* the one before are under way; the constants say which of them the model allows.
BeSendMain(v) ==
    /\ src = NoVersion
    /\ Overlap \/ \A r \in Receivers : status[r] # "running"
    /\ LateReport \/ reports = {}
    /\ src' = v
    /\ edited' = FALSE
    /\ UNCHANGED <<owners, task, status, part, hash, fetches, reports>>

\* source.close when the file is stopped, whatever runs: the tracker forgets every
\* owner, and tasks that still miss a chunk fail for want of a source.
ClearContent ==
    /\ src # NoVersion
    /\ src' = NoVersion
    /\ owners' = [i \in Chunk |-> {}]
    /\ UNCHANGED <<edited, task, status, part, hash, fetches, reports>>

\* The file on disk is changed behind the sender's back.
EditSource ==
    /\ src # NoVersion /\ ~edited
    /\ edited' = TRUE
    /\ UNCHANGED <<src, owners, task, status, part, hash, fetches, reports>>

-----------------------------------------------------------------------------
(* Tasks: agent.launch and the frame of receiver.RunTo *)

\* "start" is refused while a task runs.  BeSendSub puts the new, empty part
\* file behind the provider and forgets the hashes; the tracker is not told.
StartTask(r) ==
    /\ src # NoVersion
    /\ status[r] # "running"
    /\ Retask \/ \A f \in fetches : f.from = r => f.stage # "checked"
    /\ task' = [task EXCEPT ![r] = src]
    /\ status' = [status EXCEPT ![r] = "running"]
    /\ part' = [part EXCEPT ![r] = [i \in Chunk |-> Zero]]
    /\ hash' = [hash EXCEPT ![r] = {}]
    /\ UNCHANGED <<src, edited, owners, fetches, reports>>

FinishUnchecked(r) ==
    /\ status[r] = "running"
    /\ \A f \in fetches : f.to # r
    /\ status' = [status EXCEPT ![r] = "seeding"]
    /\ UNCHANGED <<src, edited, owners, task, part, hash, fetches, reports>>

\* Every chunk was stored and every worker joined: the file is renamed and
\* stays open for the others.
Finish(r) ==
    /\ status[r] = "running"
    /\ hash[r] = Chunk
    /\ status' = [status EXCEPT ![r] = "seeding"]
    /\ UNCHANGED <<src, edited, owners, task, part, hash, fetches, reports>>

FailKeeping(r) ==
    /\ status[r] = "running"
    /\ status' = [status EXCEPT ![r] = "failed"]
    /\ fetches' = {f \in fetches : f.to # r}
    /\ UNCHANGED <<src, edited, owners, task, part, hash, reports>>

\* A chunk failed three times, or the task was cancelled: ClearChunks.
Fail(r) ==
    /\ status[r] = "running"
    /\ status' = [status EXCEPT ![r] = "failed"]
    /\ hash' = [hash EXCEPT ![r] = {}]
    /\ fetches' = {f \in fetches : f.to # r}
    /\ UNCHANGED <<src, edited, owners, task, part, reports>>

-----------------------------------------------------------------------------
(* One chunk: wantChunk, getChunk at the provider, Save and report *)

\* The tracker answers with an owner of the chunk, or with the sender.
WantChunk(r, i, p) ==
    /\ status[r] = "running"
    /\ i \notin hash[r]
    /\ \A f \in fetches : f.to = r => f.index # i
    /\ p \in (owners[i] \ {r}) \cup {Sender}
    /\ fetches' = fetches \cup {[to |-> r, from |-> p, index |-> i,
                                 stage |-> "sent", data |-> Zero]}
    /\ UNCHANGED <<src, edited, owners, task, status, part, hash, reports>>

HasChunk(p, i) ==
    IF p = Sender THEN src # NoVersion ELSE i \in hash[p]

Advance(f, stage, data) ==
    fetches' = (fetches \ {f})
                 \cup {[f EXCEPT !.stage = stage, !.data = data]}

CheckChunk(f) ==
    /\ f.stage = "sent"
    /\ HasChunk(f.from, f.index)
    /\ Advance(f, "checked", Zero)
    /\ UNCHANGED <<src, edited, owners, task, status, part, hash, reports>>

ReadableUnguarded(p) ==
    IF p = Sender THEN src # NoVersion ELSE status[p] \in {"running", "seeding"}

\* ReadChunk succeeds if there is a file and, for the sender, if Unchanged
\* holds before and after the read.
Readable(p) ==
    IF p = Sender THEN src # NoVersion /\ ~edited
                  ELSE status[p] \in {"running", "seeding"}

Bytes(p, i) ==
    IF p # Sender THEN part[p][i] ELSE IF edited THEN Edited ELSE src

\* With a slot in hand the handler reads whatever file is behind the provider
\* now, and sends the bytes with their own CRC.
ReadChunk(f) ==
    /\ f.stage = "checked"
    /\ Readable(f.from)
    /\ Advance(f, "answered", Bytes(f.from, f.index))
    /\ UNCHANGED <<src, edited, owners, task, status, part, hash, reports>>

\* The CRC of the answer matches by construction: Save, AddChunk, ReportChunk.
SaveChunk(f) ==
    /\ f.stage = "answered"
    /\ part' = [part EXCEPT ![f.to][f.index] = f.data]
    /\ hash' = [hash EXCEPT ![f.to] = @ \cup {f.index}]
    /\ reports' = reports \cup {<<f.to, f.index>>}
    /\ fetches' = fetches \ {f}
    /\ UNCHANGED <<src, edited, owners, task, status>>

\* Any error of the exchange; reportPeer "failed" may itself be lost.
FetchFails(f) ==
    /\ fetches' = fetches \ {f}
    /\ \/ owners' = [owners EXCEPT ![f.index] = @ \ {f.from}]
       \/ owners' = owners
    /\ UNCHANGED <<src, edited, task, status, part, hash, reports>>

AddBlockOwnerUnserved(m) ==
    /\ reports' = reports \ {m}
    /\ owners' = [owners EXCEPT ![m[2]] = @ \cup {m[1]}]
    /\ UNCHANGED <<src, edited, task, status, part, hash, fetches>>

\* reportChunk is fire and forget: it is handled when its connection is read, and
\* dropped when no file is served.
AddBlockOwner(m) ==
    /\ reports' = reports \ {m}
    /\ owners' = IF src = NoVersion THEN owners
                 ELSE [owners EXCEPT ![m[2]] = @ \cup {m[1]}]
    /\ UNCHANGED <<src, edited, task, status, part, hash, fetches>>

-----------------------------------------------------------------------------
Exchange(f) == CheckChunk(f) \/ ReadChunk(f) \/ SaveChunk(f) \/ FetchFails(f)

Next ==
    \/ \E v \in Version : BeSendMain(v)
    \/ ClearContent
    \/ EditSource
    \/ \E r \in Receivers : StartTask(r) \/ Finish(r) \/ Fail(r)
    \/ \E r \in Receivers, i \in Chunk, p \in Node : WantChunk(r, i, p)
    \/ \E f \in fetches : Exchange(f)
    \/ \E m \in reports : AddBlockOwner(m)

Spec == Init /\ [][Next]_vars

-----------------------------------------------------------------------------
(* Properties *)

\* A receiver that says its download is complete (status "seeding", set when
\* RunTo returns nil) holds the version its task was for, in every chunk.
Integrity ==
    \A r \in Receivers : status[r] = "seeding" =>
        \A i \in Chunk : part[r][i] = task[r]

\* A chunk entered in chunkHash, and therefore served to others by HasChunk,
\* is a chunk of the version of the task, never of a file being replaced, of
\* an edited source or of a part file not yet written.
VerifiedChunks ==
    \A r \in Receivers : \A i \in hash[r] : part[r][i] = task[r]

\* Seen from outside, each receiver keeps the promise of Delivery with the
\* bytes themselves: a chunk that its task stored is of the right version and
\* is never lost or overwritten, and a task ends with all of them or with none.
Genuine == [r \in Receivers |-> {i \in hash[r] : part[r][i] = task[r]}]
Outcome == [r \in Receivers |->
              IF status[r] = "seeding" THEN "delivered" ELSE status[r]]

Promise == INSTANCE Delivery WITH
    Node <- Receivers, stored <- Genuine, outcome <- Outcome

ImplementsDelivery == Promise!Spec

\* The tracker sends requests only to nodes whose task is for the version that is
\* being served.  ClearContent forgets the owners of the file before it, and a
\* report that AddBlockOwner gets when that file is already withdrawn adds none.
\* A report that is still later, when the next file is served, does: see
\* LateReport.
OwnersServeCurrent ==
    \A i \in Chunk : \A p \in owners[i] : src # NoVersion /\ task[p] = src

=============================================================================
