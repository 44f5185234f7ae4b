# GoSilverCore: TLA+ models, checks and proofs

GoSilverCore distributes one file (or a packed folder) from a *sender* to many
*receivers* on a LAN. The file is cut into chunks. A tracker inside the sender
tells each receiver where to fetch a chunk, receivers serve each other the
chunks they already have, and a small web application on every machine finds
the sender, starts tasks on remote machines, watches and cancels them.

This directory holds TLA+ modules translated from the Go source, TLC
configurations that check them on small instances, and TLAPS proofs for every
value of the constants. `PROJECT.json` maps each definition to the lines it
models and lists runs, mutants, findings, hazards and theorems.

```
tlc -workers 2 -config MCTracker.cfg MCTracker     # one run
tlapm TrackerProofs.tla                            # one proof module
```

## 1. The system and its parts

| Component | Code | State | Operations | Interacts by |
|---|---|---|---|---|
| Tracker | `internal/gsp_sdk/server` (queue, peer, tool, control, handle) | `Peers` with `connNum`, `leases`, `cooldownTil`; `ChunkOwners`, `PeerOwners`; number of chunks | PeerReg, wantChunk, reportChunk, reportPeer, BeSendMain, ClearContent, coordinateOnce | one goroutine per connection, all under `s.mu` |
| Chunk exchange | handle.go `GetChunk`, client `receiver.go`, `internal/chunk` | file behind `chunkProvider`, `chunkHash`, the part file | HasChunk, ReadChunk, Save, Finish | getChunk between nodes, reportChunk to the tracker |
| Connection pool | `pkg/conn_pool`, client `borrow` | `permits`, `idle`, `borrowed`, `closed` | GetConnContext, PutConn, DiscardConn, Close, AfterFunc | shared by all workers of a node |
| Download engine | `internal/receiver/download.go` | job channel, priority channel, claimed map, done counter, first error | RunTo: feeder and workers, Prefetch | tracker commands in, exchanges out |
| Control plane | `internal/webui` app, tasks, distribution, agent | `App.op`, `App.probes`, `probeKey`, `distribution`; the agent's `task` | probe, dispatch, monitor, cancelRemote, runDistribution; agent start/status/cancel | control calls on connections of their own; an agent's handler outlives its caller |
| Application roles | `internal/webui` app, discovery, sender; `cmd/main.go` | `config.Mode`, `hub`, `source`, `agent`, discovery loop, `closed` | AutoStart, begin, startDiscovery/stopDiscovery, startAgent, ensureSender, startSource, stopRole, selectMode, Close | main goroutine, the one operation, the loop; `a.mu`, `receiverMu` |
| Session lifecycle, upload slots | `server/session.go`, `tool.go`, `handle`; `webui/agent.go` | `connections`, `uploadSem`, `backoffUntil`, `done`, `files`; the agent's `cache`, `taskWG` | accept loop, handlers, acquireUpload, RetainFile, ClearChunks, agent.close, Stop | peers' connections; tasks replace the file that handlers read |
| Remote commands | `webui` app, tasks, agent | `App.commandOp`, `App.probes`; the agent's `commandTask` | beginCommand, command, monitor, cancelRemoteKind; command/command.status/command.cancel | control calls that are not idempotent; one map shared with dispatch |
| Packing and extraction | `internal/transfer/files.go` | the source tree, tar file and manifest; the target directory | Prepare, ProbeTarget, Extract, CopyContext | the manifest travels with the task, the bundle as the file |
| mDNS discovery | `internal/discover/mdns.go` | - | one lookup | enters `Roles` as `online` |
| Library API, framing, buffers, HTTP, pages, CLI, `pkg/discovery`, `internal/queue` | see `PROJECT.json` | - | - | not modelled, section 8 |

What is hard in this code:

- **Unreliable reports.** Every request and report uses a pooled connection of
  its own. A report arrives late, twice, after its lease expired, or after its
  peer has left.
- **Checks and uses that are apart.** `start` leaves the agent's lock for a
  probe; `GetChunk` waits for an upload slot between HasChunk and ReadChunk;
  `startDiscovery` ends one loop and registers the next in two sections.
- **Cancellation.** Contexts end while a dial, an exchange, a store or a remote
  start is half done.
- **Shutdown and role changes** beside a loop that is connecting.
- **No generation in messages.** Chunk requests and reports carry an index only.
- **Files that others use.** Trees are edited while they are packed, targets are
  written while they are extracted into, and seeds are replaced while peers read
  them.

Correctness, per component: the tracker's load counters must be what its leases
say, or sources are starved or overrun for good, and its two ownership maps must
agree. A completed download must be the file that was served. The pool must
neither lose permits nor leak or share sockets. A download must end, and succeed
only with all chunks stored. An operation must end, tell the truth, and its
cancel must stop what it started. An instance has one role and leaves nothing
running when it stops. Closing an agent must end although peers are silent, and
leave no file, directory or process. A command that is cancelled must run nowhere,
and an unpacked file must be whole.

## 2. Modules

Definitions keep the names of the code where they can. Operators named as a
variant of another one (`EnterUnchecked`, `ClearClosing`, `FailKeeping`, ...) are
deliberate faults used only as mutants: each property has at least one such
fault that breaks it, so no property holds vacuously.

Each component module has one type invariant. In ConnPool, Download, Roles, Session,
Commands and Transfer it is a conjunct of the invariant that does the component's
accounting, whose mutant therefore has to break that accounting. It is proved in all of
them (section 6).

### Delivery
The abstract specification: what a download promises, without workers, sources or
messages. A node gathers the chunks of its task's file, each once, and then
delivers all of them or gives up and keeps none. Two detailed modules implement
it. `Download` maps its one run to one node: `stored` is the set of chunks in
its chunkHash, and the outcome is that of `RunTo`. `Swarm` maps every receiver:
`stored` is `Genuine`, the chunks whose bytes are those of the *version of the
task*, so a node that completed with a wrong chunk would not be a delivery. Both
refinements are of the safety part and proved. `Ends` is the liveness part, which
Download has as `Returns`; Swarm has none, since a network in which nobody answers
does not deliver.

### Tracker
One action per critical section of `s.mu`: PeerReg is four steps
(`PeerRegAck`, `AddPeer`, `SetPeerZone`, `RemovePeer`), since the answer
`ready` is written before `AddPeer` runs. `WantRequest` is the section that
expires leases, chooses candidates and leases the first; `Responded` and
`RespondFailed` are the write of the answer and the section that gives the lease
back. `UpdatePeerDone`/`UpdatePeerFailed` are reportPeer and may come at any time
with any arguments. `Writers` are the goroutines that may be between the two
sections of `WantRequest`, so that one requester's lease can be renewed while the
failure of its earlier answer is still to be handled. `named` is history: the lease
the last step was asked to give back, which `LiveLeasesKept` is stated with.
Deadlines are the set `overdue`: a lease may become overdue
at any moment. The score of a candidate (latency, zone, speed) only decides which
of several candidates is first, so the model chooses freely; only the first is
leased, as in the code. `PrefetchCommands` and `BackoffTargets` are what
`coordinateOnce` would send in the present state (it changes no tracker state).
`Init` allows sessions with and without `MarkSender`, since receivers' own
sessions answer the same requests.

### Swarm
What bytes a chunk holds. `Version` are files the sender may serve, `Zero` is a
freshly truncated part file, `Edited` a source modified on disk after it was
prepared. A getChunk is `WantChunk`, `CheckChunk` (HasChunk), `ReadChunk` (with
the `Unchanged` test for main sources), `SaveChunk`; a report is a message that
is handled later (`AddBlockOwner`). The CRC in an answer is computed from the
bytes that were read, so it never fails for a file that was exchanged: that is
why integrity is a property about *which file was read*. A file is
withdrawn (`ClearContent`) at any time, whatever runs. Three flags describe the
environment: `Overlap` lets the next file be served (`BeSendMain`) while tasks for
the last one run, `LateReport` while reports about it are under way, and `Retask`
lets a node get a new task between HasChunk and ReadChunk. All three are things the
code permits; with all off the properties hold, with any of them on `Integrity` does
not (section 5).

### ConnPool
One address. A caller goes through `GetConnContext` (first section), `Acquire`
(the permit channel), `Search` (the idle channel), `Dial`, `Lend` (last section),
use, and `Release` + `Settle`: `release` gives the permit back before it offers
the connection to the idle channel, both under `p.mu`. `CtxEnds` starts the
AfterFunc, which closes the socket in an action of its own. `NewCtx` is the same
goroutine's next call with a fresh context.

### Download
`RunTo`. The feeder polls the priority channel, hands out an urgent chunk or the
next of the shuffled order, stops when the work context ends, closes the job
channel, joins the workers, syncs and renames. Workers claim, attempt up to
`MaxAttempts` times with a backoff, count, or record the first failure and cancel
everybody. `FindStep` is one round of the loop that looks for a stride coprime to
the count, before any worker or prefetch handler exists.

### Dispatch
`Probe` is one action: it changes only what the sender shows, after all its
calls. A dispatch starts a fan-out (`waiting`), each goroutine of which sends a
start call; the call's handler at the agent is an element of `handlers` and lives
on if the caller gives up. `PollAnswer`/`PollFails`/`RoundEnds` are monitor,
`CancelTask`/`CancelFails` cancelRemote, `Join`/`Exclude`/`MemberPoll` the
distribution loop, which only sees the receivers in `Early`. It looks once per round
whether it admits receivers (`dist.accepting`, taken anew in `NewRound` when the
goroutines of the last round are joined), so it may still admit one just after a
pause. `Launch` is the
second critical section of the agent's start. With `LateStart = FALSE` a cancel is
not handled while the start of the same ID is half done at that agent. Source
changes, a receiver's own cancel and the limit of eight concurrent calls are not
in the model; the limit only orders the fan-out.

### Roles
Each goroutine has a sequence of remaining steps; a function of the code is a
sequence (`StopDiscovery`, `StartAgent`, ...), a call a concatenation, an error
return drops the rest. Main runs AutoStart and later Close; `Op` runs the one
operation `begin` admits; a loop runs the discovery loop. `online` stands for all
a connection attempt needs (lookup, sender, listener). `hubMu` is left out: only
the operation runs `ensureSender`. A loop that finds its agent connected also
compares token and permission for commands with the settings; these are data and do
not change here. Close also waits for the distribution loop and the command operation,
which are Dispatch's and Commands'. `Early` lets a request arrive before AutoStart
has returned, which the start order in `main` permits.

### Session
An agent with the session it owns. Connections are sockets that return after they
were closed; the acceptor is a process of two steps (`Accept`, then `Enter`, the
section that registers the connection or refuses it). Each connection has a handler
whose place is `h[c]`: a `GetChunk` request that passed HasChunk waits in `slot`
(`AcquireUpload`), reads in `upload`, and gives the slot back in every outcome. Each
look at the provider takes `s.mu` for itself (ReadChunk holds it for reading while it
reads); nothing is held from HasChunk through the wait to ReadChunk. `Start`,
`Launch`, `TaskAdded` are the parts of "start" outside r.mu,
the look at `r.ctx` inside it, and the rest of the same section with `taskWG.Add`;
commands likewise. That `launch` and `run` are places with the lock held is what
makes the race with `close` visible: `Bar` stands for cancelTask and cancelCommand,
which pass through r.mu before `taskWG.Wait`.

The task's goroutine is the frame of `agent.download` and `RunTo` with every error
exit: make the cache directory, create the part file, `BeSendSub` (which closes what
was retained), collect chunks, rename and retain, or withdraw, close and remove; then
prune old caches and extract. A file has one chunk and its content is Swarm's
business. `Stop`, `Bar`, `JoinTasks`, `StopSession`, `Drained` are agent.close; its
wait for the goroutine that reads the control connection is left out, since
`sdk.Close` in `Bar` has closed that connection. The
limit of 512 connections is in `Enter`, but an instance with two connections does
not reach it.

### Commands
The second operation slot of the application. `Ask`/`AskLost`/`AskSkipped` is the
loop of `command`, which asks one machine after the other; a call in `calls` may be
handled although its caller has given up (`LaunchCommand`, `CommandRejected`), since
the agent's handler does not know that. `Asked` stores the map and enters the
monitor; `PollAnswer` compares IDs, as the code does. `CancelCommand` and
`CancelFails` are cancelRemoteKind. `CopyProbes` and `MergeProbes` are the two ends
of a dispatch as far as `App.probes` goes; its own course is Dispatch's. The
variables `finished` and `op.missed` are history: who completed this command, and
whether a cancel was lost or overtook its call. The sender is not stopped and no mode
is selected here: both empty the map.

### Transfer
`Prepare` (`Visit`, `CopyIn`, `PrepareDone`), the manifest that goes with a task
(`Dispatch`), the bundle served when the task starts (`Download`, which compares only
name and size, as "start" does), and `Extract` (`NextRecord`, `CreateTemp`, `CopyOut`,
`Lstat`, `RenameFile`, `ExtractDone`), each with failure at every point. A file is its
length and entries are numbers in WalkDir order: lengths are what the tar writer and
the manifest compare. `Edit` changes the tree at any time, `Appears` puts a foreign
file in the target. Name checks (`SafeName`, `Resolve`, `ValidateEntries`) only
reject and are left out, as is Prepare of a single file, which copies nothing.
`RenameRace` opens the gap between Lstat and Rename, which no portable call closes;
it is off in the run. Its specification is `TransferSpec` (with `TransferInit`,
`TransferNext`, ...), so that one proof module can extend Transfer and Swarm.

### The proof modules
`TrackerProofs`, `ConnPoolProofs`, `DownloadProofs`, `DispatchProofs`, `RolesProofs`,
`SessionProofs` and `CommandsProofs` extend the component they are named after with
the inductive invariant, lemmas and theorems of section 6. `ContentProofs` does so for
the two modules about what bytes arrive, Swarm and Transfer. `MCTracker`
and `MCSwarm` only add symmetry sets and the zone function, and MCTracker a view that
leaves the history variable `named` out of the states that are told apart; the action
property is still checked on every step.

## 3. Runs

| Run | Instance | Distinct states | Result |
|---|---|---|---|
| `tracker` | 2 receivers + central, 1 zone, 2 chunks, MaxInflight 1, 2 leases, 2 answers being written | 587 092 | holds |
| `swarm` | 2 receivers, 2 chunks, 2 versions | 253 754 | holds |
| `swarm_retask` | 2 receivers, 1 chunk, 1 version, `Retask` | - | `Integrity` violated |
| `conn_pool` | 3 callers, 2 sockets, 1 permit, with liveness | 38 336 | holds |
| `download` | 4 chunks, 2 workers, 2 attempts, priority channel of 1, with liveness | 990 706 | holds |
| `dispatch` | 2 receivers, one seen by the distribution, 2 task IDs, with liveness | 854 072 | holds |
| `dispatch_late` | the same, `LateStart` | - | `CancelStops` violated |
| `dispatch_foreign` | the same | - | `DistributionUndisturbed` violated |
| `roles` | 2 loops, 2 agents, with liveness | 101 350 | holds |
| `session` | 2 connections, 2 slots (1 under backoff), 2 tasks, with liveness | 432 484 | holds |
| `commands` | 2 receivers, 2 command IDs, 1 dispatch, with liveness | 572 005 | holds |
| `transfer` | 3 entries, one a directory, lengths 0 to 2, 3 edits | 342 752 | holds |

What the passing runs check:

- `tracker`: `LeaseAccounting` (connNum is the number of leases),
  `SourceLoadBounded` (never more than maxInflight on a receiver),
  `OwnershipAgrees` (the two maps are inverse and name registered peers only),
  `DeadLeasesNeverStarve` (a source whose leases are all overdue is a candidate
  again), `PrefetchOnlyMissing` (with a single zone in the run; the theorem has any
  number), `LiveLeasesKept` (a lease that is not overdue goes only with a report or a
  failed answer that names its source, requester and chunk, unless the source leaves
  or the file changes).
- `swarm`: `Integrity` (a completed download is its task's version),
  `VerifiedChunks` (every offered chunk is), `OwnersServeCurrent`,
  `ImplementsDelivery`.
- `conn_pool`: `PermitAccounting` (a permit is held by exactly the callers that
  should), `SocketsAccounted` (no socket is shared, lost or above the bound),
  `WaitersServed`, `CloseDrains`.
- `download`: `NoDuplicateWriters`, `DoneCountsChunks`, `JoinedBeforeCleanup`,
  `ImplementsDelivery` (success means every chunk, failure keeps none), `Returns`
  (the search for a stride ends, and RunTo returns).
- `dispatch`: `CancelStops`, `CompletedMeansSeeding`, `RunningNeverReplaced`,
  `OpEnds`.
- `roles`: `ModesExclusive`, `OneReceiver` (one loop, and every agent has an
  owner), `StopsAreClean` (a stopped role and a closed process leave nothing),
  `OpEnds`, `Reconnects`.
- `session`: `ServedIsOpen` (no handler reads a closed file), `CacheOutlivesFile`
  (an open archive keeps its directory; a resting agent keeps at most one),
  `CloseIsClean`, `CloseReturns`.
- `commands`: `CancelKills` (also where the start was never acknowledged),
  `ProbesKept` (neither operation loses what the other recorded),
  `CompletedMeansDone`, `CommandOpEnds`.
- `transfer`: `BundleWhole`, `NeverTorn`, `SuccessIsManifest`, `NotReplaced`.

Why the bounds are enough to meet the hard cases. Tracker: two requesters and two
chunks give two leases that compete for one source, and MaxInflight 1 makes the
limit bite at once; two writers let an answer fail after its lease was renewed by
another. Swarm: two versions and two
chunks give a mixed file. Pool: three callers and one permit give a waiter behind
a waiter; two sockets give one idle and one being dialled. Download: four chunks
have a stride (2) that is not coprime and that the search must leave; a priority channel of one is
full after one command. Dispatch: two IDs give a dispatch beside a distribution,
or two dispatches in a row. Roles: two loops and two agents are what a duplicate
needs; identities return when nothing refers to them, so histories are unbounded.
Session: one connection reads the seed while another starts the task that replaces
it; two slots and a limit of one give more uploads than the limit after a backoff;
two tasks give a seed, its cache and its successor. Commands: two IDs give a call of
the first operation that arrives during the second; two machines give one answer
lost and one received. Transfer: with three edits a file can grow while it is
packed, and the sizes of two files can be swapped before the second Prepare, so that
the bundle has the size the manifest was sent with but not its entries. For safety
the proofs remove these bounds everywhere; liveness rests on them.

`CHECK_DEADLOCK FALSE` is set where the program may end: a finished download, a
closed pool, agent or process, an extraction that is done, and operations whose
bounded IDs are used up.

## 4. Fairness

Weak fairness on each goroutine's steps: Go schedules runnable goroutines, and
every blocking call here has a deadline (dials 4 s, exchanges, control calls,
lookups), so it returns with or without success; *which* is never assumed.
Strong fairness is used once, for `Acquire`: a Go channel serves blocked senders
in order, so a caller that waits while permits return again and again gets one.
`TaskEnds` is fair in Dispatch, and `TaskStep` in Session, because `Download` shows
that a task terminates. A command ends because its timeout is at most five minutes.
In Session nothing is assumed of peers: they may stay connected, registered and
silent for ever, and `CloseReturns` holds because Stop closes their sockets; the
accept loop is only assumed to notice that the listener was closed. The environment
(new requests, cancels, lost connections, edits, a sender that comes or goes) has no
fairness; `Reconnects` is stated for behaviours in which a sender finally stays.

## 5. Where the code and its documents disagree

Each is a run that TLC refutes, with the quotation in `PROJECT.json`.

1. `swarm_retask`: a node given a new task between HasChunk and ReadChunk sends
   bytes of its new, empty part file with a matching CRC. `usage_guide.md` says
   that no further check of a finished download is needed.
2. `dispatch_late`: a cancel that overtakes its start is answered as done and the
   task then starts.
3. `dispatch_foreign`: cancelling a dispatch cancels every task in its copy of
   `App.probes`, the paused distribution's included.

Observations that the models show, or contain, and that have no run of their own:

- With `LateReport` in Swarm, a report about the last file that is handled when the
  next one is served makes the old seeder an owner of the new file's chunk (`AddBlockOwner`
  checks only that the peer is registered and the index exists); another node fetches the
  old bytes from it, of equal length and with a matching CRC, and completes: neither
  `OwnersServeCurrent` nor `Integrity` holds.
- With `Overlap` in Swarm, an old task completes with chunks of a source that
  replaced its own under the same size: chunk requests name no file, and `Unchanged`
  compares the present source only with itself.
- `finish` in the client's `borrow` ignores the result of `stop()`, so a connection
  that the AfterFunc is about to close can go back into the pool; the next user's
  exchange then fails and is retried. Because `release` returns the permit first, an
  address may briefly have one socket more than its limit; `SocketsAccounted` states
  the bound the code does keep.
- With `Early` in Roles, a request that arrives before AutoStart has returned can leave
  two discovery loops, a loop beside a hub, or a loop behind "go offline": none of the
  run's three safety properties holds then.
- The coordinator's backoff command can never be sent (proved below).
- A failed `receiver.manual` leaves neither loop nor agent; one lost status answer
  marks a machine as failed for the rest of the operation.
- A cancelled command operation does not poll again, so the page keeps showing the
  last polled status, possibly "running".
- A new task that fails withdraws the previous seed as well, whose cache directory
  stays until the next success or `close` (hence "at most one" in
  `CacheOutlivesFile` counts it).
- A file changed while it is packed without changing its length is packed as it was
  read, part old and part new; `BundleWhole` is about lengths only.
- With `RenameRace` in Transfer, a file that appears between Lstat and Rename is
  replaced without leave.

## 6. Proofs

Each proof module has an inductive invariant `IInv` (ContentProofs two: `SwarmInv` and
`TransferInv`), a lemma `Next...` per conjunct with one step per action, a theorem
`Spec => []IInv`, and from it the properties.
The runs' properties are seldom inductive; what had to be added is said below. The
constants are any that satisfy the module's `...Constants` assumption, which gives
their types, says that special values are not ordinary ones and, where elements are
counted, that a set of goroutines, machines or connections is finite.

**TrackerProofs**, also under `OverloadAboveInflight` (2 <= 4 in the code):

- `LeaseInvariant`: `TypeOK /\ LeaseInv /\ SourceLoadBounded` is inductive.
  `LeaseAccounting` alone is not: that subtracting the overdue leases from the
  counter equals removing them from the set needs the lease sets finite and the
  overdue ones among them (`ExpiryExact`), and that a decrement never goes below
  zero needs the equality itself (`GiveBackExact`). `LeaseLockedExact` adds that
  a lease raises only the source it is on, by one.
  From it: `TypeCorrect`, `LeasesCounted`, `LoadBounded`,
  `NoStarvationByDeadLeases`, and `BackoffUnreachable`: no source has more than
  maxInflight leases, hence none exceeds backoffOverloadConn.
- `OwnershipInvariant`: `OwnershipAgrees`, whose two halves need each other: the
  maps are inverse and owners are registered, and dropping a peer cleans only the
  chunks its own entry lists.
- `PrefetchSound` (`PrefetchOnlyMissing`): the coordinator walks `PeerOwners` and
  the property is about `ChunkOwners`, so it rests on their agreement; that a zone
  with a missing chunk is asked for one needs a best peer (`BestPeerExists`) and a
  first chunk (`FirstMissingAsked`) to exist in every finite set.
- `LiveLeasesSafe` (`LiveLeasesKept`), an action property, for any number of answers
  being written: who is asked for (`named`) is the lease that goes, and no other. It
  needs `LeasesRegistered`, that a node that is not registered has no leases, for else a
  registration would drop them.

**ContentProofs, Swarm**. `TypeCorrect` needs no assumption on the flags. The others assume
`~Retask`, `~Overlap` and `~LateReport`, which are conditions on the environment that
the code does not enforce (section 5 shows that none can be dropped); a file may be
withdrawn at any time. `SwarmInv` adds to the properties that running tasks are for
the version served, if one is (`RunningCurrent`), that reports under way are too
(`ReportsCurrent`), that a fetch past a stage has what the stage established, in terms
of the requester's task (`FetchesSound`), and that a seeding node has every chunk
(`SeedsComplete`). From `SwarmInvariant` follow
`DownloadsGenuine`, `OfferedChunksGenuine` and `OwnersCurrent`, for any number of
receivers, chunks and versions. `SwarmDelivers` is the refinement: under
`VerifiedChunks` the set `Genuine` is the set of chunks the node has in chunkHash, so
that each step of the network is a step of `Delivery` at one node, or a stutter
(`StepDelivers`, one case per action): a stored chunk was missing before because
the type invariant lets a receiver fetch only chunks it lacks.

**ConnPoolProofs**: `PermitsCounted` and `SocketsSafe`, for any number of callers,
sockets and permits. `PermitAccounting` is inductive. `SocketsAccounted` is not:
`release` gives its permit back before the socket is idle, and that this lets in *at
most one* extra socket needs the permit accounting together with the mutual exclusion
of p.mu (`MutexInv`); that `Close` leaves no lent socket open needs every socket in
use to be in `borrowed` (`BorrowedInv`).

**DownloadProofs**, for any file, stride, number of workers and of attempts:

- `WritersUnique`, `ProgressCounted`, `CleanupLast`, and the refinement
  `RunDelivers`: each step of RunTo is a step of `Delivery` or a stutter.
- The refinement needs that a nil result has every chunk. One half is arithmetic:
  `ShuffleComplete` says that start + n*step mod count visits every index when step
  is coprime to count, from `Bezout`, itself from the least positive combination
  (`LeastDivides`). The other half is a chain of responsibility: an index that was
  fed or claimed is stored, or in the hands of a worker, or the run is broken by a
  failure or an ended context (`Covered`); the feeder stops early only when broken,
  so beyond the join all is stored (`Complete`). `Recorded` says that what a worker
  did before it moved on is in the shared state, `Control` which values n, step, the
  urgent chunk and the attempts have at each place; in particular that the search,
  which stays among the strides (`NextStride`), leaves with a coprime one.

**SessionProofs**: `ServingSafe`, `CachesSafe`, `CloseSafe`, for any number of
connections, slots and tasks. None is inductive. `Descriptors` says which files are
open at each place of a task: the retained ones, and the task's own until it is
retained or closed, and that it is withdrawn from the provider first. `Caches` says
the same of directories and their order of pruning, `Ended` what every stage of
`close` has ended, and `Launching` that a launch under r.mu found the agent open
and at rest, which is why nothing is launched behind taskWG.Wait.

**CommandsProofs**: `ProbesSafe`, `CancelSafe`, `CompletionTruthful`, for any number
of machines, commands and dispatches. IDs are new (`Fresh`); whoever can run the
operation's command was asked and is in its map under that ID, lost answers included
(`Known`), so that a cancel asks it; "completed" in the map comes from a machine that
completed this very command (`Truthful`); and machines whose cancel was answered
stay quiet (`Quieted`).

**DispatchProofs**: `TypeCorrect`, `NeverReplaced`, `CompletionTruthful`, and under
`~LateStart` (which `dispatch_late` shows to be needed) `CancelSafe`, for any number
of receivers and tasks. The invariant follows an ID: it belongs to one dispatch or
one distribution (`Frame`, `Fresh`); while a receiver's start call is open it has not
had that task (`Single`), so that the branch of "start" that acknowledges a task
already there is not needed by this sender; whoever has or will have the task is in
the distribution's seen set (`Admitted`) or the operation's map (`Known`); an entry
"seeding" is the last word about a task (`Told`). `Single` also makes the type
invariant's last conjunct, one handler per call, inductive.

**ContentProofs, Transfer**: `BundlesWhole`, `TargetsWhole`, `SuccessWhole` and, under
`~RenameRace` (section 5), `NothingReplaced`, for any number of entries, any lengths
and edits. What is packed never exceeds its header and CopyContext stands behind the
bytes written (`Packing`), so a flushed bundle is whole (`Whole`); the record in work
has the manifest's length and its temporary file what was copied of it (`Matching`);
entries no longer expected are in place but for the one in work (`InPlace`). A whole
bundle is needed for whole targets: only so is a copy to the record's end a copy of
the manifest's length.

**RolesProofs**, under `~Early` (assumed by the theorems; section 5 shows that it is
needed): `ModesSeparate`, `ReceiverUnique`, `StopsClean` and `NoCircularWait`, for any
number of loops and agents.

- The state is sequences of remaining steps. Instead of listing every suffix of every
  function, `Shape` says which step may follow which; it survives dropping the first
  step (`ShapeTail`) and putting a function's sequence in front, and what a goroutine
  owes is read off its next few steps (`Ahead`). Main is always somewhere on one course
  of ten steps (`Places`).
- `Turns`: before AutoStart has returned there is no operation, and behind the join in
  Close there is none any more, so one goroutine at a time ends and begins loops.
- `LoopsOwned`: a loop that runs is a.loop, or has been cancelled and is waited for by
  a driver, and a driver that waits, or is behind its wait, has taken a.loop. Two loops
  would need both at once, hence `OneReceiver`.
- `AgentsOwned`: receiverMu has one holder, and it owns the agents: between "swap" and
  "create" there is none, then only the one it made.
- `ModeKept`: config.Mode agrees with what runs *and* with what a goroutine has already
  found it to be, which is what the separate checks in startDiscovery, startAgent and
  ensureSender rest on. A live agent under another mode than "receiver" is only
  possible while the operation that made it has not installed it.
- `Stopping`: what is left of going offline are only its own steps, so that no error
  return leaves it before the agent is closed.
- `NoCircularWait` is the safety part of `OpEnds`: a goroutine that waits for a loop
  does not hold receiverMu, and if the loop still runs it was told to end.

Only model-checked:

- liveness, which the prover cannot do: `WaitersServed`, `CloseDrains`, `Returns`,
  `OpEnds` (Dispatch and Roles), `Reconnects`, `CloseReturns`, `CommandOpEnds`;
- that `TarSize` is a natural number: it is a sum over a set, by recursion on data.
  The proofs use it as an opaque value (`TarSizes`), since start only compares it.

## 7. Hazards

`PROJECT.json` lists forty places where this code can go wrong in ways a test
hardly reaches, each with the properties of the runs that would notice.

## 8. Not modelled

- Source changes and restarts of agents inside Dispatch: the first are Swarm's, the
  second Roles' and Session's; their product with a dispatch is beyond TLC.
- GSP framing: a byte codec; frames are atomic messages here.
- mDNS: a third-party resolver; a lookup either finds the sender or not.
- Library API, command line: wrappers that call session, client and download in the
  order the agent does. HTTP and pages: decoding and rendering; what they start
  enters the models as an operation.
- How a command's process group is killed: the operating system's.
- Buffer pool: a cache without protocol state. `pkg/discovery` and
  `internal/queue`: unused by the rest of the program.
- Durations: a deadline is an action that may happen at any time.

## 9. Plan

Order: what decides whether a transfer is right and ends came first (Tracker,
Swarm, ConnPool, Download), then who starts and stops it (Dispatch, Roles, Session,
Commands), then what is packed and unpacked (Transfer). The safety properties of all
of them are proved. What is left are facts that hold only together:

1. That a `Dispatch` task that is "seeding" is a `Download` that delivered.
2. That Session's collected file is Swarm's, so that what is pruned or withdrawn there
   is never a chunk some receiver is being sent.
3. Liveness of the components, once a prover does fairness: `NoCircularWait` in Roles
   and the accounting invariants of ConnPool are the safety halves.
