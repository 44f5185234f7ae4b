------------------------------ MODULE Download ------------------------------
(***************************************************************************)
(* receiver.RunTo: a feeder hands chunk indexes in a shuffled order to a   *)
(* fixed set of workers over an unbuffered channel; commands of the        *)
(* coordinator (prefetch) arrive on another goroutine through a small      *)
(* buffered channel and are handed out first.  Workers share one mutex     *)
(* (claimed, done, failure) and one cancellable context.                   *)
(***************************************************************************)
EXTENDS Naturals, Sequences, FiniteSets

CONSTANTS
    Count,        \* meta.ChunkNum
    Start,        \* rand.Int64N(count), the first index of the shuffle
    Worker,       \* min(5, count) goroutines
    MaxAttempts,  \* 3 in the code
    PriorityCap   \* capacity of the priority channel, 4 in the code

ASSUME DownloadConstants ==
    /\ Count \in Nat
    /\ Start \in IF Count > 0 THEN 0 .. Count - 1 ELSE {0}
    /\ IsFiniteSet(Worker)
    /\ Count > 0 => Worker # {}
    /\ MaxAttempts \in Nat \ {0}
    /\ PriorityCap \in Nat

Chunk == 0 .. Count - 1

VARIABLES
    step,         \* the stride of the shuffle
    n,            \* indexes of the shuffle handed out
    feeder,       \* where RunTo's own goroutine is
    urgent,       \* the prefetch index it is handing out
    priority,     \* the buffered channel
    pc, job, try, \* each worker: place, index, attempt
    claimed,      \* indexes being worked on
    has,          \* keys of the session's chunkHash
    done,         \* the progress counter
    failure,      \* a chunk failed for good
    cancelled,    \* cancel() was called
    ctxDone,      \* the caller's context ended
    result        \* "none" until RunTo returns

feedVars == <<step, n, feeder, urgent, priority>>
workVars == <<pc, job, try>>
sharedVars == <<claimed, has, done, failure, cancelled>>
vars == <<feedVars, workVars, sharedVars, ctxDone, result>>

workDone == ctxDone \/ cancelled    \* workCtx.Err() # nil

Place == {"recv", "claim", "attempt", "fetch", "backoff", "stored", "cancel", "exit"}
FeederPlace ==
    {"shuffle", "poll", "urgent", "feed", "join", "sync", "rename", "returned"}

(***************************************************************************)
(* The one type invariant: indexes stay in the file, the priority channel  *)
(* within its capacity, and the counter within the number of chunks.       *)
(***************************************************************************)
TypeOK ==
    /\ step \in Nat
    /\ n \in 0 .. Count
    /\ feeder \in FeederPlace
    /\ urgent \in Nat
    /\ priority \in Seq(Chunk) /\ Len(priority) <= PriorityCap
    /\ pc \in [Worker -> Place]
    /\ job \in [Worker -> Nat]
    /\ \A w \in Worker : pc[w] \notin {"recv", "exit"} => job[w] \in Chunk
    /\ try \in [Worker -> 0 .. MaxAttempts]
    /\ claimed \subseteq Chunk
    /\ has \subseteq Chunk
    /\ done \in 0 .. Count
    /\ failure \in BOOLEAN /\ cancelled \in BOOLEAN /\ ctxDone \in BOOLEAN
    /\ result \in {"none", "ok", "failed", "cancelled"}

-----------------------------------------------------------------------------
(* The shuffle *)

\* gcd(a, b) = 1 for 0 < a < b.
Coprime(a, b) == \A d \in 2 .. b : ~(a % d = 0 /\ b % d = 0)

\* rand.Int64N(count-1) + 1; a file of one chunk or none keeps the stride 1.
Strides == IF Count > 1 THEN 1 .. Count - 1 ELSE {1}

\* i after k rounds of i = (i + step) % count.
FeedAt(k) == (Start + k * step) % Count

AfterFeed(k) == IF k < Count THEN "poll" ELSE "join"

\* The part file is made and BeSendSub has forgotten the previous hashes.
Init ==
    /\ step \in Strides
    /\ n = 0
    /\ feeder = "shuffle"
    /\ urgent = 0
    /\ priority = <<>>
    /\ pc = [w \in Worker |-> "recv"]
    /\ job = [w \in Worker |-> 0]
    /\ try = [w \in Worker |-> 0]
    /\ claimed = {} /\ has = {} /\ done = 0
    /\ failure = FALSE /\ cancelled = FALSE /\ ctxDone = FALSE
    /\ result = "none"

-----------------------------------------------------------------------------
(* The feeder *)

\* The loop raises the random step, cyclically, until it is coprime to count; only
\* then are the workers started and the prefetch handler set.
FindStep ==
    /\ feeder = "shuffle"
    /\ IF Count > 1 /\ ~Coprime(step, Count)
         THEN step' = (step % (Count - 1)) + 1 /\ UNCHANGED feeder
         ELSE feeder' = AfterFeed(0) /\ UNCHANGED step
    /\ UNCHANGED <<n, urgent, priority, workVars, sharedVars, ctxDone, result>>

\* ApplyControl on the control connection's goroutine: a full channel drops it.
Prefetch(i) ==
    /\ feeder \notin {"shuffle", "returned"}
    /\ Len(priority) < PriorityCap
    /\ priority' = Append(priority, i)
    /\ UNCHANGED <<step, n, feeder, urgent, workVars, sharedVars, ctxDone,
                   result>>

PollPriority ==
    /\ feeder = "poll"
    /\ IF priority = <<>>
         THEN feeder' = "feed" /\ UNCHANGED <<urgent, priority>>
         ELSE /\ feeder' = "urgent"
              /\ urgent' = Head(priority)
              /\ priority' = Tail(priority)
    /\ UNCHANGED <<step, n, workVars, sharedVars, ctxDone, result>>

\* jobs is unbuffered: a send meets a worker at its receive.
Receive(w, i) ==
    /\ pc[w] = "recv"
    /\ pc' = [pc EXCEPT ![w] = "claim"]
    /\ job' = [job EXCEPT ![w] = i]
    /\ UNCHANGED try

HandUrgent(w) ==
    /\ feeder = "urgent"
    /\ Receive(w, urgent)
    /\ feeder' = "feed"
    /\ urgent' = 0
    /\ UNCHANGED <<step, n, priority, sharedVars, ctxDone, result>>

HandNext(w) ==
    /\ feeder = "feed"
    /\ Receive(w, FeedAt(n))
    /\ n' = n + 1
    /\ feeder' = AfterFeed(n + 1)
    /\ UNCHANGED <<step, urgent, priority, sharedVars, ctxDone, result>>

BreakNextOnly ==
    /\ feeder = "feed" /\ workDone
    /\ feeder' = "join"
    /\ UNCHANGED <<step, n, urgent, priority, workVars, sharedVars,
                   ctxDone, result>>

BreakFeed ==
    /\ feeder \in {"urgent", "feed"} /\ workDone
    /\ feeder' = "join"
    /\ UNCHANGED <<step, n, urgent, priority, workVars, sharedVars,
                   ctxDone, result>>

-----------------------------------------------------------------------------
(* A worker *)

Move(w, place) == pc' = [pc EXCEPT ![w] = place] /\ UNCHANGED job

\* Back to the range over jobs, or out of the goroutine: i and attempt end.
Leave(w, place) ==
    /\ pc' = [pc EXCEPT ![w] = place]
    /\ job' = [job EXCEPT ![w] = 0]
    /\ try' = [try EXCEPT ![w] = 0]

\* close(jobs) ends the range loop.
NoMoreJobs(w) ==
    /\ pc[w] = "recv" /\ feeder \in {"join", "sync", "rename", "returned"}
    /\ Leave(w, "exit")
    /\ UNCHANGED <<feedVars, sharedVars, ctxDone, result>>

ClaimUnseen(w) ==
    /\ pc[w] = "claim"
    /\ IF job[w] \in claimed
         THEN Leave(w, "recv") /\ UNCHANGED claimed
         ELSE /\ claimed' = claimed \cup {job[w]}
              /\ Move(w, "attempt")
              /\ try' = [try EXCEPT ![w] = 1]
    /\ UNCHANGED <<feedVars, has, done, failure, cancelled, ctxDone, result>>

ClaimUnlocked(w) ==
    /\ pc[w] = "claim"
    /\ IF job[w] \in has
         THEN Leave(w, "recv") /\ UNCHANGED claimed
         ELSE /\ claimed' = claimed \cup {job[w]}
              /\ Move(w, "attempt")
              /\ try' = [try EXCEPT ![w] = 1]
    /\ UNCHANGED <<feedVars, has, done, failure, cancelled, ctxDone, result>>

\* skip := claimed[i] || s.HasChunk(i), and the claim, in one section of mu.
Claim(w) ==
    /\ pc[w] = "claim"
    /\ IF job[w] \in claimed \cup has
         THEN Leave(w, "recv") /\ UNCHANGED claimed
         ELSE /\ claimed' = claimed \cup {job[w]}
              /\ Move(w, "attempt")
              /\ try' = [try EXCEPT ![w] = 1]
    /\ UNCHANGED <<feedVars, has, done, failure, cancelled, ctxDone, result>>

\* workCtx is looked at before each attempt, before each candidate and while
\* the retry timer runs; the claim is left behind.
Abandon(w) ==
    /\ pc[w] \in {"attempt", "fetch", "backoff"} /\ workDone
    /\ Leave(w, "exit")
    /\ UNCHANGED <<feedVars, sharedVars, ctxDone, result>>

Attempt(w) ==
    /\ pc[w] = "attempt" /\ ~workDone
    /\ Move(w, "fetch")
    /\ UNCHANGED <<feedVars, try, sharedVars, ctxDone, result>>

\* WantChunk, then some candidate delivered a chunk that passed its CRC and was
\* saved: AddChunk makes it available to others at once.
Fetched(w) ==
    /\ pc[w] = "fetch"
    /\ has' = has \cup {job[w]}
    /\ Move(w, "stored")
    /\ UNCHANGED <<feedVars, try, claimed, done, failure, cancelled, ctxDone, result>>

\* WantChunk or every candidate failed: wait and retry, or give up.
FetchFailed(w) ==
    /\ pc[w] = "fetch"
    /\ IF try[w] < MaxAttempts
         THEN Move(w, "backoff") /\ UNCHANGED failure
         ELSE Move(w, "cancel") /\ failure' = TRUE
    /\ UNCHANGED <<feedVars, try, claimed, has, done, cancelled, ctxDone, result>>

Retry(w) ==
    /\ pc[w] = "backoff"
    /\ Move(w, "attempt")
    /\ try' = [try EXCEPT ![w] = @ + 1]
    /\ UNCHANGED <<feedVars, sharedVars, ctxDone, result>>

\* After ReportChunk: release the claim and count the chunk, under mu.
CountDone(w) ==
    /\ pc[w] = "stored"
    /\ claimed' = claimed \ {job[w]}
    /\ done' = done + 1
    /\ Leave(w, "recv")
    /\ UNCHANGED <<feedVars, has, failure, cancelled, ctxDone, result>>

\* cancel() runs after mu is released.
CancelAll(w) ==
    /\ pc[w] = "cancel"
    /\ cancelled' = TRUE
    /\ Leave(w, "exit")
    /\ UNCHANGED <<feedVars, claimed, has, done, failure, ctxDone, result>>

-----------------------------------------------------------------------------
(* The end of RunTo *)

CtxEnds ==
    /\ ~ctxDone /\ result = "none"
    /\ ctxDone' = TRUE
    /\ UNCHANGED <<feedVars, workVars, sharedVars, result>>

ReturnKeeping(r) ==
    /\ feeder' = "returned"
    /\ result' = r
    /\ UNCHANGED <<step, n, urgent, priority, workVars, sharedVars, ctxDone>>

\* The deferred cleanup of every return but the last: ClearChunks, remove.
ReturnWith(r) ==
    /\ feeder' = "returned"
    /\ result' = r
    /\ has' = IF r = "ok" THEN has ELSE {}
    /\ UNCHANGED <<step, n, urgent, priority, workVars, claimed, done,
                   failure, cancelled, ctxDone>>

Proceed(place) ==
    /\ feeder' = place
    /\ UNCHANGED <<step, n, urgent, priority, workVars, sharedVars,
                   ctxDone, result>>

JoinUnawaited ==
    /\ feeder = "join"
    /\ \/ ctxDone /\ ReturnWith("cancelled")
       \/ ~ctxDone /\ failure /\ ReturnWith("failed")
       \/ ~ctxDone /\ ~failure /\ Proceed("sync")

\* wg.Wait, then the caller's context before the workers' failure.
Join ==
    /\ feeder = "join"
    /\ \A w \in Worker : pc[w] = "exit"
    /\ \/ ctxDone /\ ReturnWith("cancelled")
       \/ ~ctxDone /\ failure /\ ReturnWith("failed")
       \/ ~ctxDone /\ ~failure /\ Proceed("sync")

Sync ==
    /\ feeder = "sync"
    /\ \/ ReturnWith("failed")
       \/ ctxDone /\ ReturnWith("cancelled")
       \/ ~ctxDone /\ Proceed("rename")

\* The target may exist without leave to overwrite it, or the rename may fail.
Rename ==
    /\ feeder = "rename"
    /\ ReturnWith("failed") \/ ReturnWith("ok")

-----------------------------------------------------------------------------
HandOut == \E w \in Worker : HandUrgent(w) \/ HandNext(w)
Feeder == FindStep \/ PollPriority \/ HandOut \/ BreakFeed \/ Join \/ Sync \/ Rename
WorkerStep(w) ==
    \/ NoMoreJobs(w) \/ Claim(w) \/ Abandon(w) \/ Attempt(w) \/ Fetched(w)
    \/ FetchFailed(w) \/ Retry(w) \/ CountDone(w) \/ CancelAll(w)

Next ==
    \/ \E i \in Chunk : Prefetch(i)
    \/ FindStep
    \/ PollPriority
    \/ \E w \in Worker : HandUrgent(w)
    \/ \E w \in Worker : HandNext(w)
    \/ BreakFeed
    \/ \E w \in Worker : WorkerStep(w)
    \/ CtxEnds
    \/ Join
    \/ Sync
    \/ Rename

Spec == Init /\ [][Next]_vars

\* Every goroutine runs; exchanges end within their deadline, timers fire.
FairSpec ==
    /\ Spec
    /\ WF_vars(Feeder)
    /\ \A w \in Worker : WF_vars(WorkerStep(w))

-----------------------------------------------------------------------------
(* Properties *)

\* "Coordinator requests never create duplicate writers": no two workers fetch,
\* and so write, the same chunk, and none fetches a chunk already stored.
NoDuplicateWriters ==
    \A w \in Worker : pc[w] \in {"attempt", "fetch", "backoff"} =>
        /\ job[w] \in claimed \ has
        /\ \A v \in Worker :
              /\ v # w
              /\ pc[v] \in {"attempt", "fetch", "backoff", "stored"}
              => job[v] # job[w]

\* RunTo keeps the promise of Delivery: it stores each chunk once, returns nil
\* and keeps the file only when every chunk is stored (the shuffle visits every
\* index, a skipped one is stored by another worker, and a worker that gave up
\* leaves a failure or an ended context behind), and keeps nothing otherwise.
Outcome ==
    CASE result = "none" -> "running"
      [] result = "ok" -> "delivered"
      [] OTHER -> "failed"

Promise == INSTANCE Delivery WITH
    Node <- {"self"}, stored <- [x \in {"self"} |-> has],
    outcome <- [x \in {"self"} |-> Outcome]

ImplementsDelivery == Promise!Spec

\* RunTo returns: the search for a stride ends, and the feeder never waits for
\* workers that are gone, whichever of its two sends it is at when they leave.
Returns == Promise!Ends

\* The progress counter counts each stored chunk once, prefetched or not: it
\* lags behind chunkHash by the workers between AddChunk and done++.
DoneCountsChunks ==
    /\ TypeOK
    /\ result = "none" =>
         done + Cardinality({w \in Worker : pc[w] = "stored"}) = Cardinality(has)

\* "RunTo joins every worker before cleanup": none is left to write into a
\* file that was closed, removed or renamed.
JoinedBeforeCleanup ==
    feeder \in {"sync", "rename", "returned"} =>
        \A w \in Worker : pc[w] = "exit"

=============================================================================
