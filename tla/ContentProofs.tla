---------------------------- MODULE ContentProofs ----------------------------
(***************************************************************************)
(* What a receiver ends up with is what was published: the chunks of a     *)
(* distribution (Swarm) and the files of a bundle (Transfer), for any      *)
(* number of receivers, chunks, versions and entries, any lengths and any  *)
(* edits.                                                                  *)
(***************************************************************************)
EXTENDS Swarm, Transfer, FiniteSetTheorems, WellFoundedInduction, NaturalsInduction, TLAPS

-----------------------------------------------------------------------------
(***************************************************************************)
(* Swarm: the integrity of a distribution, under three conditions that the *)
(* code does not enforce and that TLC shows to be needed: no node is given *)
(* a new task between the HasChunk and the ReadChunk of a handler, and the *)
(* next file is served only when no task for the last one runs and no      *)
(* report about it is under way.  A file may be withdrawn at any time.     *)
(***************************************************************************)

\* While a task runs, no version but its own is served.
RunningCurrent ==
    \A r \in Receivers : status[r] = "running" /\ src # NoVersion => task[r] = src

\* A report still under way is about the version being served, if one is.
ReportsCurrent == \A m \in reports : src # NoVersion => task[m[1]] = src

\* What is known of an exchange at each stage.
FetchesSound ==
    \A f \in fetches :
        /\ f.from # Sender => task[f.from] = task[f.to]
        /\ f.from # Sender /\ f.stage = "checked"
             => \/ f.index \in hash[f.from]
                \/ status[f.from] \notin {"running", "seeding"}
        /\ f.stage = "answered" => f.data = task[f.to]

\* A finished task has every chunk in its hash table.
SeedsComplete == \A r \in Receivers : status[r] = "seeding" => hash[r] = Chunk

SwarmInv ==
    /\ TypeOK
    /\ RunningCurrent
    /\ ReportsCurrent
    /\ FetchesSound
    /\ SeedsComplete
    /\ OwnersServeCurrent
    /\ VerifiedChunks

-----------------------------------------------------------------------------
\* Nothing is running, reported or owned at the start.
LEMMA InitSwarmInv == Init => SwarmInv
<1>. SUFFICES ASSUME Init PROVE SwarmInv
  OBVIOUS
<1>1. TypeOK
  BY DEF Init, TypeOK, Status, Content
<1>2. RunningCurrent /\ ReportsCurrent /\ FetchesSound /\ SeedsComplete
  BY DEF Init, RunningCurrent, ReportsCurrent, FetchesSound, SeedsComplete
<1>3. OwnersServeCurrent /\ VerifiedChunks
  BY DEF Init, OwnersServeCurrent, VerifiedChunks
<1>. QED BY <1>1, <1>2, <1>3 DEF SwarmInv

\* Every handler stores values of the declared types, and the claim taken
\* before wantChunk keeps exchanges for one chunk of one receiver apart.
LEMMA NextTypeOK ==
    ASSUME TypeOK, [Next]_vars
    PROVE  TypeOK'
<1>. USE SwarmConstants DEF TypeOK
<1>1. ASSUME NEW v \in Version, BeSendMain(v) PROVE TypeOK'
  BY <1>1 DEF BeSendMain
<1>2. CASE ClearContent
  BY <1>2 DEF ClearContent
<1>3. CASE EditSource
  BY <1>3 DEF EditSource
<1>4. ASSUME NEW r \in Receivers, StartTask(r) PROVE TypeOK'
  BY <1>4 DEF StartTask, Status, Content
<1>5. ASSUME NEW r \in Receivers, Finish(r) PROVE TypeOK'
  <2>1. \A f \in fetches : f.to # r
    BY <1>5 DEF Finish, Fetch
  <2>. QED BY <1>5, <2>1 DEF Finish, Status, Fetch
<1>6. ASSUME NEW r \in Receivers, Fail(r) PROVE TypeOK'
  BY <1>6 DEF Fail, Status, Fetch
<1>7. ASSUME NEW r \in Receivers, NEW i \in Chunk, NEW p \in Node,
             WantChunk(r, i, p)
      PROVE TypeOK'
  <2>. DEFINE new == [to |-> r, from |-> p, index |-> i,
                      stage |-> "sent", data |-> Zero]
  <2>1. /\ new \in Fetch /\ new.to = r /\ new.index = i
        /\ fetches' = fetches \cup {new}
    BY <1>7 DEF Fetch, Content, WantChunk
  <2>. HIDE DEF new
  <2>2. \A f \in fetches : ~(f.to = r /\ f.index = i)
    BY <1>7 DEF WantChunk
  <2>. QED BY <1>7, <2>1, <2>2 DEF WantChunk
<1>8. ASSUME NEW f \in fetches, CheckChunk(f) PROVE TypeOK'
  <2>. DEFINE g == [f EXCEPT !.stage = "checked", !.data = Zero]
  <2>1. g \in Fetch /\ g.to = f.to /\ g.index = f.index
    BY DEF Fetch, Content
  <2>2. fetches' = (fetches \ {f}) \cup {g}
    BY <1>8 DEF CheckChunk, Advance
  <2>. HIDE DEF g
  <2>. QED BY <1>8, <2>1, <2>2 DEF CheckChunk
<1>9. ASSUME NEW f \in fetches, ReadChunk(f) PROVE TypeOK'
  <2>. DEFINE d == Bytes(f.from, f.index)
              g == [f EXCEPT !.stage = "answered", !.data = d]
  <2>1. d \in Content
    BY <1>9 DEF ReadChunk, Readable, Bytes, Fetch, Node, Content
  <2>2. g \in Fetch /\ g.to = f.to /\ g.index = f.index
    BY <2>1 DEF Fetch
  <2>3. fetches' = (fetches \ {f}) \cup {g}
    BY <1>9 DEF ReadChunk, Advance
  <2>. HIDE DEF g
  <2>. QED BY <1>9, <2>2, <2>3 DEF ReadChunk
<1>10. ASSUME NEW f \in fetches, SaveChunk(f) PROVE TypeOK'
  <2>1. f.to \in Receivers /\ f.index \in Chunk /\ f.data \in Content
    BY DEF Fetch
  <2>2. \A g \in fetches \ {f} :
           g.index \notin hash[g.to] /\ ~(g.to = f.to /\ g.index = f.index)
    OBVIOUS
  <2>. QED BY <1>10, <2>1, <2>2 DEF SaveChunk, Fetch
<1>11. ASSUME NEW f \in fetches, FetchFails(f) PROVE TypeOK'
  BY <1>11 DEF FetchFails, Fetch
<1>12. ASSUME NEW m \in reports, AddBlockOwner(m) PROVE TypeOK'
  BY <1>12 DEF AddBlockOwner
<1>13. CASE UNCHANGED vars
  BY <1>13 DEF vars
<1>. QED
  BY <1>1, <1>2, <1>3, <1>4, <1>5, <1>6, <1>7, <1>8, <1>9, <1>10, <1>11,
     <1>12, <1>13 DEF Next, Exchange

\* The types hold whatever is allowed to overlap: they need neither condition.
THEOREM TypeCorrect == Spec => []TypeOK
<1>1. Init => TypeOK
  BY InitSwarmInv DEF SwarmInv
<1>2. TypeOK /\ [Next]_vars => TypeOK'
  BY NextTypeOK
<1>. QED BY <1>1, <1>2, PTL DEF Spec

-----------------------------------------------------------------------------
\* The heart of the argument: bytes that a provider reads are those of the
\* version of the requester's task, because a node that passed HasChunk still
\* holds the chunk, and the sender checks that its file is Unchanged.
LEMMA ReadsCurrent ==
    ASSUME SwarmInv, NEW f \in fetches, f.stage = "checked", Readable(f.from)
    PROVE  Bytes(f.from, f.index) = task[f.to]
<1>. USE DEF SwarmInv
<1>1. CASE f.from = Sender
  <2>1. f.to \in Receivers /\ status[f.to] = "running"
    BY DEF TypeOK, Fetch
  <2>2. src # NoVersion /\ Bytes(f.from, f.index) = src
    BY <1>1 DEF Readable, Bytes
  <2>. QED BY <2>1, <2>2 DEF RunningCurrent
<1>2. CASE f.from # Sender
  <2>1. f.from \in Receivers /\ f.index \in Chunk
    BY <1>2 DEF TypeOK, Fetch, Node
  <2>2. task[f.from] = task[f.to] /\ f.index \in hash[f.from]
    BY <1>2 DEF FetchesSound, Readable
  <2>. QED BY <1>2, <2>1, <2>2 DEF Bytes, VerifiedChunks
<1>. QED BY <1>1, <1>2

\* Every step keeps the inductive invariant.
LEMMA NextSwarmInv ==
    ASSUME ~Retask, ~Overlap, ~LateReport, SwarmInv, [Next]_vars
    PROVE  SwarmInv'
<1>. USE SwarmConstants
<1>. DEFINE Parts == /\ RunningCurrent /\ ReportsCurrent /\ FetchesSound
                     /\ SeedsComplete /\ OwnersServeCurrent /\ VerifiedChunks
<1>t. TypeOK
  BY DEF SwarmInv
<1>0. TypeOK'
  BY NextTypeOK DEF SwarmInv
<1>. SUFFICES Parts'
  BY <1>0 DEF SwarmInv
<1>. USE DEF SwarmInv, RunningCurrent, ReportsCurrent, FetchesSound, SeedsComplete,
             OwnersServeCurrent, VerifiedChunks
<1>1. ASSUME NEW v \in Version, BeSendMain(v) PROVE Parts'
  <2>2. reports = {} /\ \A r \in Receivers : status[r] # "running"
    BY <1>1 DEF BeSendMain
  <2>1. fetches = {}
    BY <2>2, <1>t DEF TypeOK, Fetch
  <2>3. \A i \in Chunk : owners[i] = {}
    BY <1>1 DEF BeSendMain
  <2>. QED BY <1>1, <2>1, <2>2, <2>3 DEF BeSendMain
<1>2. CASE ClearContent
  BY <1>2 DEF ClearContent
<1>3. CASE EditSource
  BY <1>3 DEF EditSource
<1>4. ASSUME NEW r \in Receivers, StartTask(r) PROVE Parts'
  <2>1. \A f \in fetches : f.from = r => f.stage # "checked"
    BY <1>4 DEF StartTask
  <2>2. \A q \in Receivers :
           /\ task'[q] = IF q = r THEN src ELSE task[q]
           /\ status'[q] = IF q = r THEN "running" ELSE status[q]
           /\ hash'[q] = IF q = r THEN {} ELSE hash[q]
           /\ part'[q] = IF q = r THEN [i \in Chunk |-> Zero] ELSE part[q]
    BY <1>4, <1>t DEF StartTask, TypeOK
  <2>3. UNCHANGED <<src, owners, fetches, reports>> /\ src # NoVersion
    BY <1>4 DEF StartTask
  <2>4. RunningCurrent' /\ SeedsComplete' /\ VerifiedChunks'
    BY <2>2, <2>3
  <2>5. ReportsCurrent'
    <3>1. \A m \in reports : m[1] \in Receivers
      BY <1>t DEF TypeOK
    <3>. QED BY <2>2, <2>3, <3>1
  <2>6. OwnersServeCurrent'
    <3>1. \A i \in Chunk : owners[i] \subseteq Receivers
      BY <1>t DEF TypeOK
    <3>. QED BY <2>2, <2>3, <3>1
  <2>7. FetchesSound'
    <3>1. \A f \in fetches : f.from # Sender => f.from \in Receivers
      BY <1>t DEF TypeOK, Fetch, Node
    <3>2. \A f \in fetches : f.to \in Receivers /\ f.to # r /\ task[f.to] = src
      BY <1>4, <1>t, <2>3 DEF StartTask, TypeOK, Fetch
    <3>. QED BY <2>1, <2>2, <2>3, <3>1, <3>2
  <2>. QED BY <2>4, <2>5, <2>6, <2>7
<1>5. ASSUME NEW r \in Receivers, Finish(r) PROVE Parts'
  <2>1. \A f \in fetches : f.from # Sender => f.from \in Receivers
    BY <1>t DEF TypeOK, Fetch, Node
  <2>2. \A q \in Receivers : status'[q] = IF q = r THEN "seeding" ELSE status[q]
    BY <1>5, <1>t DEF Finish, TypeOK
  <2>3. /\ UNCHANGED <<src, owners, task, part, hash, fetches, reports>>
        /\ hash[r] = Chunk /\ status[r] = "running"
    BY <1>5 DEF Finish
  <2>4. FetchesSound'
    BY <2>1, <2>2, <2>3
  <2>. QED BY <2>2, <2>3, <2>4
<1>6. ASSUME NEW r \in Receivers, Fail(r) PROVE Parts'
  <2>1. \A f \in fetches : f.from # Sender => f.from \in Receivers
    BY <1>t DEF TypeOK, Fetch, Node
  <2>2. \A q \in Receivers :
           /\ status'[q] = IF q = r THEN "failed" ELSE status[q]
           /\ hash'[q] = IF q = r THEN {} ELSE hash[q]
    BY <1>6, <1>t DEF Fail, TypeOK
  <2>3. /\ UNCHANGED <<src, owners, task, part, reports>>
        /\ fetches' \subseteq fetches
    BY <1>6 DEF Fail
  <2>4. FetchesSound'
    BY <2>1, <2>2, <2>3
  <2>. QED BY <2>2, <2>3, <2>4
<1>7. ASSUME NEW r \in Receivers, NEW i \in Chunk, NEW p \in Node,
             WantChunk(r, i, p)
      PROVE Parts'
  <2>1. p # Sender => task[p] = task[r]
    BY <1>7, <1>t DEF WantChunk, TypeOK
  <2>. DEFINE new == [to |-> r, from |-> p, index |-> i,
                      stage |-> "sent", data |-> Zero]
  <2>2. /\ new.from = p /\ new.to = r /\ new.stage = "sent"
        /\ fetches' = fetches \cup {new}
        /\ UNCHANGED <<src, owners, task, status, part, hash, reports>>
    BY <1>7 DEF WantChunk
  <2>. HIDE DEF new
  <2>. QED BY <2>1, <2>2
<1>8. ASSUME NEW f \in fetches, CheckChunk(f) PROVE Parts'
  <2>. DEFINE g == [f EXCEPT !.stage = "checked", !.data = Zero]
  <2>1. /\ g.from = f.from /\ g.to = f.to /\ g.index = f.index /\ g.stage = "checked"
        /\ fetches' = (fetches \ {f}) \cup {g}
        /\ f.from # Sender => f.index \in hash[f.from]
        /\ UNCHANGED <<src, owners, task, status, part, hash, reports>>
    BY <1>8, <1>t DEF CheckChunk, Advance, HasChunk, TypeOK, Fetch
  <2>. HIDE DEF g
  <2>. QED BY <2>1
<1>9. ASSUME NEW f \in fetches, ReadChunk(f) PROVE Parts'
  <2>. DEFINE g == [f EXCEPT !.stage = "answered",
                             !.data = Bytes(f.from, f.index)]
  <2>1. Bytes(f.from, f.index) = task[f.to]
    BY <1>9, ReadsCurrent DEF ReadChunk
  <2>2. /\ g.from = f.from /\ g.to = f.to /\ g.stage = "answered" /\ g.data = task[f.to]
        /\ fetches' = (fetches \ {f}) \cup {g}
        /\ UNCHANGED <<src, owners, task, status, part, hash, reports>>
    BY <1>9, <2>1, <1>t DEF ReadChunk, Advance, TypeOK, Fetch
  <2>. HIDE DEF g
  <2>. QED BY <2>2
<1>10. ASSUME NEW f \in fetches, SaveChunk(f) PROVE Parts'
  <2>1. /\ f.to \in Receivers /\ f.index \in Chunk
        /\ status[f.to] = "running" /\ f.data = task[f.to]
    BY <1>10, <1>t DEF SaveChunk, TypeOK, Fetch
  <2>a. \A q \in Receivers, i \in Chunk :
           part'[q][i] = IF q = f.to /\ i = f.index THEN f.data ELSE part[q][i]
    BY <1>10, <1>t, <2>1 DEF SaveChunk, TypeOK
  <2>2. \A q \in Receivers :
           hash'[q] = IF q = f.to THEN hash[q] \cup {f.index} ELSE hash[q]
    BY <1>10, <1>t, <2>1 DEF SaveChunk, TypeOK
  <2>3. /\ UNCHANGED <<src, owners, task, status>>
        /\ fetches' \subseteq fetches
        /\ reports' = reports \cup {<<f.to, f.index>>}
    BY <1>10 DEF SaveChunk
  <2>4. VerifiedChunks'
    <3>1. \A q \in Receivers : hash[q] \subseteq Chunk
      BY <1>t DEF TypeOK
    <3>3. ASSUME NEW q \in Receivers, NEW i, i \in hash'[q]
          PROVE part'[q][i] = task'[q]
      <4>0. hash'[q] \subseteq hash[q] \cup (IF q = f.to THEN {f.index} ELSE {})
        BY <2>2
      <4>b. i \in hash[q] \/ (q = f.to /\ i = f.index)
        BY <4>0, <3>3
      <4>1. i \in Chunk
        BY <2>1, <3>1, <4>b
      <4>a. /\ part'[q][i] = IF q = f.to /\ i = f.index THEN task[q] ELSE part[q][i]
            /\ task'[q] = task[q]
        BY <2>1, <2>a, <2>3, <4>1
      <4>2. CASE q = f.to /\ i = f.index
        BY <4>a, <4>2
      <4>3. CASE ~(q = f.to /\ i = f.index)
        <5>1. i \in hash[q]
          BY <4>b, <4>3
        <5>2. part[q][i] = task[q]
          BY <5>1
        <5>. QED BY <4>a, <4>3, <5>2
      <4>. QED BY <4>2, <4>3
    <3>. QED BY <3>3
  <2>5. FetchesSound'
    <3>1. \A g \in fetches : g.from # Sender => g.from \in Receivers
      BY <1>t DEF TypeOK, Fetch, Node
    <3>. QED BY <2>2, <2>3, <3>1
  <2>6. SeedsComplete'
    BY <2>1, <2>2, <2>3
  <2>7. ReportsCurrent' /\ RunningCurrent' /\ OwnersServeCurrent'
    BY <2>1, <2>3
  <2>. QED BY <2>4, <2>5, <2>6, <2>7
<1>11. ASSUME NEW f \in fetches, FetchFails(f) PROVE Parts'
  <2>1. \A i \in Chunk : owners'[i] \subseteq owners[i]
    BY <1>11, <1>t DEF FetchFails, TypeOK
  <2>. QED BY <1>11, <2>1 DEF FetchFails
<1>12. ASSUME NEW m \in reports, AddBlockOwner(m) PROVE Parts'
  <2>1. \A i \in Chunk : owners'[i] \subseteq owners[i] \cup {m[1]}
    BY <1>12, <1>t DEF AddBlockOwner, TypeOK
  <2>. QED BY <1>12, <2>1 DEF AddBlockOwner
<1>13. CASE UNCHANGED vars
  BY <1>13 DEF vars
<1>. QED
  BY <1>1, <1>2, <1>3, <1>4, <1>5, <1>6, <1>7, <1>8, <1>9, <1>10, <1>11,
     <1>12, <1>13 DEF Next, Exchange

\* The inductive invariant holds in every behaviour of such a system.
THEOREM SwarmInvariant ==
    ASSUME ~Retask, ~Overlap, ~LateReport
    PROVE  Spec => []SwarmInv
<1>1. SwarmInv /\ [Next]_vars => SwarmInv'
  BY NextSwarmInv
<1>. QED BY <1>1, InitSwarmInv, PTL DEF Spec

\* Every completed download is a copy of the version its task was given for, when
\* nodes get no new task between HasChunk and ReadChunk and the next file is served
\* only behind the tasks and reports of the last one.
THEOREM DownloadsGenuine ==
    ASSUME ~Retask, ~Overlap, ~LateReport
    PROVE  Spec => []Integrity
<1>1. SwarmInv => Integrity
  BY DEF SwarmInv, SeedsComplete, VerifiedChunks, Integrity
<1>. QED BY <1>1, SwarmInvariant, PTL

\* Under the same conditions every chunk a node offers to others is genuine, long
\* before it completes.
THEOREM OfferedChunksGenuine ==
    ASSUME ~Retask, ~Overlap, ~LateReport
    PROVE  Spec => []VerifiedChunks
<1>1. SwarmInv => VerifiedChunks
  BY DEF SwarmInv
<1>. QED BY <1>1, SwarmInvariant, PTL

\* Under the same conditions the tracker never names an owner whose task is for
\* another version, although files are withdrawn while tasks and reports are under
\* way: a report handled after ClearContent adds no owner.
THEOREM OwnersCurrent ==
    ASSUME ~Retask, ~Overlap, ~LateReport
    PROVE  Spec => []OwnersServeCurrent
<1>1. SwarmInv => OwnersServeCurrent
  BY DEF SwarmInv
<1>. QED BY <1>1, SwarmInvariant, PTL

-----------------------------------------------------------------------------
(* Refinement: what Delivery calls stored is, by VerifiedChunks, the whole  *)
(* hash table, so its steps are those of the table.                         *)

\* Every step of the network is a step of Delivery or leaves its state alone.
LEMMA StepDelivers ==
    ASSUME SwarmInv, SwarmInv', [Next]_vars
    PROVE  [Promise!Next]_(Promise!vars)
<1>. USE SwarmConstants DEF Promise!Next, Promise!vars
<1>h. Genuine = hash /\ Genuine' = hash'
  BY DEF SwarmInv, VerifiedChunks, Genuine, TypeOK
<1>t. hash \in [Receivers -> SUBSET Chunk] /\ status \in [Receivers -> Status]
  BY DEF SwarmInv, TypeOK
<1>1. ASSUME NEW r \in Receivers, StartTask(r) PROVE Promise!Begin(r)
  BY <1>1, <1>h, <1>t DEF StartTask, Promise!Begin, Outcome, Status
<1>2. ASSUME NEW r \in Receivers, Finish(r) PROVE Promise!Deliver(r)
  BY <1>2, <1>h, <1>t DEF Finish, Promise!Deliver, Outcome, Status
<1>3. ASSUME NEW r \in Receivers, Fail(r) PROVE Promise!GiveUp(r)
  BY <1>3, <1>h, <1>t DEF Fail, Promise!GiveUp, Outcome, Status
<1>4. ASSUME NEW f \in fetches, SaveChunk(f)
      PROVE f.to \in Receivers /\ f.index \in Chunk /\ Promise!Store(f.to, f.index)
  <2>1. /\ f.to \in Receivers /\ f.index \in Chunk
        /\ status[f.to] = "running" /\ f.index \notin hash[f.to]
    BY DEF SwarmInv, TypeOK, Fetch
  <2>. QED BY <1>4, <2>1, <1>h, <1>t DEF SaveChunk, Promise!Store, Outcome, Status
<1>5. ASSUME UNCHANGED <<hash, status>> PROVE UNCHANGED <<Genuine, Outcome>>
  BY <1>5, <1>h DEF Outcome
<1>6. ASSUME NEW v \in Version, BeSendMain(v) PROVE UNCHANGED <<hash, status>>
  BY <1>6 DEF BeSendMain
<1>7. ASSUME ClearContent \/ EditSource PROVE UNCHANGED <<hash, status>>
  BY <1>7 DEF ClearContent, EditSource
<1>8. ASSUME NEW r \in Receivers, NEW i \in Chunk, NEW p \in Node, WantChunk(r, i, p)
      PROVE UNCHANGED <<hash, status>>
  BY <1>8 DEF WantChunk
<1>9. ASSUME NEW f \in fetches, CheckChunk(f) \/ ReadChunk(f) \/ FetchFails(f)
      PROVE UNCHANGED <<hash, status>>
  BY <1>9 DEF CheckChunk, ReadChunk, FetchFails
<1>10. ASSUME NEW m \in reports, AddBlockOwner(m) PROVE UNCHANGED <<hash, status>>
  BY <1>10 DEF AddBlockOwner
<1>11. ASSUME UNCHANGED vars PROVE UNCHANGED <<hash, status>>
  BY <1>11 DEF vars
<1>. QED
  BY <1>1, <1>2, <1>3, <1>4, <1>5, <1>6, <1>7, <1>8, <1>9, <1>10, <1>11
     DEF Next, Exchange

\* Under the same conditions the network implements Delivery: the bytes a
\* receiver gathers are those of its task's file, each stored once, kept whole
\* or not at all.
THEOREM SwarmDelivers ==
    ASSUME ~Retask, ~Overlap, ~LateReport
    PROVE  Spec => ImplementsDelivery
<1>1. Init => Promise!Init
  BY DEF Init, Promise!Init, Genuine, Outcome
<1>2. SwarmInv /\ SwarmInv' /\ [Next]_vars => [Promise!Next]_(Promise!vars)
  BY StepDelivers
<1>. QED BY <1>1, <1>2, SwarmInvariant, PTL DEF Spec, ImplementsDelivery, Promise!Spec

-----------------------------------------------------------------------------
(***************************************************************************)
(* Transfer: what is packed never exceeds its header, so a bundle that was *)
(* flushed is whole; what is extracted agrees with the manifest entry by   *)
(* entry, so a temporary file that was copied to its end is a file of the  *)
(* manifest; and every entry that is no longer expected is in place, but   *)
(* for the one in work.                                                    *)
(***************************************************************************)

\* Packing: tar.Writer takes no more than the header says, and CopyContext
\* stands behind the bytes it has written.
Packing ==
    /\ \A e \in DOMAIN packed : packed[e].len <= packed[e].hdr
    /\ \A e \in DOMAIN packed \cap Dir : packed[e].hdr = 0
    /\ walk.at = "copy" =>
         walk.cur \in DOMAIN packed /\ walk.pos = packed[walk.cur].len

\* A bundle, served or downloaded, is whole; directories are empty.
Whole(b) ==
    /\ \A e \in DOMAIN b : b[e].len = b[e].hdr
    /\ \A e \in DOMAIN b \cap Dir : b[e].hdr = 0

InWork == ext.at \in {"temp", "copy", "lstat", "rename"}

\* Extracting: the record in work matches the manifest, and its temporary file
\* holds what was copied of it.
Matching ==
    /\ expected \subseteq DOMAIN spec.manifest
    /\ \A e \in DOMAIN spec.manifest \cap Dir : spec.manifest[e] = 0
    /\ InWork =>
         /\ ext.cur \in (DOMAIN archive \cap DOMAIN spec.manifest) \ Dir
         /\ archive[ext.cur].hdr = spec.manifest[ext.cur]
    /\ ext.at = "copy" => ext.tmp \in 0 .. archive[ext.cur].len
    /\ ext.at \in {"lstat", "rename"} => ext.tmp = archive[ext.cur].len
    /\ ext.at \in {"idle", "next", "temp", "ok", "failed"} => ext.tmp = Absent

\* Files of the target are those of the manifest, and all that are no longer
\* expected are there, but for the one in work.
InPlace ==
    /\ \A e \in Entry \ Dir : target[e] \in Nat =>
          e \in DOMAIN spec.manifest /\ target[e] = spec.manifest[e]
    /\ Extracting =>
         \A e \in DOMAIN spec.manifest \ expected :
            (InWork /\ e = ext.cur) \/ target[e] = spec.manifest[e]
    /\ ext.at = "ok" => \A e \in DOMAIN spec.manifest : target[e] = spec.manifest[e]

\* Without leave to overwrite, what Lstat found absent stays absent.
Unclaimed ==
    ~RenameRace /\ ext.at = "rename" /\ ~spec.overwrite => target[ext.cur] = Absent

TransferInv ==
    /\ TransferTypeOK /\ Packing /\ Whole(bundle) /\ Whole(archive)
    /\ Matching /\ InPlace /\ Unclaimed

-----------------------------------------------------------------------------
\* Entries are visited in order: a non-empty set of them has a first.
LEMMA FirstExists ==
    ASSUME NEW S, S \subseteq Entry, S # {}
    PROVE  First(S) \in S
<1>. DEFINE Below == {p \in Nat \X Nat : p[1] < p[2]}
<1>0. S \subseteq Nat
  <2>1. Cardinality(Entry) \in Nat
    BY TransferConstants, FS_CardinalityType
  <2>. QED BY <2>1, TransferConstants
<1>1. OpToRel(<, Nat) = Below
  BY Zenon DEF OpToRel
<1>2. IsWellFoundedOn(Below, Nat)
  BY <1>1, NatLessThanWellFounded, Zenon
<1>3. PICK x \in S : \A y \in S : <<y, x>> \notin Below
  BY <1>0, <1>2, WFMin, Zenon
<1>4. ASSUME NEW y \in S PROVE x <= y
  <2>1. <<y, x>> \in Nat \X Nat /\ <<y, x>>[1] = y /\ <<y, x>>[2] = x
    BY <1>0
  <2>2. ~(<<y, x>>[1] < <<y, x>>[2])
    BY <1>3, <2>1, Zenon
  <2>. QED BY <1>0, <2>1, <2>2
<1>. QED BY <1>4 DEF First

\* The shape of what is packed, and of a manifest.
LEMMA PackedShape ==
    /\ \A p \in Packed : DOMAIN p \subseteq Entry /\ p \in [DOMAIN p -> Record]
    /\ \A S \in SUBSET Entry : \A p \in [S -> Record] : p \in Packed
    /\ None \in Packed /\ DOMAIN None = {}
<1>1. ASSUME NEW p \in Packed PROVE DOMAIN p \subseteq Entry /\ p \in [DOMAIN p -> Record]
  <2>1. PICK S \in SUBSET Entry : p \in [S -> Record]
    BY DEF Packed
  <2>. QED BY <2>1
<1>2. ASSUME NEW S \in SUBSET Entry, NEW p \in [S -> Record] PROVE p \in Packed
  BY DEF Packed
<1>3. None \in [{} -> Record] /\ {} \in SUBSET Entry /\ DOMAIN None = {}
  BY DEF None
<1>. QED BY <1>1, <1>2, <1>3

\* The same for manifests.
LEMMA ManifestShape ==
    /\ \A m \in Manifest : DOMAIN m \subseteq Entry /\ m \in [DOMAIN m -> Size]
    /\ \A S \in SUBSET Entry : \A m \in [S -> Size] : m \in Manifest
    /\ None \in Manifest
<1>1. ASSUME NEW m \in Manifest PROVE DOMAIN m \subseteq Entry /\ m \in [DOMAIN m -> Size]
  <2>1. PICK S \in SUBSET Entry : m \in [S -> Size]
    BY DEF Manifest
  <2>. QED BY <2>1
<1>2. ASSUME NEW S \in SUBSET Entry, NEW m \in [S -> Size] PROVE m \in Manifest
  BY DEF Manifest
<1>3. None \in [{} -> Size] /\ {} \in SUBSET Entry
  BY DEF None
<1>. QED BY <1>1, <1>2, <1>3

\* Constants in the form the proofs use.
LEMMA Entries ==
    /\ Cardinality(Entry) \in Nat /\ Entry \subseteq 0 .. Cardinality(Entry)
    /\ MaxSize \in Nat /\ 0 \in Size /\ 1 \in Size /\ Size \subseteq Nat
    /\ Absent \notin Nat /\ Other \notin Nat /\ Absent # Other
<1>1. Cardinality(Entry) \in Nat
  BY TransferConstants, FS_CardinalityType
<1>. QED BY <1>1, TransferConstants DEF Size

-----------------------------------------------------------------------------
(* Prepare *)

\* Packing keeps its types and stays within the headers.
LEMMA NextPacking ==
    ASSUME TransferInv, [TransferNext]_transferVars
    PROVE  /\ tree' \in [Entry -> Size \cup {Absent}] /\ edits' \in 0 .. MaxEdits
           /\ walk' \in [at : {"idle", "info", "copy"}, cur : 0 .. Cardinality(Entry), pos : Size]
           /\ listed' \subseteq Entry /\ packed' \in Packed /\ bundle' \in Packed
           /\ Packing' /\ Whole(bundle')
<1>. DEFINE Types ==
       /\ tree \in [Entry -> Size \cup {Absent}] /\ edits \in 0 .. MaxEdits
       /\ walk \in [at : {"idle", "info", "copy"}, cur : 0 .. Cardinality(Entry), pos : Size]
       /\ listed \subseteq Entry /\ packed \in Packed /\ bundle \in Packed
<1>a. /\ Types /\ Packing /\ Whole(bundle)
      /\ DOMAIN packed \subseteq Entry /\ packed \in [DOMAIN packed -> Record]
  BY PackedShape DEF TransferInv, TransferTypeOK
<1>. SUFFICES Types' /\ Packing' /\ Whole(bundle')
  OBVIOUS
<1>b. ASSUME UNCHANGED <<tree, edits, prepVars>> PROVE Types' /\ Packing' /\ Whole(bundle')
  BY <1>a, <1>b DEF prepVars, Packing
<1>c. Whole(None)
  BY PackedShape DEF Whole
<1>1. ASSUME NEW e \in Entry, Edit(e) PROVE Types' /\ Packing' /\ Whole(bundle')
  <2>1. edits' \in 0 .. MaxEdits
    BY <1>a, <1>1, TransferConstants DEF Edit
  <2>2. tree' \in [Entry -> Size \cup {Absent}]
    BY <1>a, <1>1 DEF Edit
  <2>. QED BY <1>a, <1>1, <2>1, <2>2 DEF Edit, prepVars, Packing
<1>2. CASE Prepare
  BY <1>a, <1>2, <1>c, PackedShape, Entries DEF Prepare, Packing
<1>3. CASE Visit
  <2>. DEFINE e == First(listed)
              size == IF e \in Dir THEN 0 ELSE tree[e]
  <2>1. e \in listed /\ e \in Entry
    BY <1>3, <1>a, FirstExists DEF Visit
  <2>2. /\ tree[e] # Absent /\ listed' = listed \ {e}
        /\ packed' = [f \in DOMAIN packed \cup {e} |->
                           IF f = e THEN [hdr |-> size, len |-> 0] ELSE packed[f]]
        /\ walk' = [at |-> IF e \in Dir THEN "info" ELSE "copy", cur |-> e, pos |-> 0]
        /\ UNCHANGED <<tree, edits, bundle>>
    BY <1>3 DEF Visit
  <2>3. size \in Size
    BY <1>a, <2>1, <2>2, Entries
  <2>. HIDE DEF e, size
  <2>4. /\ packed' \in [DOMAIN packed \cup {e} -> Record] /\ DOMAIN packed' = DOMAIN packed \cup {e}
        /\ packed'[e].hdr = size /\ packed'[e].len = 0
        /\ \A f \in DOMAIN packed : f # e => packed'[f] = packed[f]
    <3>1. [hdr |-> size, len |-> 0] \in Record
      BY <2>3, Entries DEF Record
    <3>. QED BY <1>a, <2>2, <3>1
  <2>5. packed' \in Packed
    BY <1>a, <2>1, <2>4, PackedShape
  <2>6. walk' \in [at : {"idle", "info", "copy"}, cur : 0 .. Cardinality(Entry), pos : Size]
    BY <2>1, <2>2, Entries
  <2>7. 0 <= size
    BY <2>3, Entries
  <2>8. Packing'
    <3>1. walk'.at = "copy" => walk'.cur = e /\ walk'.pos = 0
      BY <2>2
    <3>2. \A f \in DOMAIN packed' : packed'[f].len <= packed'[f].hdr
      BY <1>a, <2>4, <2>7 DEF Packing
    <3>3. \A f \in DOMAIN packed' \cap Dir : packed'[f].hdr = 0
      <4>1. e \in Dir => size = 0
        BY DEF size
      <4>. QED BY <1>a, <2>4, <4>1 DEF Packing
    <3>. QED BY <2>4, <3>1, <3>2, <3>3 DEF Packing
  <2>. QED BY <1>a, <2>1, <2>2, <2>5, <2>6, <2>8
<1>4. CASE CopyIn
  <2>a. walk.at = "copy" /\ UNCHANGED <<tree, edits, listed, bundle>>
    BY <1>4 DEF CopyIn
  <2>b. walk.cur \in DOMAIN packed /\ walk.pos = packed[walk.cur].len
    BY <1>a, <2>a DEF Packing
  <2>1. CASE walk' = [walk EXCEPT !.at = "info"] /\ UNCHANGED packed
    BY <1>a, <2>a, <2>1 DEF Packing
  <2>2. CASE /\ walk.pos < packed[walk.cur].hdr
             /\ walk' = [walk EXCEPT !.pos = @ + 1]
             /\ packed' = [packed EXCEPT ![walk.cur].len = @ + 1]
    <3>1. packed[walk.cur] \in Record /\ walk.pos \in Size /\ walk.pos + 1 \in Size
      BY <1>a, <2>b, <2>2, Entries DEF Record, Size
    <3>2. /\ packed' \in [DOMAIN packed -> Record] /\ DOMAIN packed' = DOMAIN packed
          /\ packed'[walk.cur].len = walk.pos + 1
          /\ packed'[walk.cur].hdr = packed[walk.cur].hdr
          /\ \A f \in DOMAIN packed : f # walk.cur => packed'[f] = packed[f]
      BY <1>a, <2>b, <2>2, <3>1 DEF Record
    <3>3. packed' \in Packed
      BY <1>a, <3>2, PackedShape
    <3>4. /\ walk' \in [at : {"idle", "info", "copy"}, cur : 0 .. Cardinality(Entry), pos : Size]
          /\ walk'.cur = walk.cur /\ walk'.pos = walk.pos + 1
      BY <1>a, <2>2, <3>1
    <3>5. walk.pos + 1 <= packed[walk.cur].hdr
      BY <2>2, <3>1, Entries DEF Record
    <3>6. Packing'
      BY <1>a, <2>b, <3>2, <3>4, <3>5 DEF Packing
    <3>. QED BY <1>a, <2>a, <3>3, <3>4, <3>6
  <2>. QED BY <1>4, <2>1, <2>2 DEF CopyIn
<1>5. CASE PrepareDone
  <2>1. /\ bundle' = packed /\ packed' = None /\ UNCHANGED <<tree, edits, listed>>
        /\ walk' = [at |-> "idle", cur |-> 0, pos |-> 0] /\ Flushed
    BY <1>5 DEF PrepareDone
  <2>2. Whole(packed)
    <3>1. ASSUME NEW e \in DOMAIN packed PROVE packed[e].len = packed[e].hdr
      <4>1. packed[e].len >= packed[e].hdr /\ packed[e].len <= packed[e].hdr
        BY <1>a, <2>1 DEF Flushed, Packing
      <4>2. packed[e].len \in Nat /\ packed[e].hdr \in Nat
        BY <1>a, Entries DEF Record
      <4>. QED BY <4>1, <4>2
    <3>. QED BY <1>a, <3>1 DEF Whole, Packing
  <2>3. walk' \in [at : {"idle", "info", "copy"}, cur : 0 .. Cardinality(Entry), pos : Size]
    BY <2>1, Entries
  <2>4. Packing'
    BY <2>1, PackedShape DEF Packing
  <2>. QED BY <1>a, <2>1, <2>2, <2>3, <2>4, PackedShape
<1>6. CASE PrepareFails
  <2>1. walk' \in [at : {"idle", "info", "copy"}, cur : 0 .. Cardinality(Entry), pos : Size]
    BY <1>6, Entries DEF PrepareFails
  <2>. QED BY <1>a, <1>6, <2>1, PackedShape DEF PrepareFails, Packing
<1>7. CASE \/ \E e \in Entry : Appears(e)
           \/ \E o \in BOOLEAN : Dispatch(o)
           \/ Download \/ NextRecord \/ CreateTemp \/ CopyOut \/ Lstat \/ RenameFile
           \/ ExtractDone \/ ExtractFails \/ UNCHANGED transferVars
  BY <1>7, <1>b DEF Appears, Dispatch, Download, NextRecord, CreateTemp, CopyOut, Lstat,
                    RenameFile, ExtractDone, ExtractFails, transferVars
<1>. QED BY <1>1, <1>2, <1>3, <1>4, <1>5, <1>6, <1>7 DEF TransferNext

-----------------------------------------------------------------------------
(* The dispatch and Extract *)

ExtState ==
    [at : {"idle", "next", "temp", "copy", "lstat", "rename", "ok", "failed"},
     cur : 0 .. Cardinality(Entry), tmp : Size \cup {Absent}]

\* The steps of Prepare and of whoever edits the tree leave the rest alone.
LEMMA OtherSteps ==
    ASSUME [TransferNext]_transferVars
    PROVE  \/ UNCHANGED <<spec, archive, extVars>>
           \/ \E e \in Entry : Appears(e)
           \/ \E o \in BOOLEAN : Dispatch(o)
           \/ Download \/ NextRecord \/ CreateTemp \/ CopyOut \/ Lstat \/ RenameFile
           \/ ExtractDone \/ ExtractFails
BY DEF TransferNext, Edit, Prepare, Visit, CopyIn, PrepareDone, PrepareFails, transferVars

\* What NextRecord reads next.
LEMMA NextEntry ==
    ASSUME TransferInv, NextRecord
    PROVE  /\ First(Left) \in DOMAIN archive /\ First(Left) \in Entry
           /\ First(Left) \in expected
           /\ archive[First(Left)].hdr = spec.manifest[First(Left)]
<1>1. Left \subseteq Entry /\ Left # {} /\ Left \subseteq DOMAIN archive
  BY PackedShape DEF NextRecord, Left, TransferInv, TransferTypeOK
<1>2. First(Left) \in Left
  BY <1>1, FirstExists
<1>. QED BY <1>1, <1>2 DEF NextRecord, Matches

\* Types of the dispatch and the extraction, and that the record in work is the
\* one of the manifest.
LEMMA NextMatching ==
    ASSUME TransferInv, [TransferNext]_transferVars
    PROVE  /\ spec' \in [manifest : Manifest, overwrite : BOOLEAN, size : TarSizes \cup {0}]
           /\ archive' \in Packed /\ ext' \in ExtState /\ expected' \subseteq Entry
           /\ target' \in [Entry -> Size \cup {Absent, Other}]
           /\ Matching' /\ Whole(archive')
<1>. DEFINE Types ==
       /\ spec \in [manifest : Manifest, overwrite : BOOLEAN, size : TarSizes \cup {0}]
       /\ archive \in Packed /\ ext \in ExtState /\ expected \subseteq Entry
       /\ target \in [Entry -> Size \cup {Absent, Other}]
<1>a. /\ Types /\ Matching /\ Whole(archive) /\ Whole(bundle) /\ bundle \in Packed
      /\ DOMAIN spec.manifest \subseteq Entry /\ spec.manifest \in [DOMAIN spec.manifest -> Size]
      /\ DOMAIN archive \subseteq Entry /\ archive \in [DOMAIN archive -> Record]
      /\ DOMAIN bundle \subseteq Entry /\ bundle \in [DOMAIN bundle -> Record]
  <2>1. Types /\ Matching /\ Whole(archive) /\ Whole(bundle) /\ bundle \in Packed
    BY DEF TransferInv, TransferTypeOK, ExtState
  <2>2. spec.manifest \in Manifest
    BY <2>1
  <2>. QED BY <2>1, <2>2, PackedShape, ManifestShape
<1>. SUFFICES Types' /\ Matching' /\ Whole(archive')
  OBVIOUS
<1>0. ASSUME UNCHANGED <<spec, archive, extVars>>
      PROVE Types' /\ Matching' /\ Whole(archive')
  BY <1>a, <1>0 DEF extVars, Matching, InWork
<1>1. ASSUME NEW e \in Entry, Appears(e) PROVE Types' /\ Matching' /\ Whole(archive')
  <2>1. target' \in [Entry -> Size \cup {Absent, Other}]
    BY <1>a, <1>1 DEF Appears
  <2>. QED BY <1>a, <1>1, <2>1 DEF Appears, Matching, InWork
<1>2. ASSUME NEW o \in BOOLEAN, Dispatch(o) PROVE Types' /\ Matching' /\ Whole(archive')
  <2>. DEFINE m == [e \in DOMAIN bundle |-> bundle[e].hdr]
  <2>1. /\ spec' = [manifest |-> m, overwrite |-> o, size |-> TarSize(bundle)]
        /\ ext.at = "idle" /\ UNCHANGED <<archive, ext, expected, target>>
        /\ spec.manifest = None
    BY <1>2 DEF Dispatch, extVars
  <2>2. m \in [DOMAIN bundle -> Size] /\ DOMAIN m = DOMAIN bundle
    BY <1>a DEF Record
  <2>3. \A e \in DOMAIN m \cap Dir : m[e] = 0
    BY <1>a DEF Whole
  <2>4. m \in Manifest
    BY <1>a, <2>2, ManifestShape
  <2>5. TarSize(bundle) \in TarSizes
    BY <1>a DEF TarSizes
  <2>. HIDE DEF m
  <2>6. /\ spec' \in [manifest : Manifest, overwrite : BOOLEAN, size : TarSizes \cup {0}]
        /\ spec'.manifest = m
    BY <2>1, <2>4, <2>5
  <2>7. expected = {}
    BY <1>a, <2>1, PackedShape DEF Matching
  <2>. QED BY <1>a, <2>1, <2>3, <2>6, <2>7 DEF Matching, InWork
<1>3. CASE Download
  <2>1. /\ archive' = bundle /\ ext.at = "idle" /\ ext' = [ext EXCEPT !.at = "next"]
        /\ expected' = DOMAIN spec.manifest /\ UNCHANGED <<spec, target>>
    BY <1>3 DEF Download
  <2>2. ext' \in ExtState /\ ext'.at = "next" /\ ext'.tmp = ext.tmp
    BY <1>a, <2>1 DEF ExtState
  <2>. QED BY <1>a, <2>1, <2>2 DEF Matching, InWork
<1>4. CASE NextRecord
  <2>. DEFINE e == First(Left)
  <2>1. /\ e \in DOMAIN archive /\ e \in Entry /\ e \in expected
        /\ archive[e].hdr = spec.manifest[e]
    BY <1>4, NextEntry
  <2>2. /\ expected' = expected \ {e}
        /\ target' = IF e \in Dir THEN [target EXCEPT ![e] = 0] ELSE target
        /\ ext' = [at |-> IF e \in Dir THEN "next" ELSE "temp", cur |-> e, tmp |-> Absent]
        /\ UNCHANGED <<spec, archive>>
    BY <1>4 DEF NextRecord
  <2>. HIDE DEF e
  <2>3. target' \in [Entry -> Size \cup {Absent, Other}]
    BY <1>a, <2>2, Entries
  <2>4. /\ ext' \in ExtState /\ ext'.cur = e /\ ext'.tmp = Absent
        /\ ext'.at = IF e \in Dir THEN "next" ELSE "temp"
    BY <2>1, <2>2, Entries DEF ExtState
  <2>5. e \in DOMAIN spec.manifest
    BY <1>a, <2>1 DEF Matching
  <2>. QED BY <1>a, <2>1, <2>2, <2>3, <2>4, <2>5 DEF Matching, InWork
<1>5. CASE CreateTemp
  <2>1. /\ ext.at = "temp" /\ ext' = [ext EXCEPT !.at = "copy", !.tmp = 0]
        /\ UNCHANGED <<spec, archive, expected, target>>
    BY <1>5 DEF CreateTemp
  <2>2. ext' \in ExtState /\ ext'.cur = ext.cur /\ ext'.tmp = 0 /\ ext'.at = "copy"
    BY <1>a, <2>1, Entries DEF ExtState
  <2>3. ext.cur \in DOMAIN archive
    BY <1>a, <2>1 DEF Matching, InWork
  <2>4. archive[ext.cur].len \in Nat
    BY <1>a, <2>3, Entries DEF Record
  <2>5. 0 \in 0 .. archive[ext.cur].len
    BY <2>4
  <2>. QED BY <1>a, <2>1, <2>2, <2>5 DEF Matching, InWork
<1>6. CASE CopyOut
  <2>1. ext.at = "copy" /\ UNCHANGED <<spec, archive, expected, target>>
    BY <1>6 DEF CopyOut
  <2>2. /\ ext.cur \in DOMAIN archive /\ ext.tmp \in 0 .. archive[ext.cur].len
        /\ archive[ext.cur].len \in Size
    BY <1>a, <2>1 DEF Matching, InWork, Record
  <2>3. CASE ext.tmp < archive[ext.cur].len
    <3>1. ext' = [ext EXCEPT !.tmp = @ + 1]
      BY <1>6, <2>3 DEF CopyOut
    <3>2. ext.tmp + 1 \in 0 .. archive[ext.cur].len /\ ext.tmp + 1 \in Size
      BY <2>2, <2>3, Entries DEF Size
    <3>3. ext' \in ExtState /\ ext'.cur = ext.cur /\ ext'.tmp = ext.tmp + 1 /\ ext'.at = "copy"
      BY <1>a, <2>1, <3>1, <3>2 DEF ExtState
    <3>. QED BY <1>a, <2>1, <3>2, <3>3 DEF Matching, InWork
  <2>4. CASE ~(ext.tmp < archive[ext.cur].len)
    <3>1. ext' = [ext EXCEPT !.at = "lstat"]
      BY <1>6, <2>4 DEF CopyOut, Goto
    <3>2. ext.tmp = archive[ext.cur].len
      <4>1. archive[ext.cur].len \in Nat
        BY <2>2, Entries
      <4>. QED BY <2>2, <2>4, <4>1
    <3>3. ext' \in ExtState /\ ext'.cur = ext.cur /\ ext'.tmp = ext.tmp /\ ext'.at = "lstat"
      BY <1>a, <2>1, <3>1 DEF ExtState
    <3>. QED BY <1>a, <2>1, <3>2, <3>3 DEF Matching, InWork
  <2>. QED BY <2>3, <2>4
<1>7. CASE Lstat
  <2>1. /\ ext.at = "lstat" /\ ext' = [ext EXCEPT !.at = "rename"]
        /\ UNCHANGED <<spec, archive, expected, target>>
    BY <1>7 DEF Lstat, Goto
  <2>2. ext' \in ExtState /\ ext'.cur = ext.cur /\ ext'.tmp = ext.tmp /\ ext'.at = "rename"
    BY <1>a, <2>1 DEF ExtState
  <2>. QED BY <1>a, <2>1, <2>2 DEF Matching, InWork
<1>8. CASE RenameFile
  <2>1. /\ ext.at = "rename" /\ ext' = [ext EXCEPT !.at = "next", !.tmp = Absent]
        /\ target' = [target EXCEPT ![ext.cur] = ext.tmp]
        /\ UNCHANGED <<spec, archive, expected>>
    BY <1>8 DEF RenameFile
  <2>2. ext' \in ExtState /\ ext'.tmp = Absent /\ ext'.at = "next"
    BY <1>a, <2>1 DEF ExtState
  <2>3. target' \in [Entry -> Size \cup {Absent, Other}]
    BY <1>a, <2>1 DEF ExtState
  <2>. QED BY <1>a, <2>1, <2>2, <2>3 DEF Matching, InWork
<1>9. CASE ExtractDone
  <2>1. /\ ext.at = "next" /\ UNCHANGED <<spec, archive, expected, target>>
        /\ ext' = [ext EXCEPT !.at = IF expected = {} THEN "ok" ELSE "failed"]
    BY <1>9 DEF ExtractDone, Goto
  <2>2. ext' \in ExtState /\ ext'.tmp = ext.tmp /\ ext'.at \in {"ok", "failed"}
    BY <1>a, <2>1 DEF ExtState
  <2>. QED BY <1>a, <2>1, <2>2 DEF Matching, InWork
<1>10. CASE ExtractFails
  <2>1. /\ UNCHANGED <<spec, archive, expected, target>>
        /\ ext' = [ext EXCEPT !.at = "failed", !.tmp = Absent]
    BY <1>10 DEF ExtractFails
  <2>2. ext' \in ExtState /\ ext'.tmp = Absent /\ ext'.at = "failed"
    BY <1>a, <2>1 DEF ExtState
  <2>. QED BY <1>a, <2>1, <2>2 DEF Matching, InWork
<1>. QED
  BY <1>0, <1>1, <1>2, <1>3, <1>4, <1>5, <1>6, <1>7, <1>8, <1>9, <1>10, OtherSteps

\* Files are put in place whole, and everything no longer expected is there.
LEMMA NextInPlace ==
    ASSUME TransferInv, [TransferNext]_transferVars
    PROVE  InPlace'
<1>. USE DEF Extracting, InWork
<1>a. /\ InPlace /\ Matching /\ Whole(archive) /\ ext \in ExtState
      /\ target \in [Entry -> Size \cup {Absent, Other}]
      /\ DOMAIN spec.manifest \subseteq Entry /\ spec.manifest \in [DOMAIN spec.manifest -> Size]
      /\ Size \subseteq Nat
  <2>1. spec.manifest \in Manifest
    BY DEF TransferInv, TransferTypeOK
  <2>. QED BY <2>1, ManifestShape, Entries DEF TransferInv, TransferTypeOK, ExtState
<1>b. \A e \in DOMAIN spec.manifest : spec.manifest[e] # Absent
  BY <1>a, Entries
<1>0. CASE UNCHANGED <<spec, archive, extVars>>
  BY <1>a, <1>0 DEF extVars, InPlace
<1>1. ASSUME NEW e \in Entry, Appears(e) PROVE InPlace'
  <2>1. /\ target' = [target EXCEPT ![e] = Other] /\ target[e] = Absent
        /\ UNCHANGED <<spec, ext, expected>>
    BY <1>1 DEF Appears
  <2>2. \A f \in Entry : f # e => target'[f] = target[f]
    BY <1>a, <2>1
  <2>3. target'[e] = Other /\ Other \notin Nat
    BY <1>a, <2>1, Entries
  <2>. QED BY <1>a, <1>b, <2>1, <2>2, <2>3 DEF InPlace
<1>2. ASSUME NEW o \in BOOLEAN, Dispatch(o) PROVE InPlace'
  <2>1. ext.at = "idle" /\ spec.manifest = None /\ UNCHANGED <<ext, target>>
    BY <1>2 DEF Dispatch, extVars
  <2>2. DOMAIN spec.manifest = {}
    BY <2>1, PackedShape
  <2>. QED BY <1>a, <2>1, <2>2 DEF InPlace
<1>3. CASE Download
  <2>1. /\ ext' = [ext EXCEPT !.at = "next"]
        /\ expected' = DOMAIN spec.manifest /\ UNCHANGED <<spec, target>>
    BY <1>3 DEF Download
  <2>2. ext'.at = "next"
    BY <1>a, <2>1 DEF ExtState
  <2>. QED BY <1>a, <2>1, <2>2 DEF InPlace
<1>4. CASE NextRecord
  <2>. DEFINE e == First(Left)
  <2>1. /\ e \in Entry /\ e \in expected /\ e \in DOMAIN spec.manifest
    BY <1>a, <1>4, NextEntry DEF Matching
  <2>2. /\ ext.at = "next" /\ expected' = expected \ {e} /\ spec' = spec
        /\ target' = IF e \in Dir THEN [target EXCEPT ![e] = 0] ELSE target
        /\ ext' = [at |-> IF e \in Dir THEN "next" ELSE "temp", cur |-> e, tmp |-> Absent]
    BY <1>4 DEF NextRecord
  <2>. HIDE DEF e
  <2>3. ext'.cur = e /\ ext'.at = IF e \in Dir THEN "next" ELSE "temp"
    BY <2>2
  <2>4. \A f \in DOMAIN spec.manifest \ expected : target[f] = spec.manifest[f]
    BY <1>a, <2>2 DEF InPlace
  <2>5. CASE e \in Dir
    <3>1. spec.manifest[e] = 0
      BY <1>a, <2>1, <2>5 DEF Matching
    <3>2. target'[e] = 0 /\ \A f \in Entry : f # e => target'[f] = target[f]
      BY <1>a, <2>1, <2>2, <2>5
    <3>3. ext'.at = "next"
      BY <2>3, <2>5
    <3>. QED BY <1>a, <2>1, <2>2, <2>4, <2>5, <3>1, <3>2, <3>3 DEF InPlace
  <2>6. CASE e \notin Dir
    BY <1>a, <2>2, <2>3, <2>4, <2>6 DEF InPlace
  <2>. QED BY <2>5, <2>6
<1>5. CASE CreateTemp \/ CopyOut \/ Lstat
  <2>1. /\ InWork /\ UNCHANGED <<spec, expected, target>>
    BY <1>5 DEF CreateTemp, CopyOut, Lstat
  <2>2. ext'.cur = ext.cur /\ ext'.at \in {"copy", "lstat", "rename"}
    BY <1>a, <1>5 DEF CreateTemp, CopyOut, Lstat, Goto, ExtState
  <2>. QED BY <1>a, <2>1, <2>2 DEF InPlace
<1>6. CASE RenameFile
  <2>1. /\ ext.at = "rename" /\ target' = [target EXCEPT ![ext.cur] = ext.tmp]
        /\ UNCHANGED <<spec, expected>>
    BY <1>6 DEF RenameFile
  <2>2. ext'.at = "next"
    BY <1>a, <1>6 DEF RenameFile, ExtState
  <2>3. /\ ext.cur \in DOMAIN spec.manifest /\ ext.tmp = spec.manifest[ext.cur]
    BY <1>a, <2>1 DEF Matching, Whole
  <2>4. /\ target'[ext.cur] = spec.manifest[ext.cur]
        /\ \A f \in Entry : f # ext.cur => target'[f] = target[f]
    BY <1>a, <2>1, <2>3
  <2>. QED BY <1>a, <2>1, <2>2, <2>3, <2>4 DEF InPlace
<1>7. CASE ExtractDone
  <2>1. ext.at = "next" /\ UNCHANGED <<spec, expected, target>>
    BY <1>7 DEF ExtractDone
  <2>2. ext'.at = IF expected = {} THEN "ok" ELSE "failed"
    BY <1>a, <1>7 DEF ExtractDone, Goto, ExtState
  <2>. QED BY <1>a, <2>1, <2>2 DEF InPlace
<1>8. CASE ExtractFails
  <2>1. UNCHANGED <<spec, target>>
    BY <1>8 DEF ExtractFails
  <2>2. ext'.at = "failed"
    BY <1>a, <1>8 DEF ExtractFails, ExtState
  <2>. QED BY <1>a, <2>1, <2>2 DEF InPlace
<1>. QED BY <1>0, <1>1, <1>2, <1>3, <1>4, <1>5, <1>6, <1>7, <1>8, OtherSteps

\* What Lstat found absent is absent at the rename, as long as nobody creates it
\* in between.
LEMMA NextUnclaimed ==
    ASSUME TransferInv, [TransferNext]_transferVars
    PROVE  Unclaimed'
<1>a. /\ Unclaimed /\ Matching /\ ext \in ExtState
      /\ target \in [Entry -> Size \cup {Absent, Other}]
      /\ DOMAIN archive \subseteq Entry
  BY PackedShape DEF TransferInv, TransferTypeOK, ExtState
<1>0. CASE UNCHANGED <<spec, archive, extVars>>
  BY <1>a, <1>0 DEF extVars, Unclaimed
<1>1. ASSUME NEW e \in Entry, Appears(e) PROVE Unclaimed'
  BY <1>a, <1>1 DEF Appears, Unclaimed
<1>2. ASSUME NEW o \in BOOLEAN, Dispatch(o) PROVE Unclaimed'
  BY <1>2 DEF Dispatch, extVars, Unclaimed
<1>3. CASE Lstat
  BY <1>a, <1>3 DEF Lstat, Goto, Unclaimed, ExtState
<1>4. CASE Download \/ NextRecord \/ CreateTemp \/ CopyOut \/ RenameFile \/ ExtractDone
           \/ ExtractFails
  <2>1. ext'.at # "rename"
    <3>1. CASE NextRecord
      BY <3>1 DEF NextRecord
    <3>2. CASE CopyOut
      <4>1. ext.at = "copy" /\ (ext' = [ext EXCEPT !.tmp = @ + 1] \/ Goto("lstat"))
        BY <3>2 DEF CopyOut
      <4>. QED BY <1>a, <4>1 DEF Goto, ExtState
    <3>3. CASE Download \/ CreateTemp \/ RenameFile
      BY <1>a, <3>3 DEF Download, CreateTemp, RenameFile, ExtState
    <3>4. CASE ExtractDone \/ ExtractFails
      BY <1>a, <3>4 DEF ExtractDone, ExtractFails, Goto, ExtState
    <3>. QED BY <1>4, <3>1, <3>2, <3>3, <3>4
  <2>. QED BY <2>1 DEF Unclaimed
<1>. QED BY <1>0, <1>1, <1>2, <1>3, <1>4, OtherSteps

-----------------------------------------------------------------------------
(* The theorems *)

\* The conjunction is inductive.
THEOREM TransferInvariant == TransferSpec => []TransferInv
<1>1. TransferInit => TransferInv
  <2>. SUFFICES ASSUME TransferInit PROVE TransferInv
    OBVIOUS
  <2>1. /\ packed = None /\ bundle = None /\ archive = None /\ DOMAIN None = {}
        /\ spec.manifest = None /\ ext.at = "idle" /\ ext.tmp = Absent /\ expected = {}
        /\ walk.at = "idle"
    BY PackedShape DEF TransferInit
  <2>2. TransferTypeOK
    <3>1. tree \in [Entry -> Size \cup {Absent}]
      BY Entries DEF TransferInit
    <3>2. target \in [Entry -> Size \cup {Absent, Other}]
      BY Entries DEF TransferInit
    <3>3. walk \in [at : {"idle", "info", "copy"}, cur : 0 .. Cardinality(Entry), pos : Size]
      BY Entries DEF TransferInit
    <3>4. spec \in [manifest : Manifest, overwrite : BOOLEAN, size : TarSizes \cup {0}]
      BY ManifestShape DEF TransferInit
    <3>5. ext \in ExtState
      BY Entries DEF TransferInit, ExtState
    <3>6. edits \in 0 .. MaxEdits
      BY TransferConstants DEF TransferInit
    <3>. QED BY <2>1, <3>1, <3>2, <3>3, <3>4, <3>5, <3>6, PackedShape
             DEF TransferInit, TransferTypeOK, ExtState
  <2>3. Packing /\ Whole(bundle) /\ Whole(archive) /\ Matching /\ Unclaimed
    BY <2>1 DEF Packing, Whole, Matching, InWork, Unclaimed
  <2>4. InPlace
    BY <2>1, Entries DEF TransferInit, InPlace, Extracting
  <2>. QED BY <2>2, <2>3, <2>4 DEF TransferInv
<1>2. TransferInv /\ [TransferNext]_transferVars => TransferInv'
  <2>. SUFFICES ASSUME TransferInv, [TransferNext]_transferVars PROVE TransferInv'
    OBVIOUS
  <2>1. TransferTypeOK'
    BY NextPacking, NextMatching DEF TransferTypeOK, ExtState
  <2>2. Packing' /\ Whole(bundle)' /\ Whole(archive)' /\ Matching'
    BY NextPacking, NextMatching DEF Whole
  <2>. QED BY <2>1, <2>2, NextInPlace, NextUnclaimed DEF TransferInv
<1>. QED BY <1>1, <1>2, PTL DEF TransferSpec

\* A bundle is whole although files change while they are packed.
THEOREM BundlesWhole == TransferSpec => []BundleWhole
<1>1. TransferInv => BundleWhole
  BY DEF TransferInv, Whole, BundleWhole
<1>. QED BY <1>1, TransferInvariant, PTL

\* The target never shows a part of a file, and no temporary file is left.
THEOREM TargetsWhole == TransferSpec => []NeverTorn
<1>1. ASSUME TransferInv PROVE NeverTorn
  <2>1. ~Extracting => ext.tmp = Absent
    BY <1>1 DEF TransferInv, TransferTypeOK, Matching, Extracting
  <2>. QED BY <1>1, <2>1 DEF TransferInv, InPlace, NeverTorn
<1>. QED BY <1>1, TransferInvariant, PTL

\* A success has put every entry of the manifest in place.
THEOREM SuccessWhole == TransferSpec => []SuccessIsManifest
<1>1. TransferInv => SuccessIsManifest
  BY DEF TransferInv, InPlace, SuccessIsManifest
<1>. QED BY <1>1, TransferInvariant, PTL

\* Unless a file appears between Lstat and Rename, no file of others is replaced
\* without leave.
THEOREM NothingReplaced ==
    ASSUME ~RenameRace
    PROVE  TransferSpec => NotReplaced
<1>. DEFINE Kept ==
       ~spec.overwrite => \A e \in Entry : target[e] = Other => target'[e] = Other
<1>1. ASSUME TransferInv, [TransferNext]_transferVars PROVE [Kept]_transferVars
  <2>a. /\ Unclaimed /\ target \in [Entry -> Size \cup {Absent, Other}]
        /\ Absent # Other
    BY <1>1, Entries DEF TransferInv, TransferTypeOK
  <2>. SUFFICES Kept
    OBVIOUS
  <2>1. CASE target' = target
    BY <2>1
  <2>2. ASSUME NEW e \in Entry, Appears(e) PROVE Kept
    BY <2>a, <2>2 DEF Appears
  <2>3. CASE NextRecord
    BY <2>a, <2>3 DEF NextRecord
  <2>4. CASE RenameFile
    BY <2>a, <2>4 DEF RenameFile, Unclaimed
  <2>. QED
    BY <1>1, <2>1, <2>2, <2>3, <2>4, OtherSteps
       DEF Dispatch, Download, CreateTemp, CopyOut, Lstat, ExtractDone, ExtractFails, extVars
<1>. QED BY <1>1, TransferInvariant, PTL DEF TransferSpec, NotReplaced

=============================================================================
