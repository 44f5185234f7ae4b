--------------------------- MODULE DownloadProofs ---------------------------
(***************************************************************************)
(* Proofs about RunTo for any number of chunks and workers, any stride the *)
(* code may choose, any number of attempts and any capacity of the         *)
(* priority channel.  That a success has every chunk rests on arithmetic   *)
(* (a stride coprime to the count visits every index) and on a chain of    *)
(* responsibility: an index that was fed is stored, or in the hands of a   *)
(* worker, or the run is broken by a failure or an ended context.          *)
(***************************************************************************)
EXTENDS Download, Integers, FiniteSetTheorems, SequenceTheorems,
        WellFoundedInduction, NaturalsInduction, TLAPS

-----------------------------------------------------------------------------
(* The shuffle *)

\* A non-empty set of naturals has a least element.
LEMMA LeastNatural ==
    ASSUME NEW T, T \subseteq Nat, T # {}
    PROVE  \E x \in T : \A y \in T : x <= y
<1>. DEFINE Below == {p \in Nat \X Nat : p[1] < p[2]}
<1>1. OpToRel(<, Nat) = Below
  BY Zenon DEF OpToRel
<1>2. IsWellFoundedOn(Below, Nat)
  BY <1>1, NatLessThanWellFounded, Zenon
<1>3. PICK x \in T : \A y \in T : <<y, x>> \notin Below
  BY <1>2, WFMin, Zenon
<1>4. ASSUME NEW y \in T PROVE x <= y
  <2>1. <<y, x>> \in Nat \X Nat /\ <<y, x>>[1] = y /\ <<y, x>>[2] = x
    OBVIOUS
  <2>2. ~(<<y, x>>[1] < <<y, x>>[2])
    BY <1>3, <2>1, Zenon
  <2>. QED BY <2>1, <2>2
<1>. QED BY <1>4

\* Division with remainder.
LEMMA Division ==
    ASSUME NEW a \in Int, NEW b \in Nat \ {0}
    PROVE  a \div b \in Int /\ a % b \in 0 .. b - 1 /\ a = b * (a \div b) + (a % b)
OBVIOUS

\* The ring laws of the integers.
LEMMA Ring ==
    ASSUME NEW x \in Int, NEW y \in Int, NEW z \in Int
    PROVE  /\ x * y \in Int /\ x * y = y * x
           /\ (x + y) * z = x * z + y * z /\ (x - y) * z = x * z - y * z
           /\ (x * y) * z = x * (y * z)
OBVIOUS

\* The integer combinations of two numbers.
Combinations(a, b) == {c \in Int : \E p, q \in Int : c = p * a + q * b}

\* The least positive combination of two numbers divides every other.
LEMMA LeastDivides ==
    ASSUME NEW a \in Int, NEW b \in Int, NEW c \in Combinations(a, b),
           NEW d \in Combinations(a, b), d \in Nat \ {0},
           \A m \in Combinations(a, b) : m \in Nat \ {0} => d <= m
    PROVE  c % d = 0
<1>. DEFINE k == c \div d
            r == c % d
<1>a. PICK u \in Int, v \in Int : c = u * a + v * b
  BY DEF Combinations
<1>b. PICK x \in Int, y \in Int : d = x * a + y * b
  BY DEF Combinations
<1>1. c \in Int /\ k \in Int /\ r \in 0 .. d - 1 /\ c = d * k + r
  BY Division DEF Combinations
<1>. HIDE DEF k, r
<1>2. r = (u - k * x) * a + (v - k * y) * b
  <2>1. r = (u * a + v * b) - (x * a + y * b) * k
    BY <1>1, <1>a, <1>b
  <2>2. (x * a + y * b) * k = (x * a) * k + (y * b) * k
    <3>1. x * a \in Int /\ y * b \in Int
      OBVIOUS
    <3>. QED BY <1>1, <3>1, Ring
  <2>3. (x * a) * k = (k * x) * a
    BY <1>1
  <2>4. (y * b) * k = (k * y) * b
    BY <1>1
  <2>5. (u - k * x) * a = u * a - (k * x) * a
    <3>1. k * x \in Int
      BY <1>1
    <3>. QED BY <3>1, Ring
  <2>6. (v - k * y) * b = v * b - (k * y) * b
    <3>1. k * y \in Int
      BY <1>1
    <3>. QED BY <3>1, Ring
  <2>7. /\ u * a \in Int /\ v * b \in Int /\ (k * x) * a \in Int /\ (k * y) * b \in Int
    BY <1>1
  <2>. QED BY <2>1, <2>2, <2>3, <2>4, <2>5, <2>6, <2>7
<1>3. u - k * x \in Int /\ v - k * y \in Int
  BY <1>1
<1>4. r \notin Nat \ {0}
  <2>. SUFFICES ASSUME r \in Nat \ {0} PROVE FALSE
    OBVIOUS
  <2>1. \E p, q \in Int : r = p * a + q * b
    BY <1>2, <1>3, Zenon
  <2>2. r \in Combinations(a, b)
    BY <2>1 DEF Combinations
  <2>3. d <= r
    BY <2>2
  <2>. QED BY <1>1, <2>3
<1>. QED BY <1>1, <1>4 DEF r

\* Two numbers that Coprime accepts have a combination equal to one.
LEMMA Bezout ==
    ASSUME NEW b \in Nat, NEW a \in 1 .. b - 1, Coprime(a, b)
    PROVE  \E x, y \in Int : x * a + y * b = 1
<1>. DEFINE T == Combinations(a, b) \cap (Nat \ {0})
<1>1. a \in Combinations(a, b)
  <2>1. a = 1 * a + 0 * b
    OBVIOUS
  <2>2. \E p, q \in Int : a = p * a + q * b
    <3>. WITNESS 1 \in Int, 0 \in Int
    <3>. QED BY <2>1
  <2>. QED BY <2>2 DEF Combinations
<1>2. b \in Combinations(a, b)
  <2>1. b = 0 * a + 1 * b
    OBVIOUS
  <2>2. \E p, q \in Int : b = p * a + q * b
    <3>. WITNESS 0 \in Int, 1 \in Int
    <3>. QED BY <2>1
  <2>. QED BY <2>2 DEF Combinations
<1>3. PICK d \in T : \A m \in T : d <= m
  <2>1. T \subseteq Nat /\ T # {}
    BY <1>1
  <2>. HIDE DEF T
  <2>. QED BY <2>1, LeastNatural
<1>4. PICK x \in Int, y \in Int : d = x * a + y * b
  BY DEF Combinations
<1>5. a \in T /\ a \in Int /\ b \in Int
  BY <1>1
<1>6. a % d = 0 /\ b % d = 0
  BY <1>1, <1>2, <1>3, <1>5, LeastDivides
<1>7. d <= b
  BY <1>3, <1>5
<1>8. d = 1
  <2>1. d \notin 2 .. b
    BY <1>6 DEF Coprime
  <2>. QED BY <1>7, <2>1
<1>. QED BY <1>4, <1>8

\* The strides that the search of RunTo stops at.
Steps == IF Count > 1 THEN {s \in 1 .. Count - 1 : Coprime(s, Count)} ELSE {1}

\* The stride visits every index within the first Count rounds.
LEMMA ShuffleComplete ==
    ASSUME step \in Steps, NEW i \in Chunk
    PROVE  \E k \in 0 .. Count - 1 : FeedAt(k) = i
<1>. USE DownloadConstants
<1>1. Count \in Nat \ {0} /\ Start \in 0 .. Count - 1 /\ i \in 0 .. Count - 1
  BY DEF Chunk
<1>2. CASE Count = 1
  <2>1. step = 1 /\ i = 0 /\ Start = 0
    BY <1>1, <1>2 DEF Steps
  <2>2. FeedAt(0) = i
    BY <1>2, <2>1 DEF FeedAt
  <2>. QED BY <1>2, <2>2
<1>3. CASE Count > 1
  <2>1. step \in 1 .. Count - 1 /\ Coprime(step, Count)
    BY <1>1, <1>3 DEF Steps
  <2>2. PICK x \in Int, y \in Int : x * step + y * Count = 1
    BY <1>1, <2>1, Bezout
  <2>. DEFINE e == (i - Start) * x
              k == e % Count
              q == e \div Count
  <2>3. e \in Int /\ k \in 0 .. Count - 1 /\ q \in Int /\ e = Count * q + k
    BY <1>1
  <2>4. Start + k * step = Count * (0 - (q * step + (i - Start) * y)) + i
    <3>1. k * step = e * step - (Count * q) * step
      BY <1>1, <2>1, <2>3
    <3>2. e * step = (i - Start) * (x * step)
      BY <1>1, <2>1
    <3>3. (i - Start) * (x * step) = (i - Start) - (i - Start) * (y * Count)
      <4>1. x * step = 1 - y * Count /\ y * Count \in Int
        BY <1>1, <2>1, <2>2
      <4>2. (i - Start) * (1 - y * Count) = (i - Start) - (i - Start) * (y * Count)
        BY <1>1, <4>1
      <4>. QED BY <4>1, <4>2
    <3>4. /\ (Count * q) * step = Count * (q * step)
          /\ (i - Start) * (y * Count) = Count * ((i - Start) * y)
      BY <1>1, <2>1, <2>3
    <3>5. Start + k * step = i - Count * ((i - Start) * y) - Count * (q * step)
      BY <1>1, <2>1, <2>3, <3>1, <3>2, <3>3, <3>4
    <3>6. /\ q * step \in Int /\ (i - Start) * y \in Int
      BY <1>1, <2>1, <2>3
    <3>7. Count * (0 - (q * step + (i - Start) * y))
            = 0 - Count * (q * step) - Count * ((i - Start) * y)
      BY <1>1, <3>6
    <3>. QED BY <1>1, <2>3, <3>5, <3>6, <3>7
  <2>5. 0 - (q * step + (i - Start) * y) \in Int /\ Start + k * step \in Int
    BY <1>1, <2>1, <2>3
  <2>6. (Start + k * step) % Count = i
    <3>. DEFINE z == 0 - (q * step + (i - Start) * y)
                w == Start + k * step
    <3>1. z \in Int /\ w \in Int /\ w = Count * z + i
      BY <2>4, <2>5
    <3>. HIDE DEF z, w
    <3>2. w % Count = i
      BY <1>1, <3>1
    <3>. QED BY <3>2 DEF w
  <2>. QED BY <2>3, <2>6 DEF FeedAt
<1>. QED BY <1>1, <1>2, <1>3

-----------------------------------------------------------------------------
(* The inductive invariant *)

Working == {"attempt", "fetch", "backoff"}
InHand(i, S) == \E w \in Worker : pc[w] \in S /\ job[w] = i
StoredBy == {w \in Worker : pc[w] = "stored"}
Broken == ctxDone \/ failure

\* Control: a stride is fixed before anything is fed, a fed index exists,
\* and a timer runs only before a further attempt.
Control ==
    /\ IF feeder = "shuffle" THEN step \in Strides /\ n = 0 ELSE step \in Steps
    /\ feeder \in {"poll", "urgent", "feed"} => n < Count
    /\ feeder = "urgent" => urgent \in Chunk
    /\ \A w \in Worker : pc[w] = "backoff" => try[w] < MaxAttempts
    /\ result = "none" <=> feeder # "returned"

\* What a worker did before it moved on is in the shared state.
Recorded ==
    /\ \A w \in Worker : pc[w] = "stored" => job[w] \in has
    /\ \A w \in Worker : pc[w] = "cancel" => failure
    /\ cancelled => failure

\* Who answers for an index that was claimed, and for one that was fed.
Covered ==
    result = "none" =>
      /\ \A i \in claimed : i \in has \/ Broken \/ InHand(i, Working)
      /\ \A k \in 0 .. n - 1 :
           FeedAt(k) \in has \/ Broken \/ InHand(FeedAt(k), {"claim"} \cup Working)

\* The feeder stops early only when broken; beyond the join all is stored.
Complete ==
    /\ feeder = "join" => n = Count \/ Broken
    /\ feeder \in {"sync", "rename"} => has = Chunk

IInv ==
    /\ DoneCountsChunks /\ Control /\ Recorded
    /\ NoDuplicateWriters /\ JoinedBeforeCleanup /\ Covered /\ Complete

\* Storing, counting and the number of workers between the two.
LEMMA StoredCounted ==
    ASSUME TypeOK, NEW w \in Worker, NEW p \in Place, pc' = [pc EXCEPT ![w] = p]
    PROVE  /\ Cardinality(StoredBy) \in Nat /\ Cardinality(StoredBy') \in Nat
           /\ pc[w] # "stored" /\ p # "stored" =>
                Cardinality(StoredBy') = Cardinality(StoredBy)
           /\ pc[w] # "stored" /\ p = "stored" =>
                Cardinality(StoredBy') = Cardinality(StoredBy) + 1
           /\ pc[w] = "stored" /\ p # "stored" =>
                Cardinality(StoredBy) = Cardinality(StoredBy') + 1
<1>. DEFINE A == StoredBy
            B == StoredBy'
<1>1. IsFiniteSet(A) /\ IsFiniteSet(B)
  BY FS_Subset, DownloadConstants DEF StoredBy
<1>2. Cardinality(A) \in Nat /\ Cardinality(B) \in Nat
  BY <1>1, FS_CardinalityType
<1>3. B = IF p = "stored" THEN A \cup {w} ELSE A \ {w}
  BY DEF StoredBy, TypeOK
<1>4. w \in A <=> pc[w] = "stored"
  BY DEF StoredBy
<1>. HIDE DEF A, B
<1>5. /\ Cardinality(A \cup {w}) = IF w \in A THEN Cardinality(A) ELSE Cardinality(A) + 1
      /\ Cardinality(A \ {w}) = IF w \in A THEN Cardinality(A) - 1 ELSE Cardinality(A)
  BY <1>1, FS_AddElement, FS_RemoveElement
<1>6. /\ pc[w] # "stored" /\ p # "stored" => Cardinality(B) = Cardinality(A)
      /\ pc[w] # "stored" /\ p = "stored" => Cardinality(B) = Cardinality(A) + 1
      /\ pc[w] = "stored" /\ p # "stored" => Cardinality(A) = Cardinality(B) + 1
  BY <1>2, <1>3, <1>4, <1>5
<1>. QED BY <1>2, <1>6 DEF A, B

\* There are at most Count stored chunks.
LEMMA HasBounded ==
    ASSUME TypeOK
    PROVE  IsFiniteSet(has) /\ Cardinality(has) \in Nat /\ Cardinality(has) <= Count
<1>1. IsFiniteSet(Chunk) /\ Cardinality(Chunk) <= Count
  BY DownloadConstants, FS_Interval DEF Chunk
<1>2. /\ IsFiniteSet(has) /\ Cardinality(has) <= Cardinality(Chunk)
      /\ Cardinality(has) \in Nat /\ Cardinality(Chunk) \in Nat
  BY <1>1, FS_Subset, FS_CardinalityType DEF TypeOK
<1>. QED BY <1>1, <1>2, DownloadConstants

\* The search stays among the strides.
LEMMA NextStride ==
    ASSUME Count > 1, step \in Strides
    PROVE  (step % (Count - 1)) + 1 \in Strides
<1>1. Count - 1 \in Nat \ {0} /\ step \in Int
  BY DownloadConstants DEF Strides
<1>2. step % (Count - 1) \in 0 .. (Count - 1) - 1
  <2>. DEFINE m == Count - 1
  <2>. HIDE DEF m
  <2>1. step % m \in 0 .. m - 1
    BY <1>1, Division DEF m
  <2>. QED BY <2>1 DEF m
<1>. QED BY <1>1, <1>2 DEF Strides

\* What was fed is an index of the file.
LEMMA FeedInFile ==
    ASSUME TypeOK, Control, feeder = "feed"
    PROVE  FeedAt(n) \in Chunk /\ n + 1 \in 0 .. Count
<1>1. /\ n \in Nat /\ n < Count /\ Count \in Nat \ {0} /\ Start \in Nat /\ step \in Nat
  BY DownloadConstants DEF TypeOK, Control
<1>2. n * step \in Nat
  BY <1>1
<1>3. Start + n * step \in Int
  BY <1>1, <1>2
<1>4. (Start + n * step) % Count \in 0 .. Count - 1
  BY <1>1, <1>3, Division
<1>. QED BY <1>1, <1>4 DEF FeedAt, Chunk

-----------------------------------------------------------------------------
\* Types: the counter stays within the number of chunks because a worker that
\* counts one stored it, and nobody else did.
LEMMA NextTypeOK ==
    ASSUME IInv, [Next]_vars
    PROVE  TypeOK'
<1>. USE DownloadConstants DEF TypeOK, Place, FeederPlace, Move, Leave,
         feedVars, workVars, sharedVars
<1>a. TypeOK /\ Control
  BY DEF IInv, DoneCountsChunks
<1>0. CASE FindStep
  <2>0. Strides \subseteq Nat /\ step \in Strides
    BY <1>a, <1>0 DEF FindStep, Control, Strides
  <2>1. step' \in Nat
    BY <1>a, <1>0, <2>0, NextStride DEF FindStep
  <2>. QED BY <1>a, <1>0, <2>1 DEF FindStep, AfterFeed
<1>1. ASSUME NEW i \in Chunk, Prefetch(i) PROVE TypeOK'
  <2>1. priority' \in Seq(Chunk) /\ Len(priority') = Len(priority) + 1
    BY <1>a, <1>1 DEF Prefetch
  <2>. QED BY <1>a, <1>1, <2>1 DEF Prefetch
<1>2. CASE PollPriority
  <2>1. CASE priority = <<>>
    BY <1>a, <1>2, <2>1 DEF PollPriority
  <2>2. CASE priority # <<>>
    <3>1. /\ Head(priority) \in Chunk /\ Tail(priority) \in Seq(Chunk)
          /\ Len(Tail(priority)) = Len(priority) - 1
      BY <1>a, <2>2
    <3>2. Chunk \subseteq Nat
      BY DEF Chunk
    <3>3. /\ feeder' = "urgent" /\ urgent' \in Nat
          /\ priority' \in Seq(Chunk) /\ Len(priority') <= PriorityCap
      <4>1. feeder' = "urgent" /\ urgent' = Head(priority) /\ priority' = Tail(priority)
        BY <1>2, <2>2 DEF PollPriority
      <4>2. Len(priority) <= PriorityCap /\ Len(priority) \in Nat
        BY <1>a
      <4>3. Len(Tail(priority)) <= PriorityCap
        BY <3>1, <4>2
      <4>. QED BY <3>1, <3>2, <4>1, <4>3, Zenon
    <3>. QED BY <1>a, <1>2, <3>3 DEF PollPriority
  <2>. QED BY <2>1, <2>2
<1>3. ASSUME NEW w \in Worker, HandUrgent(w) PROVE TypeOK'
  BY <1>a, <1>3 DEF HandUrgent, Receive, Control
<1>4. ASSUME NEW w \in Worker, HandNext(w) PROVE TypeOK'
  <2>1. FeedAt(n) \in Chunk /\ n + 1 \in 0 .. Count /\ FeedAt(n) \in Nat
    BY <1>a, <1>4, FeedInFile DEF HandNext, Chunk
  <2>. QED BY <1>a, <1>4, <2>1 DEF HandNext, Receive, AfterFeed
<1>5. CASE BreakFeed
  BY <1>a, <1>5 DEF BreakFeed
<1>6. ASSUME NEW w \in Worker, NoMoreJobs(w) \/ Abandon(w) \/ Attempt(w) \/ CancelAll(w)
      PROVE TypeOK'
  <2>1. CASE NoMoreJobs(w)
    BY <1>a, <2>1 DEF NoMoreJobs
  <2>2. CASE Abandon(w)
    BY <1>a, <2>2 DEF Abandon
  <2>3. CASE Attempt(w)
    BY <1>a, <2>3 DEF Attempt
  <2>4. CASE CancelAll(w)
    BY <1>a, <2>4 DEF CancelAll
  <2>. QED BY <1>6, <2>1, <2>2, <2>3, <2>4
<1>7. ASSUME NEW w \in Worker, Claim(w) PROVE TypeOK'
  <2>1. job[w] \in Chunk
    BY <1>a, <1>7 DEF Claim
  <2>2. /\ UNCHANGED <<feedVars, has, done, failure, cancelled, ctxDone, result>>
        /\ \/ Leave(w, "recv") /\ UNCHANGED claimed
           \/ /\ claimed' = claimed \cup {job[w]}
              /\ Move(w, "attempt") /\ try' = [try EXCEPT ![w] = 1]
    BY <1>7 DEF Claim
  <2>3. CASE Leave(w, "recv") /\ UNCHANGED claimed
    BY <1>a, <2>2, <2>3
  <2>4. CASE /\ claimed' = claimed \cup {job[w]}
             /\ Move(w, "attempt") /\ try' = [try EXCEPT ![w] = 1]
    BY <1>a, <2>1, <2>2, <2>4
  <2>. QED BY <2>2, <2>3, <2>4
<1>8. ASSUME NEW w \in Worker, Fetched(w) \/ FetchFailed(w) PROVE TypeOK'
  BY <1>a, <1>8 DEF Fetched, FetchFailed
<1>9. ASSUME NEW w \in Worker, Retry(w) PROVE TypeOK'
  BY <1>a, <1>9 DEF Retry, Control
<1>10. ASSUME NEW w \in Worker, CountDone(w) PROVE TypeOK'
  <2>1. result = "none"
    BY <1>a, <1>10 DEF CountDone, IInv, JoinedBeforeCleanup, Control
  <2>2. done + Cardinality(StoredBy) = Cardinality(has) /\ Cardinality(has) <= Count
    BY <1>a, <2>1, HasBounded DEF IInv, DoneCountsChunks, StoredBy
  <2>3. Cardinality(StoredBy) >= 1 /\ Cardinality(StoredBy) \in Nat
    <3>1. pc[w] = "stored" /\ pc' = [pc EXCEPT ![w] = "recv"] /\ "recv" \in Place
      BY <1>10 DEF CountDone
    <3>. HIDE DEF Place, TypeOK
    <3>2. /\ Cardinality(StoredBy) = Cardinality(StoredBy') + 1
          /\ Cardinality(StoredBy') \in Nat
      BY <1>a, <3>1, StoredCounted, Zenon
    <3>. QED BY <3>2
  <2>4. done + 1 \in 0 .. Count
    BY <1>a, <2>2, <2>3, HasBounded
  <2>. QED BY <1>a, <1>10, <2>4 DEF CountDone
<1>11. CASE CtxEnds
  BY <1>a, <1>11 DEF CtxEnds
<1>12. CASE Join \/ Sync \/ Rename
  BY <1>a, <1>12 DEF Join, Sync, Rename, ReturnWith, Proceed
<1>13. CASE UNCHANGED vars
  BY <1>a, <1>13 DEF vars
<1>. QED
  BY <1>0, <1>1, <1>2, <1>3, <1>4, <1>5, <1>6, <1>7, <1>8, <1>9, <1>10, <1>11, <1>12, <1>13
     DEF Next, WorkerStep

\* The counter lags behind the stored chunks by the workers at "stored": a
\* fetch adds a chunk that nobody had.
LEMMA NextDone ==
    ASSUME IInv, [Next]_vars
    PROVE  DoneCountsChunks'
<1>a. TypeOK /\ TypeOK' /\ Control
  BY NextTypeOK DEF IInv, DoneCountsChunks
<1>s. "stored" \in Place /\ "recv" \in Place
  BY DEF Place
<1>. DEFINE Sum == result = "none" => done + Cardinality(StoredBy) = Cardinality(has)
<1>b. Sum
  BY DEF IInv, DoneCountsChunks, StoredBy
<1>. SUFFICES Sum'
  BY <1>a DEF DoneCountsChunks, StoredBy
<1>c. ASSUME UNCHANGED <<done, pc, has, result>> PROVE Sum'
  BY <1>b, <1>c DEF StoredBy
<1>d. ASSUME NEW w \in Worker, NEW p \in Place, p # "stored", pc[w] # "stored",
             pc' = [pc EXCEPT ![w] = p], UNCHANGED <<done, has, result>>
      PROVE Sum'
  <2>1. Cardinality(StoredBy') = Cardinality(StoredBy)
    BY <1>a, <1>d, StoredCounted, Zenon
  <2>. QED BY <1>b, <1>d, <2>1
<1>1. ASSUME NEW w \in Worker, HandUrgent(w) \/ HandNext(w) PROVE Sum'
  BY <1>1, <1>d DEF HandUrgent, HandNext, Receive, Place, sharedVars
<1>2. ASSUME NEW w \in Worker,
             NoMoreJobs(w) \/ Claim(w) \/ Abandon(w) \/ Attempt(w) \/ FetchFailed(w)
             \/ Retry(w) \/ CancelAll(w)
      PROVE Sum'
  BY <1>2, <1>d DEF NoMoreJobs, Claim, Abandon, Attempt, FetchFailed, Retry, CancelAll,
                    Move, Leave, Place, sharedVars
<1>3. ASSUME NEW w \in Worker, Fetched(w) PROVE Sum'
  <2>1. /\ pc[w] = "fetch" /\ pc' = [pc EXCEPT ![w] = "stored"]
        /\ has' = has \cup {job[w]} /\ done' = done /\ result' = result
    BY <1>3 DEF Fetched, Move
  <2>2. job[w] \notin has
    BY <2>1 DEF IInv, NoDuplicateWriters
  <2>3. Cardinality(has') = Cardinality(has) + 1
    BY <1>a, <2>1, <2>2, HasBounded, FS_AddElement
  <2>4. /\ Cardinality(StoredBy') = Cardinality(StoredBy) + 1
        /\ Cardinality(StoredBy) \in Nat
    BY <1>a, <1>s, <2>1, StoredCounted, Zenon
  <2>. QED BY <1>a, <1>b, <2>1, <2>3, <2>4, HasBounded DEF TypeOK
<1>4. ASSUME NEW w \in Worker, CountDone(w) PROVE Sum'
  <2>1. /\ pc[w] = "stored" /\ pc' = [pc EXCEPT ![w] = "recv"]
        /\ has' = has /\ done' = done + 1 /\ result' = result
    BY <1>4 DEF CountDone, Leave
  <2>2. /\ Cardinality(StoredBy) = Cardinality(StoredBy') + 1
        /\ Cardinality(StoredBy') \in Nat
    BY <1>a, <1>s, <2>1, StoredCounted, Zenon
  <2>. QED BY <1>a, <1>b, <2>1, <2>2 DEF TypeOK
<1>5. CASE Join \/ Sync \/ Rename
  BY <1>5, <1>c DEF Join, Sync, Rename, ReturnWith, Proceed, workVars, sharedVars
<1>. QED
  BY <1>1, <1>2, <1>3, <1>4, <1>5, <1>c
     DEF Next, WorkerStep, FindStep, AfterFeed, Prefetch, PollPriority, BreakFeed, CtxEnds,
         vars,
         workVars, sharedVars

\* Control: the feeder is at an index only while there is one left.
LEMMA NextControl ==
    ASSUME IInv, [Next]_vars
    PROVE  Control'
<1>. USE DownloadConstants DEF Control, feedVars, workVars, sharedVars, Move, Leave
<1>a. /\ Control /\ n \in Nat /\ Count \in Nat /\ pc \in [Worker -> Place]
      /\ try \in [Worker -> 0 .. MaxAttempts] /\ priority \in Seq(Chunk)
  BY DEF IInv, DoneCountsChunks, TypeOK
<1>0. CASE FindStep
  <2>1. CASE Count > 1 /\ ~Coprime(step, Count)
    BY <1>a, <1>0, <2>1, NextStride DEF FindStep
  <2>2. CASE ~(Count > 1 /\ ~Coprime(step, Count))
    <3>1. step \in Steps
      BY <1>a, <1>0, <2>2 DEF FindStep, Strides, Steps
    <3>. QED BY <1>a, <1>0, <2>2, <3>1 DEF FindStep, AfterFeed
  <2>. QED BY <2>1, <2>2
<1>1. ASSUME NEW i \in Chunk, Prefetch(i) PROVE Control'
  BY <1>a, <1>1 DEF Prefetch
<1>2. CASE PollPriority
  <2>1. CASE priority = <<>>
    BY <1>a, <1>2, <2>1 DEF PollPriority
  <2>2. CASE priority # <<>>
    <3>1. Head(priority) \in Chunk
      BY <1>a, <2>2
    <3>. QED BY <1>a, <1>2, <2>2, <3>1 DEF PollPriority
  <2>. QED BY <2>1, <2>2
<1>3. ASSUME NEW w \in Worker, HandUrgent(w) \/ HandNext(w) PROVE Control'
  BY <1>a, <1>3 DEF HandUrgent, HandNext, Receive, AfterFeed
<1>4. CASE BreakFeed \/ CtxEnds
  BY <1>a, <1>4 DEF BreakFeed, CtxEnds
<1>5. ASSUME NEW w \in Worker, NoMoreJobs(w) \/ Claim(w) \/ Abandon(w) \/ Attempt(w)
      PROVE Control'
  BY <1>a, <1>5 DEF NoMoreJobs, Claim, Abandon, Attempt
<1>6. ASSUME NEW w \in Worker, Fetched(w) \/ FetchFailed(w) PROVE Control'
  BY <1>a, <1>6 DEF Fetched, FetchFailed
<1>7. ASSUME NEW w \in Worker, Retry(w) \/ CountDone(w) \/ CancelAll(w) PROVE Control'
  BY <1>a, <1>7 DEF Retry, CountDone, CancelAll
<1>8. CASE Join \/ Sync \/ Rename
  BY <1>a, <1>8 DEF Join, Sync, Rename, ReturnWith, Proceed
<1>9. CASE UNCHANGED vars
  BY <1>a, <1>9 DEF vars
<1>. QED
  BY <1>0, <1>1, <1>2, <1>3, <1>4, <1>5, <1>6, <1>7, <1>8, <1>9 DEF Next, WorkerStep

\* A worker leaves a stored chunk or a failure behind; cleanup comes last.
LEMMA NextRecorded ==
    ASSUME IInv, [Next]_vars
    PROVE  Recorded' /\ JoinedBeforeCleanup'
<1>. USE DEF Recorded, JoinedBeforeCleanup, feedVars, workVars, sharedVars, Move, Leave
<1>a. Recorded /\ JoinedBeforeCleanup /\ pc \in [Worker -> Place] /\ job \in [Worker -> Nat]
  BY DEF IInv, DoneCountsChunks, TypeOK
<1>1. ASSUME UNCHANGED <<pc, job, has, failure, cancelled>>,
             feeder' \in {"poll", "urgent", "feed", "join"} \/ feeder' = feeder
      PROVE Recorded' /\ JoinedBeforeCleanup'
  BY <1>a, <1>1
<1>2. ASSUME NEW w \in Worker, HandUrgent(w) \/ HandNext(w)
      PROVE Recorded' /\ JoinedBeforeCleanup'
  BY <1>a, <1>2 DEF HandUrgent, HandNext, Receive, AfterFeed
<1>3. ASSUME NEW w \in Worker, NoMoreJobs(w) \/ Claim(w) \/ Abandon(w) \/ Attempt(w)
      PROVE Recorded' /\ JoinedBeforeCleanup'
  BY <1>a, <1>3 DEF NoMoreJobs, Claim, Abandon, Attempt
<1>4. ASSUME NEW w \in Worker, Fetched(w) \/ FetchFailed(w)
      PROVE Recorded' /\ JoinedBeforeCleanup'
  BY <1>a, <1>4 DEF Fetched, FetchFailed
<1>5. ASSUME NEW w \in Worker, Retry(w) \/ CountDone(w) \/ CancelAll(w)
      PROVE Recorded' /\ JoinedBeforeCleanup'
  BY <1>a, <1>5 DEF Retry, CountDone, CancelAll
<1>6. CASE Join \/ Sync \/ Rename
  <2>1. (\A w \in Worker : pc[w] = "exit") /\ pc' = pc /\ UNCHANGED <<failure, cancelled>>
    BY <1>a, <1>6 DEF Join, Sync, Rename, ReturnWith, Proceed
  <2>. QED BY <1>a, <2>1
<1>. QED
  BY <1>1, <1>2, <1>3, <1>4, <1>5, <1>6
     DEF Next, WorkerStep, FindStep, AfterFeed, Prefetch, PollPriority, BreakFeed, CtxEnds,
         vars

\* One writer per chunk: a claim is made on an index that nobody has claimed or
\* stored, and released only by the worker that stored it.
LEMMA NextWriters ==
    ASSUME IInv, [Next]_vars
    PROVE  NoDuplicateWriters'
<1>. USE DEF NoDuplicateWriters, feedVars, workVars, sharedVars, Move, Leave
<1>a. /\ NoDuplicateWriters /\ pc \in [Worker -> Place] /\ job \in [Worker -> Nat]
      /\ \A w \in Worker : pc[w] = "stored" => job[w] \in has
  BY DEF IInv, DoneCountsChunks, TypeOK, Recorded
<1>b. ASSUME UNCHANGED <<pc, job, claimed, has>> PROVE NoDuplicateWriters'
  BY <1>a, <1>b
<1>1. ASSUME NEW w \in Worker, HandUrgent(w) \/ HandNext(w) PROVE NoDuplicateWriters'
  BY <1>a, <1>1 DEF HandUrgent, HandNext, Receive
<1>2. ASSUME NEW w \in Worker, NoMoreJobs(w) \/ Abandon(w) \/ Attempt(w)
      PROVE NoDuplicateWriters'
  BY <1>a, <1>2 DEF NoMoreJobs, Abandon, Attempt
<1>3. ASSUME NEW w \in Worker, Claim(w) PROVE NoDuplicateWriters'
  <2>1. CASE job[w] \in claimed \cup has
    BY <1>a, <1>3, <2>1 DEF Claim
  <2>2. CASE job[w] \notin claimed \cup has
    BY <1>a, <1>3, <2>2 DEF Claim
  <2>. QED BY <2>1, <2>2
<1>4. ASSUME NEW w \in Worker, Fetched(w) PROVE NoDuplicateWriters'
  BY <1>a, <1>4 DEF Fetched
<1>5. ASSUME NEW w \in Worker, FetchFailed(w) \/ Retry(w) \/ CancelAll(w)
      PROVE NoDuplicateWriters'
  BY <1>a, <1>5 DEF FetchFailed, Retry, CancelAll
<1>6. ASSUME NEW w \in Worker, CountDone(w) PROVE NoDuplicateWriters'
  BY <1>a, <1>6 DEF CountDone
<1>7. CASE Join \/ Sync \/ Rename
  <2>1. (\A w \in Worker : pc[w] = "exit") /\ pc' = pc
    BY <1>7 DEF IInv, JoinedBeforeCleanup, Join, Sync, Rename, ReturnWith, Proceed
  <2>. QED BY <2>1
<1>. QED
  BY <1>b, <1>1, <1>2, <1>3, <1>4, <1>5, <1>6, <1>7
     DEF Next, WorkerStep, FindStep, AfterFeed, Prefetch, PollPriority, BreakFeed, CtxEnds,
         vars

\* A worker that moves can let go of its own index only.
LEMMA OthersKeep ==
    ASSUME TypeOK, NEW w \in Worker, NEW p, pc' = [pc EXCEPT ![w] = p],
           NEW j, job' = [job EXCEPT ![w] = j] \/ job' = job,
           NEW S, NEW i, InHand(i, S), ~(pc[w] \in S /\ job[w] = i)
    PROVE  InHand(i, S)'
<1>1. PICK v \in Worker : pc[v] \in S /\ job[v] = i
  BY DEF InHand
<1>2. v # w
  BY <1>1
<1>3. pc'[v] \in S /\ job'[v] = i
  BY <1>1, <1>2 DEF TypeOK
<1>. QED BY <1>3 DEF InHand

\* The chain of responsibility: an index passes from the feeder to a worker, to
\* its claim and into the hash table, unless the run breaks.
LEMMA NextCovered ==
    ASSUME IInv, [Next]_vars
    PROVE  Covered'
<1>. DEFINE Hands == {"claim"} \cup Working
            Ok(i, S) == i \in has \/ Broken \/ InHand(i, S)
<1>a. /\ TypeOK /\ Control /\ Recorded /\ Covered /\ n \in Nat
      /\ pc \in [Worker -> Place] /\ job \in [Worker -> Nat]
  BY DEF IInv, DoneCountsChunks, TypeOK
<1>b. ASSUME UNCHANGED <<step, n, claimed, result>>,
             \A i : Ok(i, Working) => Ok(i, Working)', \A i : Ok(i, Hands) => Ok(i, Hands)'
      PROVE Covered'
  BY <1>a, <1>b DEF Covered, FeedAt
<1>c. ASSUME UNCHANGED <<step, n, claimed, result, pc, job, has, failure>>,
             ctxDone => ctxDone'
      PROVE Covered'
  <2>1. \A i : InHand(i, Working)' = InHand(i, Working) /\ InHand(i, Hands)' = InHand(i, Hands)
    BY <1>c DEF InHand
  <2>. QED BY <1>b, <1>c, <2>1 DEF Broken
<1>d. ASSUME NEW i, InHand(i, Working) PROVE InHand(i, Hands)
  BY <1>d DEF InHand
<1>e. workDone => Broken
  BY <1>a DEF workDone, Broken, Recorded
<1>1. CASE UNCHANGED vars
  BY <1>1, <1>c DEF vars, feedVars, workVars, sharedVars
<1>0. CASE FindStep
  <2>1. n = 0 /\ UNCHANGED <<n, claimed, result, pc, job, has, failure, ctxDone>>
    BY <1>a, <1>0 DEF FindStep, Control, workVars, sharedVars
  <2>2. \A i : InHand(i, Working)' = InHand(i, Working)
    BY <2>1 DEF InHand
  <2>. QED BY <1>a, <2>1, <2>2 DEF Covered, Broken
<1>2. CASE (\E i \in Chunk : Prefetch(i)) \/ PollPriority \/ BreakFeed \/ CtxEnds
  BY <1>2, <1>c DEF Prefetch, PollPriority, BreakFeed, CtxEnds, feedVars, workVars, sharedVars
<1>f. ASSUME NEW w \in Worker, NEW i, Receive(w, i),
             UNCHANGED <<claimed, has, failure, ctxDone>>
      PROVE /\ \A x : Ok(x, Working) => Ok(x, Working)'
            /\ \A x : Ok(x, Hands) => Ok(x, Hands)'
            /\ Ok(i, Hands)'
  <2>1. pc[w] = "recv" /\ pc' = [pc EXCEPT ![w] = "claim"] /\ job' = [job EXCEPT ![w] = i]
    BY <1>f DEF Receive
  <2>2. "recv" \notin Working /\ "recv" \notin Hands
    BY DEF Working
  <2>3. pc'[w] \in Hands /\ job'[w] = i
    BY <1>a, <2>1
  <2>4. InHand(i, Hands)'
    BY <2>3 DEF InHand
  <2>5. ASSUME NEW x, NEW S, "recv" \notin S, InHand(x, S) PROVE InHand(x, S)'
    BY <1>a, <2>1, <2>5, OthersKeep
  <2>. HIDE DEF Hands
  <2>. QED BY <1>f, <2>2, <2>4, <2>5 DEF Broken
<1>3. ASSUME NEW w \in Worker, HandUrgent(w) PROVE Covered'
  <2>1. Receive(w, urgent) /\ UNCHANGED <<step, n, result, claimed, has, failure, ctxDone>>
    BY <1>3 DEF HandUrgent, sharedVars
  <2>. HIDE DEF Ok
  <2>. QED BY <1>b, <1>f, <2>1
<1>4. ASSUME NEW w \in Worker, HandNext(w) PROVE Covered'
  <2>0. PICK fed : fed = FeedAt(n)
    OBVIOUS
  <2>1. /\ Receive(w, fed) /\ UNCHANGED <<step, result, claimed, has, failure, ctxDone>>
        /\ n' = n + 1
    BY <1>4, <2>0 DEF HandNext, sharedVars
  <2>2. /\ \A x : Ok(x, Working) => Ok(x, Working)'
        /\ \A x : Ok(x, Hands) => Ok(x, Hands)'
        /\ Ok(fed, Hands)'
    <3>. HIDE DEF Ok
    <3>. QED BY <1>f, <2>1
  <2>3. \A k : FeedAt(k)' = FeedAt(k)
    BY <2>1 DEF FeedAt
  <2>4. \A k \in 0 .. n' - 1 : k \in 0 .. n - 1 \/ FeedAt(k) = fed
    BY <1>a, <2>0, <2>1
  <2>. QED BY <1>a, <2>1, <2>2, <2>3, <2>4 DEF Covered
\* A worker that leaves with the run broken, or with its chunk stored.
<1>g. ASSUME NEW w \in Worker, NEW p, pc' = [pc EXCEPT ![w] = p],
             NEW j, job' = [job EXCEPT ![w] = j] \/ job' = job,
             UNCHANGED <<step, n, claimed, result>>,
             has \subseteq has', Broken => Broken',
             pc[w] \in Hands => job[w] \in has' \/ Broken'
      PROVE Covered'
  <2>1. ASSUME NEW i, NEW S, S \subseteq Hands, Ok(i, S) PROVE Ok(i, S)'
    <3>1. CASE i \in has \/ Broken
      BY <1>g, <3>1
    <3>2. CASE InHand(i, S) /\ pc[w] \in S /\ job[w] = i
      BY <1>g, <2>1, <3>2
    <3>3. CASE InHand(i, S) /\ ~(pc[w] \in S /\ job[w] = i)
      <4>1. InHand(i, S)'
        BY <1>a, <1>g, <3>3, OthersKeep
      <4>. QED BY <4>1
    <3>. QED BY <2>1, <3>1, <3>2, <3>3
  <2>2. Working \subseteq Hands
    OBVIOUS
  <2>. HIDE DEF Ok, Hands
  <2>. QED BY <1>b, <1>g, <2>1, <2>2
\* A worker that goes on with its claimed index.
<1>h. ASSUME NEW w \in Worker, NEW p \in Working, pc[w] \in Working,
             pc' = [pc EXCEPT ![w] = p], job' = job,
             UNCHANGED <<step, n, claimed, result, has, failure, ctxDone>>
      PROVE Covered'
  <2>1. ASSUME NEW i, NEW S, Working \subseteq S, InHand(i, S) PROVE InHand(i, S)'
    BY <1>a, <1>h, <2>1 DEF InHand
  <2>2. Working \subseteq Hands
    OBVIOUS
  <2>. HIDE DEF Hands
  <2>. QED BY <1>b, <1>h, <2>1, <2>2 DEF Broken
<1>5. ASSUME NEW w \in Worker, NoMoreJobs(w) PROVE Covered'
  BY <1>5, <1>g DEF NoMoreJobs, Leave, Working, feedVars, sharedVars, Broken
<1>6. ASSUME NEW w \in Worker, Abandon(w) PROVE Covered'
  BY <1>6, <1>e, <1>g DEF Abandon, Leave, Working, feedVars, sharedVars, Broken
<1>7. ASSUME NEW w \in Worker, Attempt(w) PROVE Covered'
  BY <1>7, <1>h DEF Attempt, Move, Working, feedVars, sharedVars
<1>8. ASSUME NEW w \in Worker, Retry(w) PROVE Covered'
  BY <1>8, <1>h DEF Retry, Move, Working, feedVars, sharedVars
<1>9. ASSUME NEW w \in Worker, Fetched(w) PROVE Covered'
  BY <1>9, <1>g DEF Fetched, Move, Working, feedVars, Broken
<1>10. ASSUME NEW w \in Worker, FetchFailed(w) PROVE Covered'
  <2>1. CASE try[w] < MaxAttempts
    BY <1>10, <1>h, <2>1 DEF FetchFailed, Move, Working, feedVars
  <2>2. CASE ~(try[w] < MaxAttempts)
    BY <1>10, <1>g, <2>2 DEF FetchFailed, Move, Working, feedVars, Broken
  <2>. QED BY <2>1, <2>2
<1>11. ASSUME NEW w \in Worker, CancelAll(w) PROVE Covered'
  BY <1>11, <1>g DEF CancelAll, Leave, Working, feedVars, Broken
\* A skipped index is the claimant's; a claimed one is the worker's own.
<1>12. ASSUME NEW w \in Worker, Claim(w) PROVE Covered'
  <2>1. /\ pc[w] = "claim"
        /\ UNCHANGED <<step, n, result, has, failure, ctxDone>>
    BY <1>12 DEF Claim, feedVars
  <2>2. CASE job[w] \in claimed \cup has
    <3>1. /\ pc' = [pc EXCEPT ![w] = "recv"] /\ job' = [job EXCEPT ![w] = 0]
          /\ claimed' = claimed
      BY <1>12, <2>2 DEF Claim, Leave
    <3>2. ASSUME NEW i, InHand(i, Working) PROVE InHand(i, Working)'
      BY <1>a, <2>1, <3>1, <3>2, OthersKeep DEF Working
    <3>3. ASSUME result = "none", NEW i, Ok(i, Hands) PROVE Ok(i, Hands)'
      <4>1. CASE InHand(i, Hands) /\ job[w] = i
        <5>1. Ok(i, Working)
          BY <1>a, <2>2, <3>3, <4>1 DEF Covered
        <5>2. Ok(i, Working)'
          BY <2>1, <3>2, <5>1 DEF Broken
        <5>3. InHand(i, Working)' => InHand(i, Hands)'
          BY DEF InHand
        <5>. QED BY <5>2, <5>3
      <4>2. CASE InHand(i, Hands) /\ job[w] # i
        <5>1. InHand(i, Hands)'
          BY <1>a, <3>1, <4>2, OthersKeep
        <5>. QED BY <5>1
      <4>3. CASE i \in has \/ Broken
        BY <2>1, <4>3 DEF Broken
      <4>. QED BY <3>3, <4>1, <4>2, <4>3
    <3>. HIDE DEF Hands
    <3>4. \A i : Ok(i, Working) => Ok(i, Working)'
      BY <2>1, <3>2 DEF Broken
    <3>. HIDE DEF Ok
    <3>. QED BY <1>a, <1>b, <2>1, <3>1, <3>3, <3>4 DEF Covered
  <2>3. CASE job[w] \notin claimed \cup has
    <3>1. /\ pc' = [pc EXCEPT ![w] = "attempt"] /\ job' = job
          /\ claimed' = claimed \cup {job[w]}
      BY <1>12, <2>3 DEF Claim, Move
    <3>2. pc'[w] \in Working /\ job'[w] = job[w]
      BY <1>a, <3>1 DEF Working
    <3>3. InHand(job[w], Working)'
      BY <3>1, <3>2 DEF InHand
    <3>4. ASSUME NEW i, InHand(i, Working) PROVE InHand(i, Working)'
      BY <1>a, <2>1, <3>1, <3>4, OthersKeep DEF Working
    <3>5. ASSUME NEW i, InHand(i, Hands) PROVE InHand(i, Hands)'
      BY <1>a, <2>1, <3>1, <3>5 DEF InHand, Working
    <3>6. \A k : FeedAt(k)' = FeedAt(k)
      BY <2>1 DEF FeedAt
    <3>7. \A i : Ok(i, Working) => Ok(i, Working)'
      BY <2>1, <3>4 DEF Broken
    <3>8. \A i : Ok(i, Hands) => Ok(i, Hands)'
      BY <2>1, <3>5 DEF Broken
    <3>. QED BY <1>a, <2>1, <3>1, <3>3, <3>6, <3>7, <3>8 DEF Covered
  <2>. QED BY <2>2, <2>3
\* The released claim's chunk is stored, and nobody else works on it.
<1>13. ASSUME NEW w \in Worker, CountDone(w) PROVE Covered'
  <2>1. /\ pc[w] = "stored" /\ pc' = [pc EXCEPT ![w] = "recv"]
        /\ job' = [job EXCEPT ![w] = 0] /\ claimed' \subseteq claimed
        /\ UNCHANGED <<step, n, result, has, failure, ctxDone>>
    BY <1>13 DEF CountDone, Leave, feedVars
  <2>2. ASSUME NEW i, NEW S, "stored" \notin S, InHand(i, S) PROVE InHand(i, S)'
    BY <1>a, <2>1, <2>2, OthersKeep
  <2>3. "stored" \notin Working /\ "stored" \notin Hands
    BY DEF Working
  <2>4. \A k : FeedAt(k)' = FeedAt(k)
    BY <2>1 DEF FeedAt
  <2>5. \A i : Ok(i, Working) => Ok(i, Working)'
    BY <2>1, <2>2, <2>3 DEF Broken
  <2>6. \A i : Ok(i, Hands) => Ok(i, Hands)'
    BY <2>1, <2>2, <2>3 DEF Broken
  <2>. QED BY <1>a, <2>1, <2>4, <2>5, <2>6 DEF Covered
<1>14. CASE Join \/ Sync \/ Rename
  <2>1. CASE result' # "none"
    BY <2>1 DEF Covered
  <2>2. CASE result' = "none"
    <3>1. \E place \in FeederPlace : Proceed(place)
      BY <1>14, <2>2 DEF Join, Sync, Rename, ReturnWith, FeederPlace
    <3>. QED BY <1>c, <3>1 DEF Proceed, workVars, sharedVars
  <2>. QED BY <2>1, <2>2
<1>. QED
  BY <1>0, <1>1, <1>2, <1>3, <1>4, <1>5, <1>6, <1>7, <1>8, <1>9, <1>10, <1>11, <1>12, <1>13, <1>14
     DEF Next, WorkerStep

\* At the join of an unbroken run no worker holds an index, so every index that
\* was fed is stored; and the shuffle fed them all.
LEMMA NextComplete ==
    ASSUME IInv, [Next]_vars
    PROVE  Complete'
<1>. USE DEF feedVars, workVars, sharedVars
<1>a. /\ TypeOK /\ Complete /\ Covered /\ Control /\ Recorded /\ has \subseteq Chunk
      /\ n \in Nat /\ Count \in Nat
  BY DownloadConstants DEF IInv, DoneCountsChunks, TypeOK
<1>b. Broken => Broken'
  BY DEF Broken, Next, WorkerStep, FindStep, Prefetch, PollPriority, HandUrgent, HandNext, BreakFeed,
         NoMoreJobs, Claim, Abandon, Attempt, Fetched, FetchFailed, Retry, CountDone,
         CancelAll, CtxEnds, Join, Sync, Rename, ReturnWith, Proceed, vars
<1>c. ASSUME UNCHANGED <<n, feeder, has>> PROVE Complete'
  BY <1>a, <1>b, <1>c DEF Complete
<1>0. CASE FindStep
  BY <1>a, <1>0 DEF FindStep, AfterFeed, Complete, Control
<1>1. CASE PollPriority
  BY <1>1 DEF PollPriority, Complete
<1>2. ASSUME NEW w \in Worker, HandUrgent(w) PROVE Complete'
  BY <1>2 DEF HandUrgent, Complete
<1>3. ASSUME NEW w \in Worker, HandNext(w) PROVE Complete'
  <2>1. n < Count /\ n' = n + 1 /\ feeder' = AfterFeed(n + 1)
    BY <1>a, <1>3 DEF HandNext, Control
  <2>. QED BY <1>a, <2>1 DEF AfterFeed, Complete
<1>4. CASE BreakFeed
  <2>1. Broken /\ feeder' = "join"
    BY <1>a, <1>4 DEF BreakFeed, workDone, Broken, Recorded
  <2>. QED BY <1>b, <2>1 DEF Complete
<1>5. ASSUME NEW w \in Worker, Fetched(w) PROVE Complete'
  <2>1. feeder \notin {"sync", "rename"} /\ feeder' = feeder /\ n' = n
    BY <1>5 DEF Fetched, IInv, JoinedBeforeCleanup
  <2>. QED BY <1>a, <1>b, <2>1 DEF Complete
<1>6. CASE Join
  <2>1. CASE ctxDone \/ failure
    BY <1>6, <2>1 DEF Join, ReturnWith, Complete
  <2>2. CASE ~ctxDone /\ ~failure
    <3>1. /\ feeder = "join" /\ result = "none" /\ n = Count /\ ~Broken /\ step \in Steps
          /\ \A w \in Worker : pc[w] = "exit"
      BY <1>a, <1>6, <2>2 DEF Join, Control, Complete, Broken
    <3>2. ASSUME NEW i \in Chunk PROVE i \in has
      <4>1. PICK k \in 0 .. Count - 1 : FeedAt(k) = i
        BY <3>1, ShuffleComplete
      <4>2. \A S : "exit" \notin S => ~InHand(i, S)
        BY <3>1 DEF InHand
      <4>3. i \in has \/ Broken \/ InHand(i, {"claim"} \cup Working)
        BY <1>a, <3>1, <4>1 DEF Covered
      <4>. QED BY <3>1, <4>2, <4>3 DEF Working
    <3>3. has' = has /\ feeder' = "sync"
      BY <1>6, <2>2 DEF Join, Proceed
    <3>. QED BY <1>a, <3>2, <3>3 DEF Complete, Chunk
  <2>. QED BY <2>1, <2>2
<1>7. CASE Sync \/ Rename
  BY <1>a, <1>7 DEF Sync, Rename, ReturnWith, Proceed, Complete
<1>8. ASSUME NEW w \in Worker,
             NoMoreJobs(w) \/ Claim(w) \/ Abandon(w) \/ Attempt(w) \/ FetchFailed(w)
             \/ Retry(w) \/ CountDone(w) \/ CancelAll(w)
      PROVE Complete'
  BY <1>8, <1>c DEF NoMoreJobs, Claim, Abandon, Attempt, FetchFailed, Retry, CountDone, CancelAll
<1>9. CASE (\E i \in Chunk : Prefetch(i)) \/ CtxEnds \/ UNCHANGED vars
  BY <1>9, <1>c DEF Prefetch, CtxEnds, vars
<1>. QED
  BY <1>0, <1>1, <1>2, <1>3, <1>4, <1>5, <1>6, <1>7, <1>8, <1>9 DEF Next, WorkerStep

-----------------------------------------------------------------------------
(* The theorems *)

\* The conjunction is inductive: RunTo keeps it in every step.
THEOREM DownloadInvariant == Spec => []IInv
<1>1. Init => IInv
  <2>. SUFFICES ASSUME Init PROVE IInv
    OBVIOUS
  <2>1. /\ n = 0 /\ 0 \in 0 .. Count /\ step \in Nat /\ step \in Strides
        /\ feeder = "shuffle" /\ result = "none" /\ has = {} /\ claimed = {} /\ done = 0
        /\ \A w \in Worker : pc[w] = "recv"
    BY DownloadConstants DEF Init, Strides
  <2>2. StoredBy = {} /\ Cardinality(StoredBy) = 0 /\ Cardinality(has) = 0
    BY <2>1, FS_EmptySet DEF StoredBy
  <2>3. TypeOK
    <3>1. <<>> \in Seq(Chunk) /\ Len(<<>>) = 0
      OBVIOUS
    <3>2. feeder \in FeederPlace /\ "recv" \in Place
      BY <2>1 DEF FeederPlace, Place
    <3>3. 0 \in 0 .. MaxAttempts /\ 0 <= PriorityCap
      BY DownloadConstants
    <3>4. /\ pc \in [Worker -> Place] /\ job \in [Worker -> Nat]
          /\ try \in [Worker -> 0 .. MaxAttempts]
      BY <3>2, <3>3 DEF Init
    <3>5. priority \in Seq(Chunk) /\ Len(priority) <= PriorityCap
      BY <3>1, <3>3, Zenon DEF Init
    <3>. QED BY <2>1, <3>2, <3>4, <3>5 DEF Init, TypeOK
  <2>4. DoneCountsChunks
    BY <2>1, <2>2, <2>3 DEF DoneCountsChunks, StoredBy
  <2>5. Control
    BY <2>1, DownloadConstants DEF Control
  <2>6. Recorded /\ NoDuplicateWriters
    BY <2>1 DEF Init, Recorded, NoDuplicateWriters
  <2>7. JoinedBeforeCleanup /\ Covered /\ Complete
    BY <2>1, DownloadConstants DEF JoinedBeforeCleanup, Covered, Complete
  <2>. QED BY <2>4, <2>5, <2>6, <2>7 DEF IInv
<1>2. IInv /\ [Next]_vars => IInv'
  BY NextDone, NextControl, NextRecorded, NextWriters, NextCovered, NextComplete DEF IInv
<1>. QED BY <1>1, <1>2, PTL DEF Spec

\* "Coordinator requests never create duplicate writers", for any number of
\* workers and any prefetch commands.
THEOREM WritersUnique == Spec => []NoDuplicateWriters
<1>1. IInv => NoDuplicateWriters
  BY DEF IInv
<1>. QED BY <1>1, DownloadInvariant, PTL

\* The progress counter counts each stored chunk once and never passes Count.
THEOREM ProgressCounted == Spec => []DoneCountsChunks
<1>1. IInv => DoneCountsChunks
  BY DEF IInv
<1>. QED BY <1>1, DownloadInvariant, PTL

\* RunTo joins every worker before it closes, removes or renames the file.
THEOREM CleanupLast == Spec => []JoinedBeforeCleanup
<1>1. IInv => JoinedBeforeCleanup
  BY DEF IInv
<1>. QED BY <1>1, DownloadInvariant, PTL

\* Every step of RunTo is a step of Delivery or leaves its state alone: a fetch
\* stores a new chunk, and a return delivers all of them or gives up.
LEMMA StepDelivers ==
    ASSUME IInv, [Next]_vars
    PROVE  [Promise!Next]_(Promise!vars)
<1>. USE DEF Promise!Next, Promise!vars
<1>a. /\ Control /\ Complete /\ TypeOK /\ JoinedBeforeCleanup /\ NoDuplicateWriters
  BY DEF IInv, DoneCountsChunks
<1>1. ASSUME UNCHANGED <<has, result>>
      PROVE UNCHANGED <<[x \in {"self"} |-> has], [x \in {"self"} |-> Outcome]>>
  BY <1>1 DEF Outcome
<1>2. ASSUME NEW w \in Worker, Fetched(w)
      PROVE job[w] \in Chunk /\ Promise!Store("self", job[w])
  <2>1. /\ pc[w] = "fetch" /\ result = "none" /\ result' = result
        /\ job[w] \in Chunk /\ job[w] \notin has /\ has' = has \cup {job[w]}
    BY <1>a, <1>2 DEF Fetched, TypeOK, JoinedBeforeCleanup, NoDuplicateWriters, Control
  <2>. QED BY <2>1 DEF Promise!Store, Outcome
<1>3. ASSUME feeder # "returned", NEW r \in {"failed", "cancelled"}, ReturnWith(r)
      PROVE Promise!GiveUp("self")
  BY <1>a, <1>3 DEF Promise!GiveUp, Outcome, ReturnWith, Control
<1>4. ASSUME feeder = "rename", ReturnWith("ok")
      PROVE Promise!Deliver("self")
  BY <1>a, <1>4 DEF Promise!Deliver, Outcome, ReturnWith, Control, Complete
<1>5. CASE Join \/ Sync \/ Rename
  <2>1. ASSUME NEW place, Proceed(place) PROVE UNCHANGED <<has, result>>
    BY <2>1 DEF Proceed, sharedVars
  <2>. QED BY <1>1, <1>3, <1>4, <1>5, <2>1 DEF Join, Sync, Rename
<1>6. ASSUME NEW w \in Worker,
             NoMoreJobs(w) \/ Claim(w) \/ Abandon(w) \/ Attempt(w) \/ FetchFailed(w)
             \/ Retry(w) \/ CountDone(w) \/ CancelAll(w)
      PROVE UNCHANGED <<has, result>>
  BY <1>6 DEF NoMoreJobs, Claim, Abandon, Attempt, FetchFailed, Retry, CountDone,
              CancelAll, sharedVars
<1>7. ASSUME NEW w \in Worker, HandUrgent(w) \/ HandNext(w) PROVE UNCHANGED <<has, result>>
  BY <1>7 DEF HandUrgent, HandNext, sharedVars
<1>8. ASSUME \/ \E i \in Chunk : Prefetch(i)
             \/ FindStep \/ PollPriority \/ BreakFeed \/ CtxEnds \/ UNCHANGED vars
      PROVE UNCHANGED <<has, result>>
  BY <1>8 DEF FindStep, Prefetch, PollPriority, BreakFeed, CtxEnds, vars, sharedVars
<1>. QED
  BY <1>1, <1>2, <1>5, <1>6, <1>7, <1>8 DEF Next, WorkerStep

\* RunTo implements Delivery: a success has stored every chunk of the file, each
\* once, whatever the stride, the retries, the prefetches and the cancellations.
THEOREM RunDelivers == Spec => ImplementsDelivery
<1>1. Init => Promise!Init
  BY DEF Init, Promise!Init, Outcome
<1>2. IInv /\ [Next]_vars => [Promise!Next]_(Promise!vars)
  BY StepDelivers
<1>. QED BY <1>1, <1>2, DownloadInvariant, PTL DEF Spec, ImplementsDelivery, Promise!Spec

=============================================================================
