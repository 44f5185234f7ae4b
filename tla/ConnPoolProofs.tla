--------------------------- MODULE ConnPoolProofs ---------------------------
(***************************************************************************)
(* Proofs about the connection pool for any number of callers, sockets and *)
(* permits.  SocketsAccounted is not inductive: that a permit returned     *)
(* early lets at most one extra socket in needs the permit accounting and  *)
(* the mutual exclusion of p.mu; that Close leaves no lent socket open     *)
(* needs every socket in use to be in p.borrowed.                          *)
(***************************************************************************)
EXTENDS ConnPool, FiniteSetTheorems, SequenceTheorems, TLAPS

At(S) == {c \in Caller : pc[c] \in S}

\* p.mu: release is the only section of several steps, and one runs at a time.
MutexInv == \A c, d \in Caller : pc[c] \in Releasing /\ pc[d] \in Releasing => c = d

\* What is lent is known to Close.
BorrowedInv == \A c \in Caller : pc[c] = "using" => conn[c] \in borrowed

Distinct ==
    /\ \A c, d \in Caller : c # d /\ conn[c] # NoConn => conn[c] # conn[d]
    /\ \A c \in Caller : conn[c] \notin IdleSet
    /\ \A j, k \in DOMAIN idle : idle[j] = idle[k] => j = k

\* Callers that have a socket or are getting a new one.
Connected == {"dial"} \cup Holding

Bounded == Cardinality(At(Connected)) + Len(idle) <= MaxConn + 1

NoLeak ==
    /\ open \subseteq IdleSet \cup HeldBy(Holding)
    /\ closed => open \subseteq HeldBy({"got"}) /\ idle = <<>>

IInv ==
    /\ PermitAccounting /\ MutexInv /\ BorrowedInv
    /\ Distinct /\ Bounded /\ NoLeak

-----------------------------------------------------------------------------
\* How the number of callers in a set of places changes when one moves.
LEMMA CallersCounted ==
    ASSUME TypeOK, NEW c \in Caller, NEW p, pc' = [pc EXCEPT ![c] = p], NEW S
    PROVE  /\ Cardinality(At(S)) \in Nat /\ Cardinality(At(S)') \in Nat
           /\ Cardinality(At(S)') =
                Cardinality(At(S)) + (IF p \in S THEN 1 ELSE 0)
                                   - (IF pc[c] \in S THEN 1 ELSE 0)
<1>. DEFINE A == At(S)
            B == At(S)'
<1>1. IsFiniteSet(A) /\ IsFiniteSet(B)
  BY FS_Subset, PoolConstants DEF At
<1>2. Cardinality(A) \in Nat /\ Cardinality(B) \in Nat
  BY <1>1, FS_CardinalityType
<1>3. B = IF p \in S THEN A \cup {c} ELSE A \ {c}
  BY DEF At, TypeOK
<1>4. c \in A <=> pc[c] \in S
  BY DEF At
<1>. HIDE DEF A, B
<1>5. /\ Cardinality(A \cup {c}) = IF c \in A THEN Cardinality(A) ELSE Cardinality(A) + 1
      /\ Cardinality(A \ {c}) = IF c \in A THEN Cardinality(A) - 1 ELSE Cardinality(A)
  BY <1>1, FS_AddElement, FS_RemoveElement
<1>6. Cardinality(B) =
        Cardinality(A) + (IF p \in S THEN 1 ELSE 0) - (IF pc[c] \in S THEN 1 ELSE 0)
  BY <1>2, <1>3, <1>4, <1>5
<1>. QED BY <1>2, <1>6 DEF A, B

\* Counts never drop below one for a set that somebody is in.
LEMMA SomebodyCounted ==
    ASSUME NEW c \in Caller, NEW S, pc[c] \in S
    PROVE  Cardinality(At(S)) \in Nat /\ Cardinality(At(S)) >= 1
<1>1. IsFiniteSet(At(S)) /\ At(S) # {}
  BY FS_Subset, PoolConstants DEF At
<1>. QED BY <1>1, FS_CardinalityType, FS_EmptySet

\* Taking the oldest idle socket leaves the others, and it is none of them.
LEMMA TailIdle ==
    ASSUME TypeOK, Distinct, idle # <<>>, idle' = Tail(idle)
    PROVE  /\ Head(idle) \in Conn /\ Head(idle) \in IdleSet
           /\ idle' \in Seq(Conn) /\ Len(idle') = Len(idle) - 1
           /\ IdleSet' = IdleSet \ {Head(idle)}
           /\ \A j, k \in DOMAIN idle' : idle'[j] = idle'[k] => j = k
<1>1. /\ idle \in Seq(Conn) /\ Len(idle) \in Nat \ {0}
      /\ DOMAIN idle = 1 .. Len(idle) /\ Head(idle) = idle[1]
  BY DEF TypeOK
<1>2. /\ idle' \in Seq(Conn) /\ Len(idle') = Len(idle) - 1
      /\ DOMAIN idle' = 1 .. Len(idle) - 1
      /\ \A k \in 1 .. Len(idle) - 1 : idle'[k] = idle[k + 1]
  BY <1>1
<1>3. \A j, k \in 1 .. Len(idle) : idle[j] = idle[k] => j = k
  BY <1>1 DEF Distinct
<1>4. Head(idle) \in Conn /\ Head(idle) \in IdleSet
  BY <1>1 DEF IdleSet
<1>5. IdleSet' = IdleSet \ {Head(idle)}
  <2>1. ASSUME NEW x \in IdleSet' PROVE x \in IdleSet \ {Head(idle)}
    <3>1. PICK k \in 1 .. Len(idle) - 1 : x = idle[k + 1]
      BY <1>2 DEF IdleSet
    <3>2. k + 1 \in 1 .. Len(idle) /\ k + 1 # 1 /\ 1 \in 1 .. Len(idle)
      BY <1>1
    <3>. QED BY <1>1, <1>3, <3>1, <3>2 DEF IdleSet
  <2>2. ASSUME NEW x \in IdleSet \ {Head(idle)} PROVE x \in IdleSet'
    <3>1. PICK k \in 1 .. Len(idle) : x = idle[k]
      BY <1>1 DEF IdleSet
    <3>2. k # 1
      BY <1>1, <3>1
    <3>3. k - 1 \in 1 .. Len(idle) - 1 /\ idle'[k - 1] = x
      BY <1>1, <1>2, <3>1, <3>2
    <3>. QED BY <1>2, <3>3 DEF IdleSet
  <2>. QED BY <2>1, <2>2
<1>6. \A j, k \in DOMAIN idle' : idle'[j] = idle'[k] => j = k
  BY <1>1, <1>2, <1>3
<1>. QED BY <1>2, <1>4, <1>5, <1>6

\* A socket put back is added to the idle ones.
LEMMA AppendIdle ==
    ASSUME TypeOK, Distinct, NEW x \in Conn \ IdleSet, idle' = Append(idle, x)
    PROVE  /\ idle' \in Seq(Conn) /\ Len(idle') = Len(idle) + 1
           /\ IdleSet' = IdleSet \cup {x}
           /\ \A j, k \in DOMAIN idle' : idle'[j] = idle'[k] => j = k
<1>1. /\ idle \in Seq(Conn) /\ Len(idle) \in Nat /\ DOMAIN idle = 1 .. Len(idle)
  BY DEF TypeOK
<1>2. /\ idle' \in Seq(Conn) /\ Len(idle') = Len(idle) + 1
      /\ DOMAIN idle' = 1 .. Len(idle) + 1
      /\ \A k \in 1 .. Len(idle) : idle'[k] = idle[k]
      /\ idle'[Len(idle) + 1] = x
  BY <1>1
<1>3. \A k \in 1 .. Len(idle) : idle[k] # x
  BY <1>1 DEF IdleSet
<1>4. \A k \in 1 .. Len(idle) + 1 : k \in 1 .. Len(idle) \/ k = Len(idle) + 1
  BY <1>1
<1>5. IdleSet' = IdleSet \cup {x}
  BY <1>1, <1>2, <1>4 DEF IdleSet
<1>6. \A j, k \in DOMAIN idle' : idle'[j] = idle'[k] => j = k
  BY <1>1, <1>2, <1>3, <1>4 DEF Distinct
<1>. QED BY <1>2, <1>5, <1>6

-----------------------------------------------------------------------------
\* Types: in particular len(b.permits) stays within the channel's capacity, as
\* a caller that returns a permit is one of those that were counted.
LEMMA NextTypeOK ==
    ASSUME IInv, [Next]_vars
    PROVE  TypeOK'
<1>. USE PoolConstants DEF TypeOK, Place, Holding, Releasing, Goto
<1>a. TypeOK /\ permits = Cardinality(At(Permitted)) /\ Distinct
  BY DEF IInv, PermitAccounting, At
<1>b. ASSUME NEW c \in Caller, pc[c] \in Permitted PROVE permits - 1 \in 0 .. MaxConn
  <2>1. permits >= 1
    BY <1>a, <1>b, SomebodyCounted
  <2>. QED BY <1>a, <2>1
<1>1. ASSUME NEW c \in Caller, GetConnContext(c) \/ GiveUp(c) \/ NoIdle(c)
      PROVE TypeOK'
  BY <1>a, <1>1 DEF GetConnContext, GiveUp, NoIdle
<1>2. ASSUME NEW c \in Caller, Acquire(c) PROVE TypeOK'
  BY <1>a, <1>2 DEF Acquire
<1>3. ASSUME NEW c \in Caller, TakeIdle(c) PROVE TypeOK'
  <2>1. Head(idle) \in Conn /\ idle' \in Seq(Conn) /\ Len(idle') <= MaxConn
    BY <1>a, <1>3, TailIdle DEF TakeIdle
  <2>. QED BY <1>a, <1>3, <2>1 DEF TakeIdle
<1>4. ASSUME NEW c \in Caller, RetireIdle(c) PROVE TypeOK'
  <2>1. idle' \in Seq(Conn) /\ Len(idle') <= MaxConn
    BY <1>a, <1>4, TailIdle DEF RetireIdle
  <2>. QED BY <1>a, <1>4, <2>1 DEF RetireIdle
<1>5. ASSUME NEW c \in Caller, DialOK(c) PROVE TypeOK'
  BY <1>a, <1>5 DEF DialOK
<1>6. ASSUME NEW c \in Caller, DialFail(c) \/ EnterClosed(c) PROVE TypeOK'
  BY <1>a, <1>b, <1>6 DEF DialFail, EnterClosed, Permitted
<1>7. ASSUME NEW c \in Caller, Enter(c) PROVE TypeOK'
  BY <1>a, <1>7 DEF Enter
<1>8. ASSUME NEW c \in Caller, NEW reuse \in BOOLEAN, Release(c, reuse) PROVE TypeOK'
  BY <1>a, <1>b, <1>8 DEF Release, Permitted
<1>9. ASSUME NEW c \in Caller, Settle(c) PROVE TypeOK'
  <2>1. idle' \in Seq(Conn) /\ Len(idle') <= MaxConn
    <3>1. CASE Dropped(c)
      BY <1>a, <1>9, <3>1 DEF Settle
    <3>2. CASE ~Dropped(c)
      <4>1. conn[c] \in Conn \ IdleSet /\ idle' = Append(idle, conn[c])
        BY <1>a, <1>9, <3>2 DEF Settle, Distinct
      <4>2. idle' \in Seq(Conn) /\ Len(idle') = Len(idle) + 1
        BY <1>a, <4>1, AppendIdle
      <4>3. Len(idle) # MaxConn
        BY <3>2 DEF Dropped
      <4>. QED BY <1>a, <4>2, <4>3
    <3>. QED BY <3>1, <3>2
  <2>. QED BY <1>a, <1>9, <2>1 DEF Settle
<1>10. ASSUME NEW c \in Caller, CtxEnds(c) \/ NewCtx(c) PROVE TypeOK'
  BY <1>a, <1>10 DEF CtxEnds, NewCtx
<1>11. ASSUME NEW x \in firing, AfterFunc(x) PROVE TypeOK'
  BY <1>a, <1>11 DEF AfterFunc
<1>12. CASE Close
  <2>1. <<>> \in Seq(Conn) /\ Len(<<>>) = 0
    OBVIOUS
  <2>. QED BY <1>a, <1>12, <2>1 DEF Close
<1>13. CASE UNCHANGED vars
  BY <1>a, <1>13 DEF vars
<1>. QED
  BY <1>1, <1>2, <1>3, <1>4, <1>5, <1>6, <1>7, <1>8, <1>9, <1>10, <1>11, <1>12, <1>13
     DEF Next, Search, Dial, Lend, Finish

\* Permits are taken and given back exactly by the callers that enter and leave
\* the places between acquisition and release.
LEMMA NextPermits ==
    ASSUME IInv, [Next]_vars
    PROVE  PermitAccounting'
<1>a. TypeOK /\ permits \in Nat /\ permits = Cardinality(At(Permitted))
  BY DEF IInv, PermitAccounting, TypeOK, At
<1>b. TypeOK'
  BY NextTypeOK
<1>. SUFFICES permits' = Cardinality(At(Permitted)')
  BY <1>b DEF PermitAccounting, At
<1>c. ASSUME NEW c \in Caller, NEW p, Goto(c, p)
      PROVE /\ Cardinality(At(Permitted)') =
                 permits + (IF p \in Permitted THEN 1 ELSE 0)
                         - (IF pc[c] \in Permitted THEN 1 ELSE 0)
  BY <1>a, <1>c, CallersCounted DEF Goto
<1>d. ASSUME UNCHANGED <<pc, permits>> PROVE permits' = Cardinality(At(Permitted)')
  BY <1>a, <1>d DEF At
<1>1. ASSUME NEW c \in Caller,
             GetConnContext(c) \/ Acquire(c) \/ GiveUp(c) \/ TakeIdle(c) \/ NoIdle(c)
      PROVE permits' = Cardinality(At(Permitted)')
  BY <1>a, <1>c, <1>1
     DEF GetConnContext, Acquire, GiveUp, TakeIdle, NoIdle, Permitted
<1>2. ASSUME NEW c \in Caller, Dial(c) \/ Lend(c) \/ Finish(c)
      PROVE permits' = Cardinality(At(Permitted)')
  BY <1>a, <1>c, <1>2
     DEF Dial, DialOK, DialFail, Lend, Enter, EnterClosed, Finish, Release, Settle,
         Permitted, Releasing
<1>. QED
  BY <1>1, <1>2, <1>d
     DEF Next, Search, RetireIdle, CtxEnds, NewCtx, AfterFunc, Close, vars

\* One release at a time, and lent sockets are in p.borrowed.
LEMMA NextMutex ==
    ASSUME IInv, [Next]_vars
    PROVE  MutexInv' /\ BorrowedInv'
<1>. USE DEF MutexInv, BorrowedInv, Releasing, muFree, Goto
<1>a. /\ pc \in [Caller -> Place] /\ conn \in [Caller -> Conn \cup {NoConn}]
      /\ \A c \in Caller : pc[c] = "using" => conn[c] # NoConn
      /\ MutexInv /\ BorrowedInv /\ Distinct
  BY DEF IInv, PermitAccounting, TypeOK, Holding
<1>1. ASSUME NEW c \in Caller,
             GetConnContext(c) \/ Acquire(c) \/ GiveUp(c) \/ Search(c)
      PROVE MutexInv' /\ BorrowedInv'
  BY <1>a, <1>1 DEF GetConnContext, Acquire, GiveUp, Search, TakeIdle, RetireIdle, NoIdle
<1>2. ASSUME NEW c \in Caller, Dial(c) \/ Lend(c)
      PROVE MutexInv' /\ BorrowedInv'
  BY <1>a, <1>2 DEF Dial, DialOK, DialFail, Lend, Enter, EnterClosed
<1>3. ASSUME NEW c \in Caller, NEW reuse \in BOOLEAN, Release(c, reuse)
      PROVE MutexInv' /\ BorrowedInv'
  BY <1>a, <1>3 DEF Release, Distinct
<1>4. ASSUME NEW c \in Caller, Settle(c) PROVE MutexInv' /\ BorrowedInv'
  BY <1>a, <1>4 DEF Settle
<1>5. ASSUME UNCHANGED <<pc, conn, borrowed>> PROVE MutexInv' /\ BorrowedInv'
  BY <1>a, <1>5
<1>. QED
  BY <1>1, <1>2, <1>3, <1>4, <1>5
     DEF Next, Finish, CtxEnds, NewCtx, AfterFunc, Close, vars

\* A socket is never in two places: a dial makes a new one, and the others only
\* change hands.
LEMMA NextDistinct ==
    ASSUME IInv, [Next]_vars
    PROVE  Distinct'
<1>. USE PoolConstants DEF Goto
<1>a. /\ TypeOK /\ Distinct /\ pc \in [Caller -> Place]
      /\ conn \in [Caller -> Conn \cup {NoConn}] /\ IdleSet \subseteq Conn
      /\ \A c \in Caller : conn[c] = NoConn <=> pc[c] \notin Holding
  BY DEF IInv, PermitAccounting, TypeOK, IdleSet
<1>b. ASSUME UNCHANGED <<conn, idle>> PROVE Distinct'
  BY <1>a, <1>b DEF Distinct, IdleSet
<1>c. ASSUME NEW c \in Caller, conn' = [conn EXCEPT ![c] = NoConn], UNCHANGED idle
      PROVE Distinct'
  <2>1. IdleSet' = IdleSet
    BY <1>c DEF IdleSet
  <2>. QED BY <1>a, <1>c, <2>1 DEF Distinct
<1>1. ASSUME NEW c \in Caller, TakeIdle(c) PROVE Distinct'
  <2>1. /\ Head(idle) \in IdleSet /\ IdleSet' = IdleSet \ {Head(idle)}
        /\ \A j, k \in DOMAIN idle' : idle'[j] = idle'[k] => j = k
    BY <1>a, <1>1, TailIdle DEF TakeIdle
  <2>2. conn' = [conn EXCEPT ![c] = Head(idle)]
    BY <1>1 DEF TakeIdle
  <2>. QED BY <1>a, <2>1, <2>2 DEF Distinct
<1>2. ASSUME NEW c \in Caller, RetireIdle(c) PROVE Distinct'
  <2>1. /\ IdleSet' = IdleSet \ {Head(idle)}
        /\ \A j, k \in DOMAIN idle' : idle'[j] = idle'[k] => j = k
    BY <1>a, <1>2, TailIdle DEF RetireIdle
  <2>. QED BY <1>a, <1>2, <2>1 DEF RetireIdle, Distinct
<1>3. ASSUME NEW c \in Caller, DialOK(c) PROVE Distinct'
  <2>1. PICK x \in Conn \ (IdleSet \cup HeldBy(Holding)) :
           conn' = [conn EXCEPT ![c] = x]
    BY <1>3 DEF DialOK
  <2>2. \A d \in Caller : conn[d] # x
    BY <1>a, <2>1 DEF HeldBy
  <2>3. IdleSet' = IdleSet /\ idle' = idle
    BY <1>3 DEF DialOK, IdleSet
  <2>. QED BY <1>a, <2>1, <2>2, <2>3 DEF Distinct
<1>4. ASSUME NEW c \in Caller, EnterClosed(c) PROVE Distinct'
  BY <1>4, <1>c DEF EnterClosed
<1>5. ASSUME NEW c \in Caller, Settle(c) PROVE Distinct'
  <2>1. CASE Dropped(c)
    BY <1>5, <1>c, <2>1 DEF Settle
  <2>2. CASE ~Dropped(c)
    <3>1. /\ conn[c] \in Conn \ IdleSet /\ idle' = Append(idle, conn[c])
          /\ conn' = [conn EXCEPT ![c] = NoConn]
      BY <1>a, <1>5, <2>2 DEF Settle, Distinct, Holding
    <3>2. /\ IdleSet' = IdleSet \cup {conn[c]}
          /\ \A j, k \in DOMAIN idle' : idle'[j] = idle'[k] => j = k
      BY <1>a, <3>1, AppendIdle
    <3>3. \A d \in Caller : d # c => conn[d] # conn[c]
      BY <1>a, <3>1 DEF Distinct
    <3>. QED BY <1>a, <3>1, <3>2, <3>3 DEF Distinct
  <2>. QED BY <2>1, <2>2
<1>6. CASE Close
  <2>1. idle' = <<>> /\ IdleSet' = {} /\ conn' = conn
    BY <1>6 DEF Close, IdleSet
  <2>. QED BY <1>a, <2>1 DEF Distinct
<1>. QED
  BY <1>1, <1>2, <1>3, <1>4, <1>5, <1>6, <1>b
     DEF Next, GetConnContext, Acquire, GiveUp, Search, NoIdle, Dial, DialFail, Lend,
         Enter, Finish, Release, CtxEnds, NewCtx, AfterFunc, vars

\* A caller dials only when no socket is idle, and then those that dial or hold
\* one are those with a permit and the one in release.
LEMMA NextBounded ==
    ASSUME IInv, [Next]_vars
    PROVE  Bounded'
<1>a. /\ TypeOK /\ Distinct /\ MaxConn \in Nat /\ Len(idle) \in Nat
      /\ permits = Cardinality(At(Permitted)) /\ permits <= MaxConn
      /\ Cardinality(At(Connected)) + Len(idle) <= MaxConn + 1
  BY PoolConstants DEF IInv, PermitAccounting, TypeOK, At, Bounded
<1>. SUFFICES Cardinality(At(Connected)') + Len(idle') <= MaxConn + 1
  BY DEF Bounded, At
<1>b. ASSUME NEW c \in Caller, NEW p, Goto(c, p)
      PROVE /\ Cardinality(At(Connected)) \in Nat /\ Cardinality(At(Connected)') \in Nat
            /\ Cardinality(At(Connected)') =
                  Cardinality(At(Connected)) + (IF p \in Connected THEN 1 ELSE 0)
                                                        - (IF pc[c] \in Connected THEN 1 ELSE 0)
  BY <1>a, <1>b, CallersCounted DEF Goto
<1>c. ASSUME UNCHANGED <<pc, idle>>
      PROVE Cardinality(At(Connected)') + Len(idle') <= MaxConn + 1
  BY <1>a, <1>c DEF At
<1>d. Cardinality(At(Connected)) \in Nat
  <2>1. IsFiniteSet(At(Connected))
    BY FS_Subset, PoolConstants DEF At
  <2>. QED BY <2>1, FS_CardinalityType
<1>1. ASSUME NEW c \in Caller, GetConnContext(c) \/ Acquire(c) \/ GiveUp(c)
      PROVE Cardinality(At(Connected)') + Len(idle') <= MaxConn + 1
  <2>1. Cardinality(At(Connected)') = Cardinality(At(Connected))
    BY <1>b, <1>1 DEF GetConnContext, Acquire, GiveUp, Connected, Holding, Releasing
  <2>2. idle' = idle
    BY <1>1 DEF GetConnContext, Acquire, GiveUp
  <2>. QED BY <1>a, <2>1, <2>2
<1>2. ASSUME NEW c \in Caller, TakeIdle(c)
      PROVE Cardinality(At(Connected)') + Len(idle') <= MaxConn + 1
  <2>1. Len(idle') = Len(idle) - 1
    BY <1>a, <1>2, TailIdle DEF TakeIdle
  <2>. QED BY <1>a, <1>b, <1>2, <2>1 DEF TakeIdle, Connected, Holding, Releasing
<1>3. ASSUME NEW c \in Caller, RetireIdle(c)
      PROVE Cardinality(At(Connected)') + Len(idle') <= MaxConn + 1
  <2>1. Len(idle') = Len(idle) - 1 /\ At(Connected)' = At(Connected)
    BY <1>a, <1>3, TailIdle DEF RetireIdle, At
  <2>. QED BY <1>a, <1>d, <2>1
<1>4. ASSUME NEW c \in Caller, NoIdle(c)
      PROVE Cardinality(At(Connected)') + Len(idle') <= MaxConn + 1
  <2>. DEFINE R == At(Releasing)
              P == At(Permitted)
  <2>1. IsFiniteSet(P) /\ IsFiniteSet(R) /\ IsFiniteSet(P \cup R)
    BY FS_Subset, PoolConstants DEF At
  <2>2. Cardinality(R) <= 1 /\ Cardinality(R) \in Nat
    <3>1. ASSUME NEW r \in R PROVE R = {r}
      BY <3>1 DEF At, IInv, MutexInv
    <3>. HIDE DEF R
    <3>. QED BY <3>1, FS_EmptySet, FS_Singleton
  <2>3. /\ Cardinality(P) \in Nat /\ Cardinality(P \cup R) \in Nat
        /\ Cardinality(P \cap R) \in Nat
        /\ Cardinality(P \cup R) = Cardinality(P) + Cardinality(R) - Cardinality(P \cap R)
    <3>1. IsFiniteSet(P \cap R)
      BY <2>1, FS_Subset
    <3>. HIDE DEF P, R
    <3>. QED BY <2>1, <3>1, FS_Union, FS_CardinalityType
  <2>4. At(Connected)' \subseteq P \cup R
    BY <1>a, <1>4
       DEF NoIdle, Goto, At, Connected, Holding, Permitted, Releasing, TypeOK
  <2>5. Cardinality(At(Connected)') <= Cardinality(P \cup R)
    BY <2>1, <2>4, FS_Subset
  <2>6. Len(idle') = 0
    BY <1>4 DEF NoIdle
  <2>. QED BY <1>a, <1>b, <1>4, <2>2, <2>3, <2>5, <2>6 DEF NoIdle
<1>5. ASSUME NEW c \in Caller, Dial(c) \/ Lend(c)
      PROVE Cardinality(At(Connected)') + Len(idle') <= MaxConn + 1
  BY <1>a, <1>b, <1>5
     DEF Dial, DialOK, DialFail, Lend, Enter, EnterClosed, Connected, Holding, Releasing
<1>6. ASSUME NEW c \in Caller, NEW reuse \in BOOLEAN, Release(c, reuse)
      PROVE Cardinality(At(Connected)') + Len(idle') <= MaxConn + 1
  BY <1>a, <1>b, <1>6 DEF Release, Connected, Holding, Releasing
<1>7. ASSUME NEW c \in Caller, Settle(c)
      PROVE Cardinality(At(Connected)') + Len(idle') <= MaxConn + 1
  <2>1. Len(idle') <= Len(idle) + 1 /\ Len(idle') \in Nat
    BY <1>a, <1>7 DEF Settle, TypeOK
  <2>2. Cardinality(At(Connected)') = Cardinality(At(Connected)) - 1
    BY <1>b, <1>7 DEF Settle, Connected, Holding, Releasing
  <2>. QED BY <1>a, <1>d, <2>1, <2>2
<1>8. CASE Close
  <2>1. Len(idle') = 0 /\ At(Connected)' = At(Connected)
    BY <1>8 DEF Close, At
  <2>. QED BY <1>a, <1>d, <2>1
<1>. QED
  BY <1>1, <1>2, <1>3, <1>4, <1>5, <1>6, <1>7, <1>8, <1>c
     DEF Next, Search, Finish, CtxEnds, NewCtx, AfterFunc, vars

\* Open sockets are idle or held; Close reaches all but fresh dials, and those
\* are closed when their caller finds the pool closed.
LEMMA NextNoLeak ==
    ASSUME IInv, [Next]_vars
    PROVE  NoLeak'
<1>. USE DEF Goto
<1>a. /\ TypeOK /\ Distinct /\ NoLeak /\ BorrowedInv
      /\ pc \in [Caller -> Place] /\ conn \in [Caller -> Conn \cup {NoConn}]
      /\ \A c \in Caller : conn[c] = NoConn <=> pc[c] \notin Holding
      /\ \A c, d \in Caller : c # d /\ conn[c] # NoConn => conn[c] # conn[d]
  BY DEF IInv, PermitAccounting, TypeOK, Distinct
<1>1. ASSUME NEW c \in Caller,
             GetConnContext(c) \/ Acquire(c) \/ GiveUp(c) \/ NoIdle(c) \/ DialFail(c)
      PROVE NoLeak'
  <2>1. IdleSet' = IdleSet /\ open' = open /\ idle' = idle /\ closed' = closed
    BY <1>1 DEF GetConnContext, Acquire, GiveUp, NoIdle, DialFail, IdleSet
  <2>2. /\ HeldBy(Holding) \subseteq HeldBy(Holding)'
        /\ HeldBy({"got"}) \subseteq HeldBy({"got"})'
    BY <1>1, <1>a
       DEF GetConnContext, Acquire, GiveUp, NoIdle, DialFail, HeldBy, Holding, Releasing
  <2>. QED BY <1>a, <2>1, <2>2 DEF NoLeak
<1>2. ASSUME NEW c \in Caller, TakeIdle(c) PROVE NoLeak'
  <2>1. IdleSet' = IdleSet \ {Head(idle)}
    BY <1>a, <1>2, TailIdle DEF TakeIdle
  <2>2. HeldBy(Holding) \cup {Head(idle)} \subseteq HeldBy(Holding)'
    BY <1>2, <1>a DEF TakeIdle, HeldBy, Holding, Releasing
  <2>. QED BY <1>a, <1>2, <2>1, <2>2 DEF NoLeak, TakeIdle
<1>3. ASSUME NEW c \in Caller, RetireIdle(c) PROVE NoLeak'
  <2>1. IdleSet' = IdleSet \ {Head(idle)}
    BY <1>a, <1>3, TailIdle DEF RetireIdle
  <2>2. HeldBy(Holding)' = HeldBy(Holding)
    BY <1>3 DEF RetireIdle, HeldBy
  <2>. QED BY <1>a, <1>3, <2>1, <2>2 DEF NoLeak, RetireIdle
<1>4. ASSUME NEW c \in Caller, DialOK(c) PROVE NoLeak'
  <2>1. PICK x \in Conn : conn' = [conn EXCEPT ![c] = x] /\ open' = open \cup {x}
    BY <1>4 DEF DialOK
  <2>2. IdleSet' = IdleSet /\ idle' = idle /\ closed' = closed
    BY <1>4 DEF DialOK, IdleSet
  <2>3. /\ HeldBy(Holding) \cup {x} \subseteq HeldBy(Holding)'
        /\ HeldBy({"got"}) \cup {x} \subseteq HeldBy({"got"})'
    BY <1>4, <1>a, <2>1 DEF DialOK, HeldBy, Holding, Releasing
  <2>. QED BY <1>a, <2>1, <2>2, <2>3 DEF NoLeak
<1>5. ASSUME NEW c \in Caller, EnterClosed(c) PROVE NoLeak'
  <2>1. /\ IdleSet' = IdleSet /\ idle' = idle /\ closed' = closed
        /\ open' = open \ {conn[c]}
    BY <1>5 DEF EnterClosed, IdleSet
  <2>2. /\ HeldBy(Holding) \ {conn[c]} \subseteq HeldBy(Holding)'
        /\ HeldBy({"got"}) \ {conn[c]} \subseteq HeldBy({"got"})'
    BY <1>5, <1>a DEF EnterClosed, HeldBy
  <2>. QED BY <1>a, <2>1, <2>2 DEF NoLeak
<1>6. ASSUME NEW c \in Caller, Enter(c) \/ \E reuse \in BOOLEAN : Release(c, reuse)
      PROVE NoLeak'
  <2>1. IdleSet' = IdleSet /\ idle' = idle /\ closed' = closed /\ open' = open
    BY <1>6 DEF Enter, Release, IdleSet
  <2>2. HeldBy(Holding) \subseteq HeldBy(Holding)'
    BY <1>6, <1>a DEF Enter, Release, HeldBy, Holding, Releasing
  <2>3. closed => HeldBy({"got"}) \subseteq HeldBy({"got"})'
    BY <1>6, <1>a DEF Enter, Release, HeldBy
  <2>. QED BY <1>a, <2>1, <2>2, <2>3 DEF NoLeak
<1>7. ASSUME NEW c \in Caller, Settle(c) PROVE NoLeak'
  <2>1. /\ HeldBy(Holding) \ {conn[c]} \subseteq HeldBy(Holding)'
        /\ HeldBy({"got"}) \subseteq HeldBy({"got"})'
        /\ closed' = closed
    BY <1>7, <1>a DEF Settle, HeldBy, Releasing
  <2>2. CASE Dropped(c)
    <3>1. IdleSet' = IdleSet /\ idle' = idle /\ open' = open \ {conn[c]}
      BY <1>7, <2>2 DEF Settle, IdleSet
    <3>. QED BY <1>a, <2>1, <3>1 DEF NoLeak
  <2>3. CASE ~Dropped(c)
    <3>1. /\ conn[c] \in Conn \ IdleSet /\ idle' = Append(idle, conn[c])
          /\ open' = open /\ ~closed
      BY <1>a, <1>7, <2>3 DEF Settle, Dropped, Distinct, Holding
    <3>2. IdleSet' = IdleSet \cup {conn[c]}
      BY <1>a, <3>1, AppendIdle
    <3>. QED BY <1>a, <2>1, <3>1, <3>2 DEF NoLeak
  <2>. QED BY <2>2, <2>3
<1>8. CASE Close
  <2>1. /\ idle' = <<>> /\ open' = open \ (borrowed \cup IdleSet)
        /\ HeldBy({"got"})' = HeldBy({"got"}) /\ HeldBy(Holding)' = HeldBy(Holding)
    BY <1>8 DEF Close, HeldBy
  <2>2. HeldBy(Holding) \subseteq HeldBy({"got"}) \cup borrowed
    BY <1>8, <1>a DEF Close, muFree, HeldBy, Holding, BorrowedInv
  <2>3. HeldBy({"got"}) \subseteq HeldBy(Holding)
    BY DEF HeldBy, Holding
  <2>. QED BY <1>a, <2>1, <2>2, <2>3 DEF NoLeak
<1>9. ASSUME UNCHANGED <<pc, conn, idle, closed>>, open' \subseteq open PROVE NoLeak'
  <2>1. /\ HeldBy({"got"})' = HeldBy({"got"}) /\ HeldBy(Holding)' = HeldBy(Holding)
        /\ IdleSet' = IdleSet
    BY <1>9 DEF HeldBy, IdleSet
  <2>. QED BY <1>a, <1>9, <2>1 DEF NoLeak
<1>. QED
  BY <1>1, <1>2, <1>3, <1>4, <1>5, <1>6, <1>7, <1>8, <1>9
     DEF Next, Search, Dial, Lend, Finish, CtxEnds, NewCtx, AfterFunc, vars

-----------------------------------------------------------------------------
\* The inductive invariant holds in every behaviour of the pool.
THEOREM PoolInvariant == Spec => []IInv
<1>1. Init => IInv
  <2>. SUFFICES ASSUME Init PROVE IInv
    OBVIOUS
  <2>. <<>> \in Seq(Conn) /\ Len(<<>>) = 0 /\ DOMAIN <<>> = {} /\ 0 \in 0 .. MaxConn
    BY PoolConstants
  <2>1. TypeOK /\ MutexInv /\ BorrowedInv
    <3>1. pc \in [Caller -> Place] /\ conn \in [Caller -> Conn \cup {NoConn}]
      BY DEF Init, Place
    <3>2. \A c \in Caller : pc[c] = "out" /\ conn[c] = NoConn
      BY DEF Init
    <3>3. ctxDone \in [Caller -> BOOLEAN] /\ closed \in BOOLEAN
      BY Zenon DEF Init
    <3>4. permits \in 0 .. MaxConn /\ idle \in Seq(Conn) /\ Len(idle) <= MaxConn
      BY PoolConstants DEF Init
    <3>5. \A c \in Caller : conn[c] = NoConn <=> pc[c] \notin Holding
      BY <3>2 DEF Holding, Releasing
    <3>6. borrowed \subseteq Conn /\ open \subseteq Conn /\ firing \subseteq Conn
      BY DEF Init
    <3>7. TypeOK
      BY <3>1, <3>3, <3>4, <3>5, <3>6 DEF TypeOK
    <3>. QED BY <3>2, <3>7 DEF MutexInv, BorrowedInv, Releasing
  <2>2. At(Permitted) = {} /\ At(Connected) = {}
    BY DEF Init, At, Permitted, Connected, Holding, Releasing
  <2>3. PermitAccounting /\ Bounded
    <3>1. permits = Cardinality(At(Permitted)) /\ Bounded
      BY <2>2, FS_EmptySet, PoolConstants DEF Init, Bounded
    <3>. QED BY <2>1, <3>1 DEF PermitAccounting, At
  <2>4. Distinct /\ NoLeak
    BY PoolConstants DEF Init, Distinct, NoLeak, IdleSet, HeldBy
  <2>. QED BY <2>1, <2>3, <2>4 DEF IInv
<1>2. IInv /\ [Next]_vars => IInv'
  BY NextPermits, NextMutex, NextDistinct, NextBounded, NextNoLeak DEF IInv
<1>. QED BY <1>1, <1>2, PTL DEF Spec

\* Permits are held by exactly the callers between acquisition and release, for
\* any number of callers and permits.
THEOREM PermitsCounted == Spec => []PermitAccounting
<1>1. IInv => PermitAccounting
  BY DEF IInv
<1>. QED BY <1>1, PoolInvariant, PTL

\* No socket is shared or leaks, Close leaves none behind but fresh dials, and
\* an address has at most one socket more than maxPerConn.
THEOREM SocketsSafe == Spec => []SocketsAccounted
<1>1. IInv => SocketsAccounted
  BY DEF IInv, SocketsAccounted, Distinct, Bounded, NoLeak, At, Connected
<1>. QED BY <1>1, PoolInvariant, PTL

=============================================================================
