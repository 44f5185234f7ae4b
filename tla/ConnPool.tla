------------------------------ MODULE ConnPool ------------------------------
(***************************************************************************)
(* pkg/conn_pool: the connections of one address, lent to the goroutines   *)
(* of a GspSdk by borrow (internal/gsp_sdk/client/receiver.go).  A permit  *)
(* channel bounds the borrowers, an idle channel keeps sockets for reuse;  *)
(* only GetConnContext's first and last sections, release and Close run    *)
(* under p.mu.  borrow also arms a context.AfterFunc that closes the       *)
(* socket when the caller's context ends, and disarms it when done: a      *)
(* callback that has started is not waited for.                            *)
(***************************************************************************)
EXTENDS Naturals, Sequences, FiniteSets

CONSTANTS
    Caller,   \* goroutines that use the address
    Conn,     \* identities of sockets; one is reused once nothing refers to it
    NoConn,
    MaxConn   \* maxPerConn

ASSUME PoolConstants ==
    /\ NoConn \notin Conn
    /\ MaxConn \in Nat \ {0}
    /\ IsFiniteSet(Caller)

VARIABLES
    pc,       \* where each caller is
    conn,     \* the socket it holds
    ctxDone,  \* its context has ended
    permits,  \* len(b.permits)
    idle,     \* b.idle
    borrowed, \* keys of p.borrowed
    closed,   \* p.closed, and p.done closed
    open,     \* sockets not closed on this side
    firing    \* sockets that a started AfterFunc is about to close

vars == <<pc, conn, ctxDone, permits, idle, borrowed, closed, open, firing>>

\* "putting", "dropping": inside release, permit given back, p.mu held.
Place == {"out", "wait", "search", "dial", "got", "using", "putting", "dropping"}
Releasing == {"putting", "dropping"}
Holding == {"got", "using"} \cup Releasing
Permitted == {"search", "dial", "got", "using"}

IdleSet == {idle[k] : k \in DOMAIN idle}
HeldBy(S) == {conn[c] : c \in {d \in Caller : pc[d] \in S}}

\* p.mu: the sections that take it are single steps, but for release.
muFree == \A c \in Caller : pc[c] \notin Releasing

(***************************************************************************)
(* The one type invariant: the channels never hold more than maxPerConn    *)
(* entries, and exactly the callers past a dial or a reuse hold a socket.  *)
(***************************************************************************)
TypeOK ==
    /\ pc \in [Caller -> Place]
    /\ conn \in [Caller -> Conn \cup {NoConn}]
    /\ ctxDone \in [Caller -> BOOLEAN]
    /\ permits \in 0 .. MaxConn
    /\ idle \in Seq(Conn) /\ Len(idle) <= MaxConn
    /\ borrowed \subseteq Conn
    /\ closed \in BOOLEAN
    /\ open \subseteq Conn
    /\ firing \subseteq Conn
    /\ \A c \in Caller : conn[c] = NoConn <=> pc[c] \notin Holding

Init ==
    /\ pc = [c \in Caller |-> "out"]
    /\ conn = [c \in Caller |-> NoConn]
    /\ ctxDone = [c \in Caller |-> FALSE]
    /\ permits = 0
    /\ idle = <<>>
    /\ borrowed = {}
    /\ closed = FALSE
    /\ open = {}
    /\ firing = {}

-----------------------------------------------------------------------------
(* GetConnContext *)

Goto(c, place) == pc' = [pc EXCEPT ![c] = place]

\* A closed pool refuses at once; otherwise the bucket is found or made.
GetConnContext(c) ==
    /\ pc[c] = "out" /\ muFree /\ ~closed
    /\ Goto(c, "wait")
    /\ UNCHANGED <<conn, ctxDone, permits, idle, borrowed, closed, open, firing>>

\* The select picks any ready case, so a permit may be taken after the context
\* ended or the pool closed.
Acquire(c) ==
    /\ pc[c] = "wait" /\ permits < MaxConn
    /\ permits' = permits + 1
    /\ Goto(c, "search")
    /\ UNCHANGED <<conn, ctxDone, idle, borrowed, closed, open, firing>>

GiveUp(c) ==
    /\ pc[c] = "wait" /\ (ctxDone[c] \/ closed)
    /\ Goto(c, "out")
    /\ UNCHANGED <<conn, ctxDone, permits, idle, borrowed, closed, open, firing>>

\* The oldest idle socket, if it is younger than maxIdleTime.
TakeIdle(c) ==
    /\ pc[c] = "search" /\ idle # <<>>
    /\ conn' = [conn EXCEPT ![c] = Head(idle)]
    /\ idle' = Tail(idle)
    /\ Goto(c, "got")
    /\ UNCHANGED <<ctxDone, permits, borrowed, closed, open, firing>>

\* It is older: close it and look again.
RetireIdle(c) ==
    /\ pc[c] = "search" /\ idle # <<>>
    /\ open' = open \ {Head(idle)}
    /\ idle' = Tail(idle)
    /\ UNCHANGED <<pc, conn, ctxDone, permits, borrowed, closed, firing>>

NoIdle(c) ==
    /\ pc[c] = "search" /\ idle = <<>>
    /\ Goto(c, "dial")
    /\ UNCHANGED <<conn, ctxDone, permits, idle, borrowed, closed, open, firing>>

\* DialContext fails once the context has ended.
DialOK(c) ==
    /\ pc[c] = "dial" /\ ~ctxDone[c]
    /\ \E x \in Conn \ (open \cup firing \cup borrowed \cup IdleSet
                          \cup HeldBy(Holding)) :
          /\ conn' = [conn EXCEPT ![c] = x]
          /\ open' = open \cup {x}
    /\ Goto(c, "got")
    /\ UNCHANGED <<ctxDone, permits, idle, borrowed, closed, firing>>

DialFailKeepingPermit(c) ==
    /\ pc[c] = "dial"
    /\ Goto(c, "out")
    /\ UNCHANGED <<conn, ctxDone, permits, idle, borrowed, closed, open, firing>>

DialFail(c) ==
    /\ pc[c] = "dial"
    /\ permits' = permits - 1
    /\ Goto(c, "out")
    /\ UNCHANGED <<conn, ctxDone, idle, borrowed, closed, open, firing>>

EnterKeepingPermit(c) ==
    /\ pc[c] = "got" /\ muFree /\ closed
    /\ open' = open \ {conn[c]}
    /\ conn' = [conn EXCEPT ![c] = NoConn]
    /\ Goto(c, "out")
    /\ UNCHANGED <<ctxDone, permits, idle, borrowed, closed, firing>>

\* The last section: the pool was closed meanwhile.
EnterClosed(c) ==
    /\ pc[c] = "got" /\ muFree /\ closed
    /\ open' = open \ {conn[c]}
    /\ permits' = permits - 1
    /\ conn' = [conn EXCEPT ![c] = NoConn]
    /\ Goto(c, "out")
    /\ UNCHANGED <<ctxDone, idle, borrowed, closed, firing>>

EnterUnchecked(c) ==
    /\ pc[c] = "got" /\ muFree
    /\ borrowed' = borrowed \cup {conn[c]}
    /\ firing' = IF ctxDone[c] THEN firing \cup {conn[c]} ELSE firing
    /\ Goto(c, "using")
    /\ UNCHANGED <<conn, ctxDone, permits, idle, closed, open>>

\* Otherwise the socket is lent, and borrow arms its AfterFunc, which starts
\* at once if the context has ended.
Enter(c) ==
    /\ pc[c] = "got" /\ muFree /\ ~closed
    /\ borrowed' = borrowed \cup {conn[c]}
    /\ firing' = IF ctxDone[c] THEN firing \cup {conn[c]} ELSE firing
    /\ Goto(c, "using")
    /\ UNCHANGED <<conn, ctxDone, permits, idle, closed, open>>

-----------------------------------------------------------------------------
(* finish and release *)

\* stop() disarms a callback that has not started; one that has stays in
\* firing, and its result is not looked at.  The permit goes back first, and
\* waiting callers take permits and idle sockets without p.mu.
Release(c, reuse) ==
    /\ pc[c] = "using" /\ muFree
    /\ borrowed' = borrowed \ {conn[c]}
    /\ permits' = permits - 1
    /\ Goto(c, IF reuse THEN "putting" ELSE "dropping")
    /\ UNCHANGED <<conn, ctxDone, idle, closed, open, firing>>

\* Discard, or PutConn on a closed pool or a socket closed meanwhile (then
\* SetDeadline fails), or with a full idle channel.
Dropped(c) ==
    \/ pc[c] = "dropping" \/ closed
    \/ conn[c] \notin open \/ Len(idle) = MaxConn

Settle(c) ==
    /\ pc[c] \in Releasing
    /\ IF Dropped(c)
         THEN open' = open \ {conn[c]} /\ idle' = idle
         ELSE open' = open /\ idle' = Append(idle, conn[c])
    /\ conn' = [conn EXCEPT ![c] = NoConn]
    /\ Goto(c, "out")
    /\ UNCHANGED <<ctxDone, permits, borrowed, closed, firing>>

-----------------------------------------------------------------------------
(* Contexts and Close *)

CtxEnds(c) ==
    /\ ~ctxDone[c]
    /\ ctxDone' = [ctxDone EXCEPT ![c] = TRUE]
    /\ firing' = IF pc[c] = "using" THEN firing \cup {conn[c]} ELSE firing
    /\ UNCHANGED <<pc, conn, permits, idle, borrowed, closed, open>>

\* The next exchange of the goroutine belongs to another task.
NewCtx(c) ==
    /\ pc[c] = "out" /\ ctxDone[c]
    /\ ctxDone' = [ctxDone EXCEPT ![c] = FALSE]
    /\ UNCHANGED <<pc, conn, permits, idle, borrowed, closed, open, firing>>

AfterFunc(x) ==
    /\ x \in firing
    /\ firing' = firing \ {x}
    /\ open' = open \ {x}
    /\ UNCHANGED <<pc, conn, ctxDone, permits, idle, borrowed, closed>>

Close ==
    /\ muFree /\ ~closed
    /\ closed' = TRUE
    /\ open' = open \ (borrowed \cup IdleSet)
    /\ idle' = <<>>
    /\ UNCHANGED <<pc, conn, ctxDone, permits, borrowed, firing>>

-----------------------------------------------------------------------------
Search(c) == TakeIdle(c) \/ RetireIdle(c) \/ NoIdle(c)
Dial(c) == DialOK(c) \/ DialFail(c)
Lend(c) == Enter(c) \/ EnterClosed(c)
Finish(c) == Settle(c) \/ \E reuse \in BOOLEAN : Release(c, reuse)

Next ==
    \/ \E c \in Caller :
          \/ GetConnContext(c) \/ Acquire(c) \/ GiveUp(c)
          \/ Search(c) \/ Dial(c) \/ Lend(c) \/ Finish(c)
          \/ CtxEnds(c) \/ NewCtx(c)
    \/ \E x \in firing : AfterFunc(x)
    \/ Close

\* Goroutines run; a dial ends within its four seconds and an exchange within
\* its deadline; a channel serves its waiting senders in order, so one that
\* waits while permits come back again and again gets one.
Fairness ==
    /\ \A c \in Caller :
          /\ SF_vars(Acquire(c)) /\ WF_vars(GiveUp(c))
          /\ WF_vars(Search(c)) /\ WF_vars(Dial(c))
          /\ WF_vars(Lend(c)) /\ WF_vars(Finish(c))
    /\ \A x \in Conn : WF_vars(AfterFunc(x))

Spec == Init /\ [][Next]_vars
FairSpec == Spec /\ Fairness

-----------------------------------------------------------------------------
(* Properties *)

\* A permit is held by exactly the callers that are between the acquisition in
\* GetConnContext and release: no error path keeps or returns one twice, so
\* "<-b.permits" under p.mu never blocks.
PermitAccounting ==
    /\ TypeOK
    /\ permits = Cardinality({c \in Caller : pc[c] \in Permitted})

\* A socket is in one place, with one caller or once in the idle channel, and
\* none leaks: an open one is idle or held, and after Close the only open ones
\* are fresh dials that have yet to find the pool closed.  "ConnPool bounds both
\* borrowed and idle connections per address": they exceed maxPerConn by at most
\* one, the socket whose permit release gave back before it reached the idle
\* channel, so that the next caller found that channel empty and dialled.
SocketsAccounted ==
    /\ \A c, d \in Caller :
          c # d /\ conn[c] # NoConn => conn[c] # conn[d]
    /\ \A c \in Caller : conn[c] \notin IdleSet
    /\ \A j, k \in DOMAIN idle : idle[j] = idle[k] => j = k
    /\ Cardinality({c \in Caller : pc[c] \in {"dial"} \cup Holding})
         + Len(idle) <= MaxConn + 1
    /\ open \subseteq IdleSet \cup HeldBy(Holding)
    /\ closed => open \subseteq HeldBy({"got"}) /\ idle = <<>>

\* A caller that waits for a permit gets one, or an error.
WaitersServed == \A c \in Caller : pc[c] = "wait" ~> pc[c] # "wait"

\* After Close every permit comes back and every socket is closed, dials under
\* way included.
CloseDrains == closed ~> (permits = 0 /\ open = {})

=============================================================================
