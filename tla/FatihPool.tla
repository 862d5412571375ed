----------------------------- MODULE FatihPool -----------------------------
(***************************************************************************)
(* The channel pool of fatih/pool: connections rest in a buffered channel; *)
(* Get takes one or dials, and there is no limit on how many are in use.   *)
(* Get reads the channel and the factory under the lock and uses them      *)
(* without it, so that a Close can come between; a channel that was closed *)
(* still hands out what is in it, to Get and to Close alike.               *)
(***************************************************************************)
EXTENDS Integers, FiniteSets, Sequences, Functions

CONSTANTS Threads,
          Conns,       \* connection identities; a closed one may be dialled again
          NoConn,
          InitialCap,  \* initialCap and maxCap of NewChannelPool
          MaxCap

ASSUME PoolAssumption ==
    /\ NoConn \notin Conns
    /\ InitialCap \in Nat /\ MaxCap \in Nat \ {0} /\ InitialCap =< MaxCap

VARIABLES
    ready,     \* NewChannelPool returned the pool, or is still to be called
    closed,    \* c.conns = nil
    conns,     \* what is in the channel
    chClosed,  \* the channel is closed
    drained,   \* Close has come to the end of its loop
    open,      \* the sockets that are open
    at,        \* where each goroutine is
    conn       \* the connection it has

vars == <<ready, closed, conns, chClosed, drained, open, at, conn>>

Places ==
    {"idle", "fill", "newDial", "newSend",          \* NewChannelPool
     "select", "dial",                              \* Get
     "use", "unusable", "full",                     \* a PoolConn, its Close
     "close", "closeChan", "drain", "drainClose"}   \* Pool.Close

Stages == {"no", "new", "yes"}

TypeOK ==
    /\ ready \in Stages
    /\ closed \in BOOLEAN /\ chClosed \in BOOLEAN /\ drained \in BOOLEAN
    /\ conns \in Seq(Conns) /\ Len(conns) =< MaxCap
    /\ open \subseteq Conns
    /\ at \in [Threads -> Places]
    /\ conn \in [Threads -> Conns \cup {NoConn}]

Init ==
    /\ ready = "no" /\ closed = FALSE
    /\ conns = << >> /\ chClosed = FALSE /\ drained = FALSE
    /\ open = {}
    /\ at = [t \in Threads |-> "idle"]
    /\ conn = [t \in Threads |-> NoConn]

-----------------------------------------------------------------------------
Move(t, from, to) == at[t] = from /\ at' = [at EXCEPT ![t] = to]
Hold(t, c) == conn' = [conn EXCEPT ![t] = c]
pool == <<ready, closed, conns, chClosed, drained>>

\* NewChannelPool dials InitialCap connections and sends each to the channel.
New(t) ==
    /\ ready = "no" /\ ready' = "new"
    /\ Move(t, "idle", "fill")
    /\ UNCHANGED <<closed, conns, chClosed, drained, open, conn>>

Fill(t) ==
    /\ Len(conns) < InitialCap
    /\ Move(t, "fill", "newDial")
    /\ UNCHANGED <<pool, open, conn>>

Filled(t) ==
    /\ Len(conns) = InitialCap
    /\ Move(t, "fill", "idle")
    /\ ready' = "yes"
    /\ UNCHANGED <<closed, conns, chClosed, drained, open, conn>>

\* The factory's dial: for Get and for NewChannelPool.
Dialled(t, from, to) ==
    /\ Move(t, from, to)
    /\ \E c \in Conns \ open : Hold(t, c) /\ open' = open \cup {c}
    /\ UNCHANGED pool

NewSend(t) ==
    /\ Move(t, "newSend", "fill")
    /\ conns' = Append(conns, conn[t])
    /\ Hold(t, NoConn)
    /\ UNCHANGED <<ready, closed, chClosed, drained, open>>

\* A dial that fails: NewChannelPool closes the pool, which nobody gets to see.
NewFails(t) ==
    /\ Move(t, "newDial", "close")
    /\ UNCHANGED <<pool, open, conn>>

-----------------------------------------------------------------------------
\* getConnsAndFactory, under the lock.  Of a closed pool Get returns ErrClosed.
GetStart(t) ==
    /\ ready = "yes" /\ ~closed
    /\ Move(t, "idle", "select")
    /\ UNCHANGED <<pool, open, conn>>

\* The select, with the channel that was read.
Receive(t) ==
    /\ conns # << >>
    /\ Move(t, "select", "use")
    /\ Hold(t, Head(conns))
    /\ conns' = Tail(conns)
    /\ UNCHANGED <<ready, closed, chClosed, drained, open>>

\* A closed channel gives nil: ErrClosed.
ReceiveNil(t) ==
    /\ conns = << >> /\ chClosed
    /\ Move(t, "select", "idle")
    /\ UNCHANGED <<pool, open, conn>>

\* Mutant of Default: Get asks whether the channel is empty, not whether it is closed.
DefaultWhenClosed(t) ==
    /\ conns = << >>
    /\ Move(t, "select", "dial")
    /\ UNCHANGED <<pool, open, conn>>

Default(t) ==
    /\ conns = << >> /\ ~chClosed
    /\ Move(t, "select", "dial")
    /\ UNCHANGED <<pool, open, conn>>

DialFails(t) ==
    /\ Move(t, "dial", "idle")
    /\ UNCHANGED <<pool, open, conn>>

-----------------------------------------------------------------------------
MarkUnusable(t) ==
    /\ Move(t, "use", "unusable")
    /\ UNCHANGED <<pool, open, conn>>

CloseSocket(t) ==
    /\ open' = open \ {conn[t]}
    /\ Hold(t, NoConn)

\* PoolConn.Close of a connection that was marked, or that found the pool full: in
\* the second case put still has the read lock.
CloseConn(t) ==
    /\ \E from \in {"unusable", "full"} : Move(t, from, "idle")
    /\ CloseSocket(t)
    /\ UNCHANGED pool

\* Mutant of Put: a full channel grows.
PutGrows(t) ==
    /\ ~closed
    /\ Move(t, "use", "idle")
    /\ conns' = Append(conns, conn[t])
    /\ Hold(t, NoConn)
    /\ UNCHANGED <<ready, closed, chClosed, drained, open>>

\* put, under the read lock: into the channel, if there is one and it has room.
Put(t) ==
    /\ ~closed /\ Len(conns) < MaxCap
    /\ Move(t, "use", "idle")
    /\ conns' = Append(conns, conn[t])
    /\ Hold(t, NoConn)
    /\ UNCHANGED <<ready, closed, chClosed, drained, open>>

\* Mutant of PutFull: the connection is let go, but not closed.
PutFullLeaks(t) ==
    /\ closed \/ Len(conns) = MaxCap
    /\ Move(t, "use", "idle")
    /\ Hold(t, NoConn)
    /\ UNCHANGED <<pool, open>>

PutFull(t) ==
    /\ closed \/ Len(conns) = MaxCap
    /\ Move(t, "use", "full")
    /\ UNCHANGED <<pool, open, conn>>

-----------------------------------------------------------------------------
\* Pool.Close: the write lock waits for the readers; the second Close finds nil.
Close(t) ==
    /\ ~closed /\ \A u \in Threads : at[u] # "full"
    /\ \/ ready = "yes" /\ Move(t, "idle", "closeChan")
       \/ Move(t, "close", "closeChan")
    /\ closed' = TRUE
    /\ UNCHANGED <<ready, conns, chClosed, drained, open, conn>>

CloseChan(t) ==
    /\ Move(t, "closeChan", "drain")
    /\ chClosed' = TRUE
    /\ UNCHANGED <<ready, closed, conns, drained, open, conn>>

\* The loop over the channel ends when it is empty.
Drain(t) ==
    /\ conns # << >>
    /\ Move(t, "drain", "drainClose")
    /\ Hold(t, Head(conns))
    /\ conns' = Tail(conns)
    /\ UNCHANGED <<ready, closed, chClosed, drained, open>>

DrainClose(t) ==
    /\ Move(t, "drainClose", "drain")
    /\ CloseSocket(t)
    /\ UNCHANGED pool

Drained(t) ==
    /\ conns = << >>
    /\ Move(t, "drain", "idle")
    /\ drained' = TRUE
    /\ UNCHANGED <<ready, closed, conns, chClosed, open, conn>>

-----------------------------------------------------------------------------
\* The steps of a call in progress, the application's return included.
Progress(t) ==
    \/ Fill(t) \/ Filled(t) \/ NewSend(t) \/ NewFails(t)
    \/ Dialled(t, "newDial", "newSend") \/ Dialled(t, "dial", "use")
    \/ Receive(t) \/ ReceiveNil(t) \/ Default(t) \/ DialFails(t)
    \/ MarkUnusable(t) \/ CloseConn(t) \/ Put(t) \/ PutFull(t)
    \/ CloseChan(t) \/ Drain(t) \/ DrainClose(t) \/ Drained(t)

Next == \E t \in Threads : New(t) \/ GetStart(t) \/ Close(t) \/ Progress(t)

Spec == Init /\ [][Next]_vars

\* Calls go on, connections in use are closed by the application, and the close of a
\* socket and a dial return.
FairSpec == Spec /\ \A t \in Threads : WF_vars(Progress(t))

-----------------------------------------------------------------------------
\* No socket is lost, and none that is kept or used was closed: what is open is in the
\* channel or with one goroutine, also when put finds the channel full or the pool
\* closed, and while Pool.Close empties the channel beside a Get.
NoSocketLost == open = Range(conns) \cup ({conn[t] : t \in Threads} \ {NoConn})

\* A closed pool ends with every connection closed, whatever a Get that began before
\* took from the channel while Close emptied it, or dialled.
CloseReleasesAll == closed ~> [](open = {})

\* The pool implements the abstract one, which is shut when Close has emptied the
\* channel: until then a Get may take what is left.
Promise == INSTANCE ConnPool WITH
    Clients <- Threads,
    Limit <- 0,
    pooled <- Range(conns),
    held <- [t \in Threads |-> {conn[t]} \ {NoConn}],
    dialing <- {t \in Threads : at[t] \in {"newDial", "dial"}},
    shut <- drained

ImplementsConnPool == Promise!Spec

-----------------------------------------------------------------------------
\* The inductive strengthening.  NewChannelPool runs alone; Close runs once, and the
\* channel is closed after the pool and empty when Close is done.
NewInv ==
    /\ ready = "no" => ~closed /\ \A t \in Threads : at[t] = "idle"
    /\ \A t \in Threads :
          at[t] \in {"fill", "newDial", "newSend", "close"} =>
             /\ ready = "new" /\ ~closed
             /\ \A u \in Threads \ {t} : at[u] = "idle"
    /\ \A t \in Threads :
          at[t] \in {"select", "dial", "use", "unusable", "full"} => ready = "yes"
    /\ ready # "yes" => Len(conns) =< InitialCap
    /\ \A t \in Threads : at[t] \in {"newDial", "newSend"} => Len(conns) < InitialCap

Closing == {"closeChan", "drain", "drainClose"}
CloseInv ==
    /\ chClosed => closed
    /\ drained => chClosed /\ conns = << >>
    /\ \A t \in Threads :
          at[t] \in Closing =>
             /\ closed /\ ~drained /\ (at[t] # "closeChan" => chClosed)
             /\ \A u \in Threads \ {t} : at[u] \notin Closing

\* A goroutine has a connection at the points where the code uses one.  Connections
\* in the channel and in hand are all different, and open.
Using == {"newSend", "use", "unusable", "full", "drainClose"}
ConnInv ==
    /\ \A t \in Threads : at[t] \in Using <=> conn[t] # NoConn
    /\ \A i, j \in DOMAIN conns : conns[i] = conns[j] => i = j
    /\ Range(conns) \subseteq open
    /\ \A t \in Threads : conn[t] # NoConn => conn[t] \in open \ Range(conns)
    /\ \A t, u \in Threads : conn[t] = conn[u] /\ conn[t] # NoConn => t = u

FatihInv == TypeOK /\ NewInv /\ CloseInv /\ ConnInv
=============================================================================
