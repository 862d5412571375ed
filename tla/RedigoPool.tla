----------------------------- MODULE RedigoPool -----------------------------
(***************************************************************************)
(* The connection pool of redigo: Pool.Get, the put behind                 *)
(* activeConn.Close, and Pool.Close, run by several goroutines over one    *)
(* pool.  Everything between p.mu.Lock() and p.mu.Unlock() is one step,    *)
(* except the channel sends made under the lock, which have a step of      *)
(* their own because they could block; what a goroutine does unlocked (a   *)
(* dial, the close of a socket, TestOnBorrow, a channel receive) is a step *)
(* of its own.                                                             *)
(*                                                                         *)
(* A connection identity stands for an open socket and the poolConn around *)
(* it; once closed it may be dialled again.  Conns must be large enough    *)
(* that a dial always finds one: Cardinality(Threads) + MaxIdle suffices.  *)
(* Instead of the clock the model keeps ages, each capped just above the   *)
(* only value it is compared with.                                         *)
(***************************************************************************)
EXTENDS Integers, FiniteSets, SequencesExt

CONSTANTS Threads,          \* goroutines
          Conns,            \* sockets
          NoThread, NoConn,
          MaxActive,        \* limit on open connections, 0 for none
          MaxIdle,          \* limit on the idle list
          Wait,             \* BOOLEAN: Get waits when the pool is exhausted
          IdleTimeout,      \* in ticks, 0 for none
          MaxConnLifetime,  \* in ticks, 0 for none
          TestOnBorrow      \* BOOLEAN: the application supplied the check

ASSUME PoolAssumption ==
    /\ IsFiniteSet(Threads)
    /\ NoThread \notin Threads
    /\ NoConn \notin Conns
    /\ MaxActive \in Nat /\ MaxIdle \in Nat
    /\ IdleTimeout \in Nat /\ MaxConnLifetime \in Nat
    /\ Wait \in BOOLEAN /\ TestOnBorrow \in BOOLEAN

VARIABLES
    closed,         \* Pool.closed
    active,         \* Pool.active
    chInitialized,  \* Pool.chInitialized; p.ch # nil once it is set
    tokens,         \* number of values in the buffer of p.ch
    chClosed,       \* p.ch was closed
    idle,           \* Pool.idle, front first
    mu,             \* the goroutine that holds p.mu between two steps
    at,             \* where each goroutine is
    conn,           \* the pc each goroutine works on
    budget,         \* n - i of the prune loop in get
    detached,       \* Pool.Close: what is left of the list it closes
    open,           \* sockets that are open
    idleFor,        \* ticks since put stored poolConn.t
    age             \* ticks since poolConn.created

limits == <<chInitialized, tokens, chClosed>>
clocks == <<idleFor, age>>
vars == <<closed, active, limits, idle, mu, at, conn, budget, detached, open,
          clocks>>

\* Where a goroutine can be: outside; at the slow path of lazyInit; at <-p.ch;
\* at the first Lock of get; closing a stale connection, and at the Lock that
\* follows; testing an idle connection; at the Lock after that test failed;
\* dialling; using its connection; closing a connection in put, and at the Lock
\* that follows; at p.ch <- struct{}{}, holding p.mu; closing the idle
\* connections in Pool.Close.
Locations == {"out", "lazy", "recv", "lock", "prune", "pruned", "test",
              "failed", "dial", "use", "evict", "evicted", "send", "shut"}

\* Capped successor of an age.
Older(n, cap) == IF n < cap THEN n + 1 ELSE cap
IdleCap == IF IdleTimeout > 0 THEN IdleTimeout + 1 ELSE 0

TypeOK ==
    /\ closed \in BOOLEAN
    /\ active \in Int
    /\ chInitialized \in BOOLEAN /\ chClosed \in BOOLEAN
    /\ tokens \in Nat
    /\ idle \in Seq(Conns) /\ detached \in Seq(Conns)
    /\ mu \in Threads \cup {NoThread}
    /\ at \in [Threads -> Locations]
    /\ conn \in [Threads -> Conns \cup {NoConn}]
    /\ budget \in [Threads -> Nat]
    /\ open \in SUBSET Conns
    /\ idleFor \in [Conns -> 0..IdleCap]
    /\ age \in [Conns -> 0..MaxConnLifetime]

Init ==
    /\ closed = FALSE
    /\ active = 0
    /\ chInitialized = FALSE /\ tokens = 0 /\ chClosed = FALSE
    /\ idle = <<>> /\ detached = <<>>
    /\ mu = NoThread
    /\ at = [g \in Threads |-> "out"]
    /\ conn = [g \in Threads |-> NoConn]
    /\ budget = [g \in Threads |-> 0]
    /\ open = {}
    /\ idleFor = [c \in Conns |-> 0]
    /\ age = [c \in Conns |-> 0]

-----------------------------------------------------------------------------
\* Helpers: the lock, the clock and the steps several actions share.

Free == mu = NoThread
Limited == Wait /\ MaxActive > 0

Goto(g, l) == at' = [at EXCEPT ![g] = l]
Hold(g, c) == conn' = [conn EXCEPT ![g] = c]

Stale(c) == IdleTimeout > 0 /\ idleFor[c] > IdleTimeout
Expired(c) == MaxConnLifetime > 0 /\ age[c] >= MaxConnLifetime

\* pc.c.Close() on the connection the goroutine holds.
CloseSocket(g) ==
    /\ open' = open \ {conn[g]}
    /\ Hold(g, NoConn)
    /\ idleFor' = [idleFor EXCEPT ![conn[g]] = 0]
    /\ age' = [age EXCEPT ![conn[g]] = 0]

\* Mutant of Release: the test of p.closed is missing.
ReleaseWhenClosed(g) ==
    IF chInitialized
    THEN Goto(g, "send") /\ mu' = g
    ELSE Goto(g, "out") /\ UNCHANGED mu

\* `if p.ch != nil && !p.closed { p.ch <- struct{}{} }` before an Unlock.
Release(g) ==
    IF chInitialized /\ ~closed
    THEN Goto(g, "send") /\ mu' = g
    ELSE Goto(g, "out") /\ UNCHANGED mu

\* Mutant of MayPrune: the loop goes on while the back of the list is stale.
MayPruneUnbounded(n) == idle # <<>> /\ Stale(Last(idle))

\* One more turn of the loop that prunes the back of the idle list.
MayPrune(n) == n > 0 /\ idle # <<>> /\ Stale(Last(idle))

PruneBack(g, n) ==
    /\ MayPrune(n)
    /\ Hold(g, Last(idle))
    /\ idle' = Front(idle)
    /\ budget' = [budget EXCEPT ![g] = n - 1]
    /\ Goto(g, "prune")

\* Mutant of Exhausted: > for >=.
ExhaustedLate(act) == ~Wait /\ MaxActive > 0 /\ act > MaxActive

\* `!p.Wait && p.MaxActive > 0 && p.active >= p.MaxActive`
Exhausted(act) == ~Wait /\ MaxActive > 0 /\ act >= MaxActive

\* The rest of get, with act the value of p.active at that point: the loop over
\* the front of the idle list takes one connection to test; or the list is empty
\* and get returns an error, or counts one more connection and dials it.
TakeFront(g, act) ==
    /\ idle # <<>>
    /\ Hold(g, Head(idle))
    /\ idle' = Tail(idle)
    /\ Goto(g, "test")
    /\ active' = act

Refuse(g, act) ==
    /\ idle = <<>> /\ (closed \/ Exhausted(act))
    /\ Goto(g, "out")
    /\ active' = act
    /\ UNCHANGED <<idle, conn>>

\* Mutant of Reserve: the test of p.closed before the dial is missing.
ReserveWhenClosed(g, act) ==
    /\ idle = <<>> /\ ~Exhausted(act)
    /\ Goto(g, "dial")
    /\ active' = act + 1
    /\ UNCHANGED <<idle, conn>>

Reserve(g, act) ==
    /\ idle = <<>> /\ ~closed /\ ~Exhausted(act)
    /\ Goto(g, "dial")
    /\ active' = act + 1
    /\ UNCHANGED <<idle, conn>>

TakeOrDial(g, act) ==
    /\ budget' = [budget EXCEPT ![g] = 0]
    /\ TakeFront(g, act) \/ Refuse(g, act) \/ Reserve(g, act)

\* get from the test of the prune loop on, with n turns left.
PruneOrTake(g, act, n) ==
    \/ PruneBack(g, n) /\ active' = act
    \/ ~MayPrune(n) /\ TakeOrDial(g, act)

-----------------------------------------------------------------------------
\* Pool.Get

\* Get begins; lazyInit's fast path reads chInitialized without the lock.
GetStart(g) ==
    /\ at[g] = "out"
    /\ Goto(g, IF ~Limited THEN "lock"
               ELSE IF chInitialized THEN "recv" ELSE "lazy")
    /\ UNCHANGED <<closed, active, limits, idle, mu, conn, budget, detached,
                   open, clocks>>

\* Mutant of LazyInit: chInitialized is not tested again under the lock.
LazyInitAgain(g) ==
    /\ at[g] = "lazy" /\ Free
    /\ chInitialized' = TRUE
    /\ tokens' = IF closed THEN 0 ELSE MaxActive
    /\ chClosed' = closed
    /\ Goto(g, "recv")
    /\ UNCHANGED <<closed, active, idle, mu, conn, budget, detached, open,
                   clocks>>

\* The slow path of lazyInit makes the channel, full or closed, unless another
\* goroutine did.
LazyInit(g) ==
    /\ at[g] = "lazy" /\ Free
    /\ chInitialized' = TRUE
    /\ IF chInitialized
       THEN UNCHANGED <<tokens, chClosed>>
       ELSE /\ tokens' = IF closed THEN 0 ELSE MaxActive
            /\ chClosed' = closed
    /\ Goto(g, "recv")
    /\ UNCHANGED <<closed, active, idle, mu, conn, budget, detached, open,
                   clocks>>

\* <-p.ch: takes a value, or returns at once when the channel is closed and
\* drained.
Acquire(g) ==
    /\ at[g] = "recv"
    /\ tokens > 0 \/ chClosed
    /\ tokens' = IF tokens > 0 THEN tokens - 1 ELSE 0
    /\ Goto(g, "lock")
    /\ UNCHANGED <<closed, active, chInitialized, chClosed, idle, mu, conn,
                   budget, detached, open, clocks>>

GetLocked(g) ==
    /\ at[g] = "lock" /\ Free
    /\ PruneOrTake(g, active, IF IdleTimeout > 0 THEN Len(idle) ELSE 0)
    /\ UNCHANGED <<closed, limits, mu, detached, open, clocks>>

ClosePruned(g) ==
    /\ at[g] = "prune"
    /\ CloseSocket(g)
    /\ Goto(g, "pruned")
    /\ UNCHANGED <<closed, active, limits, idle, mu, budget, detached>>

Pruned(g) ==
    /\ at[g] = "pruned" /\ Free
    /\ PruneOrTake(g, active - 1, budget[g])
    /\ UNCHANGED <<closed, limits, mu, detached, open, clocks>>

\* The idle connection is healthy and young enough: Get returns it.
Borrow(g) ==
    /\ at[g] = "test"
    /\ ~Expired(conn[g])
    /\ Goto(g, "use")
    /\ UNCHANGED <<closed, active, limits, idle, mu, conn, budget, detached,
                   open, clocks>>

\* TestOnBorrow returned an error, or the connection is too old.
Reject(g) ==
    /\ at[g] = "test"
    /\ TestOnBorrow \/ Expired(conn[g])
    /\ CloseSocket(g)
    /\ Goto(g, "failed")
    /\ UNCHANGED <<closed, active, limits, idle, mu, budget, detached>>

Rejected(g) ==
    /\ at[g] = "failed" /\ Free
    /\ TakeOrDial(g, active - 1)
    /\ UNCHANGED <<closed, limits, mu, detached, open, clocks>>

DialOk(g) ==
    /\ at[g] = "dial"
    /\ \E c \in Conns \ open :
          /\ open' = open \cup {c}
          /\ Hold(g, c)
    /\ Goto(g, "use")
    /\ UNCHANGED <<closed, active, limits, idle, mu, budget, detached, clocks>>

\* Mutant of DialFail: a failed dial does not give its value of p.ch back.
DialFailKeepsToken(g) ==
    /\ at[g] = "dial" /\ Free
    /\ active' = active - 1
    /\ Goto(g, "out")
    /\ UNCHANGED <<closed, limits, idle, mu, conn, budget, detached, open, clocks>>

DialFail(g) ==
    /\ at[g] = "dial" /\ Free
    /\ active' = active - 1
    /\ Release(g)
    /\ UNCHANGED <<closed, limits, idle, conn, budget, detached, open, clocks>>

\* p.ch <- struct{}{} and the Unlock after it; blocks while the buffer is full.
Send(g) ==
    /\ at[g] = "send"
    /\ tokens < MaxActive
    /\ tokens' = tokens + 1
    /\ mu' = NoThread
    /\ Goto(g, "out")
    /\ UNCHANGED <<closed, active, chInitialized, chClosed, idle, conn, budget,
                   detached, open, clocks>>

-----------------------------------------------------------------------------
\* activeConn.Close returns the connection: Pool.put(pc, force), with force when
\* the connection failed or is left in a special state.

\* The connection is not kept: put closes it.
PutClose(g, force) ==
    /\ closed \/ force
    /\ Goto(g, "evict")
    /\ UNCHANGED <<idle, mu, conn, idleFor>>

\* Mutant of PutIdle: pc = nil is missing, so that put closes what it stored.
PutIdleCloses(g, force) ==
    /\ ~closed /\ ~force
    /\ idleFor' = [idleFor EXCEPT ![conn[g]] = 0]
    /\ idle' = <<conn[g]>> \o idle
    /\ Goto(g, "evict")
    /\ UNCHANGED <<mu, conn>>

\* Mutant of PutIdle: the connection is pushed at the back.
PutIdleBack(g, force) ==
    /\ ~closed /\ ~force /\ Len(idle) < MaxIdle
    /\ idleFor' = [idleFor EXCEPT ![conn[g]] = 0]
    /\ idle' = Append(idle, conn[g])
    /\ Hold(g, NoConn)
    /\ Release(g)

\* Mutant of PutIdle: the test of p.closed is missing.
PutIdleWhenClosed(g, force) ==
    /\ ~force /\ Len(idle) < MaxIdle
    /\ idleFor' = [idleFor EXCEPT ![conn[g]] = 0]
    /\ idle' = <<conn[g]>> \o idle
    /\ Hold(g, NoConn)
    /\ Release(g)

\* The connection is stored, and the pool then closes the oldest one if there
\* are too many.
PutIdle(g, force) ==
    /\ ~closed /\ ~force
    /\ idleFor' = [idleFor EXCEPT ![conn[g]] = 0]
    /\ LET pushed == <<conn[g]>> \o idle
       IN IF Len(pushed) > MaxIdle
          THEN /\ idle' = Front(pushed)
               /\ Hold(g, Last(pushed))
               /\ Goto(g, "evict")
               /\ UNCHANGED mu
          ELSE /\ idle' = pushed
               /\ Hold(g, NoConn)
               /\ Release(g)

Put(g, force) ==
    /\ at[g] = "use" /\ Free
    /\ PutClose(g, force) \/ PutIdle(g, force)
    /\ UNCHANGED <<closed, active, limits, budget, detached, open, age>>

CloseEvicted(g) ==
    /\ at[g] = "evict"
    /\ CloseSocket(g)
    /\ Goto(g, "evicted")
    /\ UNCHANGED <<closed, active, limits, idle, mu, budget, detached>>

\* Mutant of Evicted: p.active-- is missing at the end of put.
EvictedStillCounted(g) ==
    /\ at[g] = "evicted" /\ Free
    /\ Release(g)
    /\ UNCHANGED <<closed, active, limits, idle, conn, budget, detached, open,
                   clocks>>

Evicted(g) ==
    /\ at[g] = "evicted" /\ Free
    /\ active' = active - 1
    /\ Release(g)
    /\ UNCHANGED <<closed, limits, idle, conn, budget, detached, open, clocks>>

-----------------------------------------------------------------------------
\* Mutant of PoolClose: close(p.ch) is missing.
PoolCloseQuiet(g) ==
    /\ at[g] = "out" /\ Free
    /\ ~closed
    /\ closed' = TRUE
    /\ active' = active - Len(idle)
    /\ detached' = idle
    /\ idle' = <<>>
    /\ Goto(g, "shut")
    /\ UNCHANGED <<limits, mu, conn, budget, open, clocks>>

\* Mutant of PoolClose: the front is read after the list was emptied.
PoolCloseForgets(g) ==
    /\ at[g] = "out" /\ Free
    /\ ~closed
    /\ closed' = TRUE
    /\ active' = active - Len(idle)
    /\ idle' = <<>>
    /\ chClosed' = chInitialized
    /\ Goto(g, "shut")
    /\ UNCHANGED <<chInitialized, tokens, mu, conn, budget, detached, open, clocks>>

\* Pool.Close; a second call returns without a change of state.
PoolClose(g) ==
    /\ at[g] = "out" /\ Free
    /\ ~closed
    /\ closed' = TRUE
    /\ active' = active - Len(idle)
    /\ detached' = idle
    /\ idle' = <<>>
    /\ chClosed' = chInitialized
    /\ Goto(g, "shut")
    /\ UNCHANGED <<chInitialized, tokens, mu, conn, budget, open, clocks>>

CloseDetached(g) ==
    /\ at[g] = "shut"
    /\ IF detached = <<>>
       THEN /\ Goto(g, "out")
            /\ UNCHANGED <<detached, open, clocks>>
       ELSE /\ open' = open \ {Head(detached)}
            /\ detached' = Tail(detached)
            /\ idleFor' = [idleFor EXCEPT ![Head(detached)] = 0]
            /\ age' = [age EXCEPT ![Head(detached)] = 0]
            /\ UNCHANGED at
    /\ UNCHANGED <<closed, active, limits, idle, mu, conn, budget>>

-----------------------------------------------------------------------------
\* Time passes at any moment.  The age at rest matters for idle connections only.
Tick ==
    /\ idleFor' = [c \in Conns |-> IF c \in ToSet(idle)
                                   THEN Older(idleFor[c], IdleCap)
                                   ELSE idleFor[c]]
    /\ age' = [c \in Conns |-> IF c \in open
                               THEN Older(age[c], MaxConnLifetime)
                               ELSE age[c]]
    /\ clocks' # clocks
    /\ UNCHANGED <<closed, active, limits, idle, mu, at, conn, budget, detached,
                   open>>

\* The steps of a call in progress, the application's return of a connection
\* included.
Progress(g) ==
    \/ LazyInit(g) \/ Acquire(g) \/ GetLocked(g)
    \/ ClosePruned(g) \/ Pruned(g)
    \/ Borrow(g) \/ Reject(g) \/ Rejected(g)
    \/ DialOk(g) \/ DialFail(g) \/ Send(g)
    \/ \E force \in BOOLEAN : Put(g, force)
    \/ CloseEvicted(g) \/ Evicted(g) \/ CloseDetached(g)

Next ==
    \/ \E g \in Threads : GetStart(g) \/ PoolClose(g) \/ Progress(g)
    \/ Tick

Spec == Init /\ [][Next]_vars

\* Every call in progress goes on.  Strong fairness is what Go gives where a
\* step can be disabled again before it is taken: the receivers of a channel are
\* queued in order, and sync.Mutex hands the lock to a waiter it starved.  The
\* application returns what it got ("The application must close the returned
\* connection"), and Dial, TestOnBorrow and the close of a socket return.
FairSpec == Spec /\ \A g \in Threads : SF_vars(Progress(g))

-----------------------------------------------------------------------------
\* Goroutines with a connection, and goroutines that p.active counts.
HoldingAt == {"prune", "test", "use", "evict"}
CountedAt == HoldingAt \cup {"pruned", "failed", "dial", "evicted"}
Counted == {g \in Threads : at[g] \in CountedAt}

\* Goroutines that took a value from p.ch and have not given it back.
TokenAt == CountedAt \cup {"lock", "send"}
TokenHolders == {g \in Threads : at[g] \in TokenAt}

\* p.active is the number of connections at rest plus the number in the hands
\* of a goroutine, from the moment a dial begins until after the close: get
\* decides on it whether it may dial.
ActiveMatches == active = Len(idle) + Cardinality(Counted)

\* "Maximum number of connections allocated by the pool at a given time": the
\* sockets that are open and the ones being dialled, whichever way the limit is
\* enforced, by p.active or by the values in p.ch.
WithinMaxActive ==
    MaxActive > 0 =>
        Cardinality(open) + Cardinality({g \in Threads : at[g] = "dial"})
            =< MaxActive

\* A connection is in one place: twice in no list, and with one goroutine.
ExclusiveConn ==
    /\ IsInjective(idle \o detached)
    /\ \A g \in Threads :
          /\ conn[g] \notin ToSet(idle \o detached)
          /\ \A h \in Threads \ {g} : conn[g] = conn[h] => conn[g] = NoConn

\* Whatever is in the pool, in a test or in use is a socket nobody closed, and
\* no open socket is lost: it is in a list or with a goroutine.
NoSocketLostOrDead ==
    open = ToSet(idle \o detached) \cup ({conn[g] : g \in Threads} \ {NoConn})

\* No value of p.ch is lost or made up: a lost one would shrink the pool for
\* ever, one too many would block a send made under the lock.
TokenConservation ==
    Limited /\ chInitialized /\ ~closed =>
        tokens + Cardinality(TokenHolders) = MaxActive

\* The send made while holding p.mu finds room and a channel that is not
\* closed (Pool.Close closes it): otherwise the pool stops, or put panics.
SendNeverBlocks ==
    \A g \in Threads : at[g] = "send" => tokens < MaxActive /\ ~chClosed

\* The idle list is ordered by the time of return, newest first: pruning looks
\* at its back only.
IdleNewestFirst ==
    \A i, j \in DOMAIN idle : i < j => idleFor[idle[i]] =< idleFor[idle[j]]

-----------------------------------------------------------------------------
\* "Close connections after remaining idle for this duration": a Get never takes
\* from the idle list, to return it, a connection that was idle for longer.
NoStaleBorrow ==
    [][\A g \in Threads :
          at[g] # "test" /\ at'[g] = "test" => ~Stale(conn'[g])]_vars

\* A Get that waits for a connection gets its turn, also when the pool is closed
\* meanwhile.
WaiterServed == \A g \in Threads : at[g] = "recv" ~> at[g] # "recv"

\* After Pool.Close every connection is closed in the end, the ones in use
\* and the ones being dialled at that moment included, and none is left.
CloseReleasesAll == closed ~> [](open = {})

-----------------------------------------------------------------------------
\* The inductive strengthening of the invariants above that are proved for every
\* instance: where a goroutine has a connection, what the channel is at each
\* point, and which lists the open sockets are in.
ConnInv == \A g \in Threads : conn[g] \in Conns <=> at[g] \in HoldingAt

ChannelInv ==
    /\ \A g \in Threads : at[g] = "send" <=> mu = g
    /\ chClosed <=> chInitialized /\ closed
    /\ \A g \in Threads : at[g] = "send" => chInitialized /\ ~closed
    /\ chInitialized => Limited
    /\ \A g \in Threads : at[g] \in {"lazy", "recv"} => Limited
    /\ \A g \in Threads :
          Limited /\ at[g] \in TokenAt \cup {"recv"} => chInitialized

SocketInv ==
    /\ closed => idle = <<>>
    /\ ~closed => detached = <<>>
    /\ MaxActive > 0 => active + Len(detached) =< MaxActive
    /\ open \subseteq Range(idle) \cup Range(detached)
                       \cup {conn[g] : g \in Threads}

\* Each socket in one place, in the parts the steps work on, and the one goroutine that
\* closes what Pool.Close took.
PlaceInv ==
    /\ IsInjective(idle) /\ IsInjective(detached)
    /\ \A g \in Threads :
          /\ conn[g] \notin Range(idle) \cup Range(detached)
          /\ \A h \in Threads \ {g} : conn[g] = conn[h] => conn[g] = NoConn
    /\ open = Range(idle) \cup Range(detached) \cup ({conn[g] : g \in Threads} \ {NoConn})

ShutInv ==
    \A g \in Threads :
       at[g] = "shut" => closed /\ \A h \in Threads \ {g} : at[h] # "shut"

PoolInv ==
    /\ TypeOK /\ ConnInv
    /\ ActiveMatches
    /\ ChannelInv /\ TokenConservation
    /\ SocketInv

-----------------------------------------------------------------------------
\* The pool implements the abstract one.
Promise == INSTANCE ConnPool WITH
    Clients <- Threads,
    Limit <- MaxActive,
    pooled <- ToSet(idle),
    held <- [g \in Threads |->
               ({conn[g]} \ {NoConn})
               \cup (IF at[g] = "shut" THEN ToSet(detached) ELSE {})],
    dialing <- {g \in Threads : at[g] = "dial"},
    shut <- closed

ImplementsConnPool == Promise!Spec
=============================================================================
