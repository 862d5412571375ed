# A verification project for mybook

`mybook` is a book of engineering notes that comes with programs: connection
pools, caches, a circuit breaker, database and Redis clients, a web server and
classic algorithms, each read, commented and partly rewritten in
`src/docs/源码阅读_sourcecode` and a few other directories.  This directory holds
TLA+ models of those programs, the TLC configurations that check them on small
instances, and TLAPS proofs of their most important invariants for every
instance.  The rest of the repository is Markdown, images and slides.

## 1. Inventory

`S` stands for `src/docs/源码阅读_sourcecode`.

| Component | Source | State | Operations | What is hard | What makes it correct |
|---|---|---|---|---|---|
| redigo `Pool` | `S/go/redigo_read/main.go` 773-1233 | `closed`, `active`, `ch`, `chInitialized`, idle list, `mu` | `Get`, `put` (from `activeConn.Close`), `Close` | the lock is released for every dial, close and health check; a channel and a counter enforce one limit; sends under the lock; `Close` during everything else | the count is exact, the limit is kept, no socket is lost, shared or used closed, no value of the channel is lost, waiters are served, a closed pool ends empty |
| redigo `conn`, `activeConn` | `main.go` 200-509, 676-737, 924-1075; `commmandinfo.go` | `pending`, `err`, buffers; the state flags of a session; the server's modes | `Send`, `Flush`, `Receive`, `Do`, `Close` | `Receive` beside `Send`; replies and pushes on their way when a session ends; failures half way | `Do` returns its own reply; a pooled connection is quiet and in no special mode; no call waits for ever |
| redigo RESP codec | `main.go` 369-464, 524-660 | none | `writeCommand`, `readReply`, `parseLen`, `parseInt` | boundaries of lengths and integers | reading back what was written |
| hystrix-go | `S/go/hystrix-go/hystrix` | circuit (`open`, last test time), tickets, metrics by the second | `GoC`, `DoC`, `AllowRequest`, `ReportEvent`, `setOpen`, `setClose` | two goroutines per command race for its result; the circuit is read and written under different locks, or none; metrics are counted by other goroutines | a ticket is returned exactly once; every call gets an answer; tests more than a sleep window apart; an open circuit recovers |
| fatih/pool | `S/go/fatih_pool/main.go` | buffered channel, factory | `Get`, `put`, `Close`, `PoolConn.Close` | channel and factory are read together and used unlocked | a closed pool keeps nothing; a connection has one user |
| go-cache | `S/go/patrickmn_gocache/main.go` | map of items with expiry, callback, janitor | `Set`, `Add`, `Replace`, `Get`, `GetWithExpiration`, `Delete`, `DeleteExpired`, `OnEvicted`, `Flush` | expiry computed before the lock, callback read after the unlock, one `Unlock` after an `RLock` | an expired item is never returned; one callback per eviction; the lock is released as it was taken |
| ratelimit | `S/go/ratelimit` | last slot and sleep, behind one pointer; the mock clock's timers | `Take`; `Add`, `Sleep`, `Timer` | a compare-and-swap loop over a clock that goes on | two slots are at least `perRequest` apart; none is wasted; nobody returns before its slot |
| async | `S/go/rafaeldias_async/main.go` | result channel, semaphore | `Parallel`, `Waterfall` | completion order | every task runs once; results belong to their tasks |
| redis-py | `S/python/redispy_read.py` | available and in-use connections, pid | `get_connection`, `release`, `execute_command` | threads without a lock; fork; a retry | limit; no connection with two users; no stale reply |
| PyMySQL | `S/python/PyMySQL_read.py` | sequence number, pending result | packets, queries, cursors | split packets, unbuffered results | a command never reads the rows of another |
| wsgiref | `S/python/wsgiref_read.py` | shutdown flags, response state | `serve_forever`, `shutdown`, `run`, `start_response`, `write` | two threads; an error at any point of a response | headers once and before the body; `close` once |
| C++ exercises, base62 | `src/docs/基本手写代码`, `urlshortener/utils` | none | sorts, search, traversals, conversion | boundaries | equal to the reference definition |
| collections, pystatsd, REST and blog demos, vim-commenter | see `PROJECT.json` | database or editor | one statement each | – | not modelled |

How they interact: `Pool` hands out `activeConn`s, which use one `conn`;
`activeConn.Close` cleans the `conn` up and calls `Pool.put`.  The abstract
`ConnPool` is what the three pools of the repository (redigo, fatih/pool,
redis-py) promise their users.  The other programs are independent of each other.

## 2. Modules

| Module | Models | Notes |
|---|---|---|
| `ConnPool` | the promise of a connection pool | the abstract specification; no code of its own |
| `RedigoPool` | `Pool.get`, `lazyInit`, `put`, `Pool.Close` | includes the refinement mapping to `ConnPool` |
| `MCRedigoPool` | – | symmetry sets for TLC |
| `RedigoSession` | `conn`, `activeConn`, `commandInfos`; the Redis server (external) | |
| `ConnPoolProofs` | – | the proofs of what the promise amounts to |
| `RedigoPoolProofs` | – | the inductive invariant, and the proofs of seven of its consequences, the limit on open connections included |
| `RedigoPoolPromise` | – | the proofs about single sockets and of the refinement of `ConnPool` |
| `RedigoSessionProofs` | – | the inductive invariant, and the proofs of all its invariants |
| `GoCache` | the cache, its callback, the janitor and the finalizer; `sync.RWMutex` (external) | |
| `MCGoCache` | – | durations and symmetry sets for TLC |
| `GoCacheProofs` | – | the inductive invariants, and the proofs of three properties |
| `Hystrix` | the commands of one name, their circuit, tickets and metrics | |
| `MCHystrix` | – | the symmetry set for TLC |
| `HystrixProofs` | – | the inductive invariants, and the proofs of six theorems |
| `FatihPool` | the channel pool | includes the refinement mapping to `ConnPool` |
| `FatihPoolProofs` | – | the inductive invariants, and the proofs of the refinement and of where the open sockets are |
| `RateLimiter` | `Take` | |
| `RateLimiterProofs` | – | the inductive invariant, and the proofs of four properties |

### RedigoPool and the code

The variables `closed`, `active`, `chInitialized`, `idle` are the fields of `Pool`;
`p.ch` is its number of buffered values (`tokens`) and whether it was closed.  `mu`
says who holds `p.mu` *between* steps, which happens only at a channel send under
the lock.  `at[g]` is the point in the code where goroutine `g` is, `conn[g]` the
local `pc`, `budget[g]` the turns left of the prune loop (`n - i`).

A step is everything from one `Lock` to the next `Unlock`; a dial, the close of a
socket, the health check and a channel receive are steps of their own.  So `get` is
`GetStart` (and the unlocked read of `chInitialized`), `LazyInit`, `Acquire`,
`GetLocked`, then `ClosePruned`/`Pruned` per stale connection, `Borrow` or
`Reject`/`Rejected` per idle connection tried, and `DialOk` or `DialFail`.  `put` is
`Put`, `CloseEvicted`, `Evicted`, `Send`.  `Pool.Close` is `PoolClose` and one
`CloseDetached` per connection of the list it took away.

Data left out: addresses, options, errors, `fmt.Println` (which reads the count and
`p.active` without the lock, for printing only).  The context of `get` is `nil` in every call
of the repository, so the `select` on it is left out.  `TestOnBorrow` may answer
either way; without one it always passes.  The clock is replaced by two ages per
connection, capped at the only value they are compared with.  `LazyInit` fills the
new channel in one step: nobody else can see it before `chInitialized` is set and
the lock released.  A call of `Get` that fails (`errorConn`) ends at once, and its
`Close` does nothing.  Two goroutines that close the same `activeConn` at the same
time are a misuse and are not modelled; a second `Close` by the same goroutine finds
`ac.pc = nil` and changes nothing.

### RedigoSession and the code

One connection through any number of sessions.  `flags` is `activeConn.state`,
`pending` and `broken` are fields of `conn`, `outbuf` is `bw`, `wire` and `replies`
the two directions of the socket.  One goroutine may be in `Receive` while another
sends, which the interface `Conn` allows; `Do` and `Close` run alone.  Commands are
their names: with `commandInfos` they are all that decides.  The server is external
and does what the code relies on: it answers each command, a subscription command
once per channel (one or two here), refuses what its mode does not allow by an error
reply, keeps the watch when it refuses an `EXEC`, and pushes messages at any time to
a subscriber.  A `GET` or an `EXEC` may be answered by an error too.  An
`UNSUBSCRIBE` that names several channels without a subscription is not among the
commands: its several replies for one counted command are the application's to read.

### GoCache and the code

`items`, `evicting` and `call` are `cache.items`, `cache.onEvicted # nil` and the
arguments and locals of the call each goroutine is in; `evicted[g]` is what
`evictedItems` (or the `v` of `Delete`) still holds.  A write call has three steps or
more: its beginning, which computes what the code computes before the lock (the
expiry in `Set`, `now` in `DeleteExpired`); `Announce`, the first half of `Lock`; and
`WriteSet`, `WriteAdd`, ..., everything up to the `Unlock`, when no reader is left.
After it come one `RunCallback` per object to report, outside the lock.  A read call
begins, takes the read lock and ends with `ReadEnd`; `UnlockAfterRLock` is the branch
of `GetWithExpiration` that calls `Unlock`.  The callback is the application's and
looks something up in the cache, which it is free to do.

`sync.RWMutex` is external: a writer announces itself, which keeps new readers out,
and waits for the readers there are.  `Unlock` by a reader is modelled by what the
library does: with no writer announced it is a fatal error; otherwise the announcement
is undone, and the count of readers the writer waits for no longer reaches zero
(`leaked`).  The clock ticks at any time up to `LastTick`; item durations are
`NoExpiration` and `DefaultExpiration`, which stands for one tick.  `SetDefault` is
`Set` with that duration.  Values are objects that are stored once, so that two
evictions can be told apart.  What a lookup returns is left out, and `Items` and
`ItemCount` use the lock like `Get`.  Once the finalizer has run, nobody refers to the
cache and no call begins; calls in progress go on.

### Hystrix and the code

Commands of one name share a circuit.  A member of `Commands` is a caller of `DoC`
that calls again and again; each call starts a *runner* and a *watcher*, the two
goroutines of `GoC`.  `caller`, `runner` and `watcher` say where the three are, `once`
who took `returnOnce`, and `body` where the function is that it runs, whoever runs it:
`ReturnTicket`, `Answer`, `Report`, `SetClose`, `ResetMetrics`, `SendUpdate`.  `ticket`
joins `cmd.ticket` with `ticketChecked`; `done` and `errChan` are the channels a caller
waits for.  A member calls again only when both goroutines of its last call have ended;
calls that overlap are those of different members.  `IsOpen`, `ReadVolume`, `ReadRequests`, `ReadErrors`, `SetOpen`,
`AllowSingleTest` and `Swap` are `AllowRequest`, one step per read or write of shared
state.  `recorded` is the rolling numbers of requests and errors together: the results
in the window, oldest first; the Monitor counts a result as a request and then, a step
later (`halfway`), as an error.  `Forget` is the end of a second that leaves the window.

The locks are modelled by their effects.  `cb.mutex` is held for reading across
`AllowSingleTest` and `Swap` and keeps out `SetOpen` and the `Lock` in `setClose`
(`NoReader`); everything else under it is one step.  `setClose` unlocks before it looks
at `cb.open` and writes it, so `SetClose` waits for nobody.  The mutex of the metrics
keeps `ResetMetrics` out while `ErrorPercent` is between its two numbers and while a
result is half counted.  Merged are: the clock and the load in `allowSingleTest` (the
delay before the compare-and-swap is `lag`, so that the time it writes may be old; a
delay before the load would make it older only where another late test overwrote the
time in between), and
the read of `cb.open` in `ReportEvent` with the second look in `setClose`, between which
only another closing can come, after which `setClose` does nothing.

`Shadowed` says whether `getCurrentBucket` is as it is written.  It is `TRUE` in
`hystrix_panic`; in the other runs, which would end at the first event, it is `FALSE`:
they describe the program with that one line repaired.

What `SingleTest` says is about the time recorded with each test, which the next one is
compared with.  It bounds the number of tests by the windows gone by.  It does not say
that a window lies between the moments at which two tests pass: a runner may be delayed
between its clock and its compare-and-swap, so that a second test is due as soon as it
passed.  Nor does every command that passes an open circuit pass as a test: one that
read `cb.open` before another command opened the circuit goes on to its ticket.  A
success closes the circuit whenever it was begun.  A failed run counts as an error
unless it ends with an error of its context (`CountsAs`).

Left out: `Flush`, `toggleForceOpen` (called nowhere), changes of the settings, the
dashboard's numbers, the text of errors.  A fallback may be missing, succeed or fail;
it does not hang.  The run function may hang for ever.

### FatihPool and the code

`conns` is the content of the channel, `closed` whether `c.conns` is `nil`, `chClosed`
whether the channel is closed, `drained` whether `Close` has come to the end of its
loop, `at[t]` where a goroutine is and `conn[t]` the connection it has.  A dial and the
close of a socket are steps of their own.  `Get` is `GetStart` (under the lock), then
`Receive`, `ReceiveNil` or `Default` with the channel it read, and the dial.  `put` is
`Put`, or `PutFull` and `CloseConn` with the read lock held, which `Close` waits for.
`NewChannelPool` fills the channel before anybody has the pool; when a dial fails it
closes what there is.  The pool is *shut*, in the sense of `ConnPool`, when `Close` has
emptied the channel: until then a `Get` that began earlier takes what is left.  A
`PoolConn` is closed once by its user.

### RateLimiter and the code

Instants and durations are natural numbers.  `last` is the state's slot, `ZeroTime`
before the first request; each attempt allocates a new state, so `current` is the set of
callers whose loaded pointer is still installed.  `ReadClock`, `LoadState`, `SwapState`
or `Retry`, `Sleep` and `Return` are the lines of `Take`.  `maxSlack` is left out: in
this code `sleepFor` starts from zero in each call, so the correction can only replace
one negative sleep by another, and neither delays.

## 3. Runs

| Run | Instance | Shows |
|---|---|---|
| `pool_wait` | `Wait`, 3 goroutines, 3 sockets, `MaxActive` 2, `MaxIdle` 1, idle timeout, health check, fair | seven invariants of the pool with the channel; a waiting `Get` is served; a closed pool ends with no open socket; the pool implements `ConnPool` |
| `pool_limit` | no `Wait`, 4 goroutines, 4 sockets, `MaxActive` 3, `MaxIdle` 2 | with the counter alone the limit is kept; the idle list, of two, stays in the order of return |
| `pool_stale` | no `Wait`, 3 goroutines | *violated*: `Get` can take a connection idle for longer than `IdleTimeout` |
| `session` | all ten commands, 2 in flight, fair | `Do` reads its own reply; a pooled connection is quiet and in no special mode; what a call waits for is on its way; calls return |
| `session_watch` | `GET`, `WATCH`, `MULTI`, `EXEC` | *violated*: a pooled connection can still be watching a key |
| `gocache` | 1 goroutine and the janitor, 2 keys, 2 objects, 3 instants, fair | what is removed is reported once; only expired items are removed; a call returns; the finalizer ends the janitor; expired items go |
| `gocache_unlock` | 2 goroutines, 1 key | *violated*: a lock is released as it was taken |
| `hystrix` | 2 commands, 1 ticket, volume 1, 50 % errors, window 1 | tickets are conserved; no command ends with its caller unanswered; one circuit; the tests of an open circuit are more than a window apart, by the time each read |
| `hystrix_live` | 1 command, 2 results in the window, fair | a caller gets an answer; a command's goroutines end; an open circuit recovers |
| `hystrix_panic` | 1 command, `Shadowed` | *violated*: counting an event does not end the process |
| `fatih` | 3 goroutines, 5 sockets, capacity 2, filled with 2, fair | the pool implements `ConnPool`; every open socket is in the channel or in somebody's hands; a closed pool ends with no open socket |
| `limiter` | 3 callers, 2 ticks per request, 4 instants | slots are spaced, none is wasted, nobody returns before its slot |

**Bounds.**  `pool_limit` checks the two invariants that it is for; the others
hold there too, by their theorems, and `pool_wait` checks them.  In both pool runs
there is one goroutine more than `MaxActive`, so that
one may have to wait or is refused; `MaxIdle` below `MaxActive` makes `put` evict.  Each
goroutine holds at most one connection and a dial in the pool happens when none is
idle, so as many sockets as goroutines never run out.  `IdleTimeout` 1 gives three ages
(young, at the limit, over it).  In `session`, `MaxInFlight` 2 lets a command and a
push, or two replies, cross; a session has any number of commands, and a connection any
number of sessions.  In `gocache` the goroutine and the janitor can both be evicting,
and two keys let a `DeleteExpired` report one object while another is evicted; three
instants give an item that lives for one tick the ages young, at its limit and expired.
More goroutines are what the theorems about the cache are for.

In `hystrix` two commands compete for one ticket, make the circuit together and come
to the compare-and-swap together; with a volume of one and a window (`MaxRecorded`) of
one result a single failure trips the circuit and a success can close it; the age of the
circuit's time and the delays of the runners count up to one more than `SleepWindow`, and
the age goes on beside a delay, so that their difference is right.  `MaxUpdates` 1 lets the channel be full.
`hystrix_live` has one command, whose runner outlives its caller, because the graph is
too large with two; so `Recovers` does not see two commands race in `setClose` and
`setOpen`, whose steps are in `hystrix`.  Two results in the window let successes outweigh a failure.  In
`fatih` one goroutine can be in `Close` while another has read the channel and a third
returns a connection to a full one; two sockets in the channel and one in each hand are
five, so that sockets never run out.  In `limiter` each of
three callers can lose the compare-and-swap to another, twice; four instants are two
slots.

**Deadlock** is checked in the redigo runs: an idle pool can always start a `Get`.
It is not in the `gocache` runs, where a fatal error ends the process, in `fatih`,
where a closed pool has nothing more to do, and in `limiter`, whose clock stops.  In
`hystrix` and `hystrix_live` it is: a command can always begin again.

**The mutants.**  Beside a definition there may be a second one whose comment
begins "Mutant of": the same operation with a plausible bug.  No specification uses
it.  With the definition replaced by it, the property it is listed with in
`PROJECT.json` is violated; this shows that the property depends on the code.

### What the violations show

`pool_stale`: the idle timeout is tested in the prune loop only.  The loop turns at
most as often as the list had entries when it started, and unlocks the pool for each
close.  Meanwhile a connection can be put back and pass the timeout, or one that was
young enough can pass it.  The code then takes the front of the list without a test.
The comment at `main.go:795` promises that such a connection is closed.

`session_watch`: `commandInfos` clears the watch flag when `EXEC` is *issued*.  The
server refuses an `EXEC` without `MULTI` and keeps the watch.  `Close` finds no flag,
sends nothing, and the connection goes back to the pool, where the next user's
transaction can fail because of a key it never watched.  The comment at `main.go:954`
promises that `Close` sends the interrupting command the state needs.

`gocache_unlock`: `GetWithExpiration` takes the read lock and, for a missing key,
calls `Unlock`.  Line 17 of the file warns of exactly this class of mistake.  The
liveness properties of `GoCache` hold up to this mistake and up to the other way in
which the cache can end the process: `OnEvicted(nil)` between the `Unlock` of an
eviction and its callback, which is then a call of `nil` (`Misused`).
The trace ends with the runtime's fatal error; with a writer waiting, the read lock
stays instead and the writer waits for ever, which the model has as `leaked`.

`hystrix_panic`: `bucket := &numberBucket{}` inside the `if` of `getCurrentBucket`
declares a new variable.  The function returns the outer one, `nil`, whenever the
second has no bucket yet, and `Increment` dereferences it in the Monitor's goroutine,
which recovers nothing.  The first result of a command, or the first ticket returned,
brings the process down.

## 4. Fairness

`RedigoPool!FairSpec` assumes strong fairness of each goroutine's next step while a
call is in progress.  Two steps can be disabled again by others before they are
taken: the receive on `p.ch`, whose waiters the Go runtime queues first-in first-out,
and `p.mu.Lock()`, which `sync.Mutex` hands to a waiter that starved for a
millisecond.  The application is assumed to return what it got, as the comment of
`Get` (`main.go:896`) asks, and dials, health checks and closes of sockets to
return.  Nobody has to call `Get` or `Pool.Close`.

`RedigoSession!FairSpec` assumes weak fairness of the steps of a call in progress
and of the server's answers.  No timeout and no failure is assumed to happen: the
default read timeout is none.

`GoCache!FairSpec` assumes strong fairness of each goroutine's next step while a call
is in progress: `RWMutex` lets the readers that wait into the cache before the next
writer, and queues the writers on a mutex.  `select` picks any of its ready cases,
so neither the tick nor the stop is passed over for ever.  Nobody has to make a
call, the callback of the application returns, and the clock need not advance.

`Hystrix!FairSpec` assumes weak fairness of every goroutine's steps, of the timer, of
the callers' return and of the clock; strong fairness where a lock or a channel that
others use is waited for (`SetOpen`, the lock in `setClose`, `Reset`, the send to the
pool's Monitor): an `RWMutex` that has a writer waiting keeps new readers out, and a
channel serves its senders in order.  The run function has no fairness: it may hang.
`Recovers` has its premises in the formula: runs return, and from some time on none
fails or is timed out.

`FatihPool!FairSpec` assumes weak fairness of a call in progress, of a dial and of the
user's return of what it got.  Nobody has to call `Get` or `Close`.

## 5. Proofs

The theorems hold for every value of the constants, not for the instances above only:
any finite set of goroutines, any sockets, any setting.  Every invariant and every
safety property over steps that a passing run checks is a theorem.  The assumptions on
the constants are those the code justifies:

- `PoolAssumption` (of `RedigoPool` and of `FatihPool`), `HystrixAssumption`,
  `LimiterAssumption`: numbers are natural, the names for "none" are no members of the
  sets they stand beside, and where goroutines are counted they are finitely many.
  `FatihPool` has `0 <= InitialCap <= MaxCap` and `MaxCap > 0`, which `NewChannelPool`
  tests.
- `CacheAssumption`: the same, and that there is a longest duration, as there is for a
  `time.Duration` (an `int64`).  Without it the expiries would have no bound and
  `TypeOK` no finite type for TLC to check.
- `SessionAssumption`: the application's `ECHO` is no command of its own.  `ECHO` in
  the model is the one of `Close` with the sentinel, a random string the process
  keeps to itself (`initSentinel`); another `ECHO` is to both sides like a `GET`.

| Theorem | Module | States |
|---|---|---|
| `TypeCorrect` | `RedigoPoolProofs` | `Spec => []TypeOK` |
| `ActiveCorrect` | `RedigoPoolProofs` | `Spec => []ActiveMatches` |
| `TokensConserved` | `RedigoPoolProofs` | `Spec => []TokenConservation` |
| `SendsNeverBlock` | `RedigoPoolProofs` | `Spec => []SendNeverBlocks` |
| `LimitKept` | `RedigoPoolProofs` | `Spec => []WithinMaxActive` |
| `WaitsForSomebody` | `RedigoPoolProofs` | `Spec => []SomebodyOwesAValue` |
| `NothingLeft` | `RedigoPoolProofs` | `Spec => []ClosedLeavesNothing` |
| `OnePlace` | `ConnPoolProofs` | `ConnPool!Spec => []Exclusive` |
| `LimitPromised` | `ConnPoolProofs` | `ConnPool!Spec => []WithinLimit`, for finitely many clients |
| `StaysEmpty` | `ConnPoolProofs` | `ConnPool!Spec => []ShutIsEmpty` |
| `ConnExclusive` | `RedigoPoolPromise` | `Spec => []ExclusiveConn` |
| `NoneLostOrDead` | `RedigoPoolPromise` | `Spec => []NoSocketLostOrDead` |
| `NewestFirst` | `RedigoPoolPromise` | `Spec => []IdleNewestFirst` |
| `KeepsPromise` | `RedigoPoolPromise` | `Spec => ImplementsConnPool` |
| `TypeCorrect` | `RedigoSessionProofs` | `Spec => []TypeOK` |
| `RepliesCounted` | `RedigoSessionProofs` | `Spec => []PendingMatchesReplies` |
| `QuietAtRest` | `RedigoSessionProofs` | `Spec => []IdleConnIsQuiet` |
| `NoModeAtRest` | `RedigoSessionProofs` | `Spec => []IdleConnHasNoMode` |
| `NoneWaitsInVain` | `RedigoSessionProofs` | `Spec => []NoVainWait` |
| `TypeCorrect` | `GoCacheProofs` | `Spec => []TypeOK` |
| `EvictionReportedOnce` | `GoCacheProofs` | `Spec => []EvictedOnce` |
| `ExpiredOnly` | `GoCacheProofs` | `Spec => OnlyExpiredRemoved` |
| `TypeCorrect` | `HystrixProofs` | `Spec => []TypeOK` |
| `TicketsReturnedOnce` | `HystrixProofs` | `Spec => []TicketOnce` |
| `TicketsAllBack` | `HystrixProofs` | `Spec => []AllTicketsBack` |
| `NoneUnanswered` | `HystrixProofs` | `Spec => []AnsweredWhenOver` |
| `CircuitMadeOnce` | `HystrixProofs` | `Spec => []OneCircuit` |
| `TestsApart` | `HystrixProofs` | `Spec => SingleTest` |
| `TypeCorrect` | `FatihPoolProofs` | `Spec => []TypeOK` |
| `KeepsPromise` | `FatihPoolProofs` | `Spec => ImplementsConnPool` |
| `NoneLost` | `FatihPoolProofs` | `Spec => []NoSocketLost` |
| `NothingLeft` | `FatihPoolProofs` | `Spec => []ClosedLeavesNothing` |
| `TypeCorrect` | `RateLimiterProofs` | `Spec => []TypeOK` |
| `SlotsApart` | `RateLimiterProofs` | `Spec => Spaced` |
| `QueueIsTight` | `RateLimiterProofs` | `Spec => []NoSlotWasted` |
| `ReturnsInTime` | `RateLimiterProofs` | `Spec => NotEarly` |

**The pool.**  None of its invariants is inductive alone.  The strengthening, at the
end of `RedigoPool`, adds where a goroutine has a connection (`ConnInv`), what the channel
is at each point of the code (`ChannelInv`), and which lists the open sockets are in
(`SocketInv`).  The argument:

1. *Type and place* (`TypeOK`, `ConnInv`): a goroutine has a connection exactly at
   the points where the code uses one.  Needed because every step that closes or
   returns a connection indexes the clocks with it.
2. *Count* (`ActiveMatches`): each step moves at most one goroutine into or out of
   the set that `p.active` counts, and moves at most one connection into or out of the
   idle list, by the same amount.  Lemmas say how the cardinality of a set defined over
   the goroutines changes when one of them moves.
3. *Channel* (`ChannelInv`, `TokenConservation`): who may be at the send, that the
   channel is closed exactly when the pool is, and that the buffered values plus the
   goroutines that hold one make `MaxActive`.  A goroutine at the send holds one, so
   there is room for it: `SendNeverBlocks`.
4. *Limit* (`SocketInv`): `active + Len(detached) =< MaxActive`; each open socket is
   in a list or held.  With `Wait` the bound at a new dial comes from the values of the
   channel (the goroutines counted all hold one), and without it from the test in the
   code.  The number of open sockets is then bounded by the lengths of the lists and
   the number of goroutines that hold one, which with the dials is `active`.

5. *Place* (`PlaceInv`): neither list repeats a socket, a goroutine's socket is on no
   list and with no other goroutine, and the open sockets are exactly those on the lists
   and in hands.  Each step moves one socket, so a lemma per kind of move says what it
   does to the lists (`Took...`, `Put...`) and that `PlaceInv` survives it.
   `ExclusiveConn` and `NoSocketLostOrDead` are parts of it.  `IdleNewestFirst` needs it
   too: a socket that is put in front is young and on the list nowhere else, so its new
   age disturbs no other entry; and all ages grow together.
6. *Promise*: the step to a dial reserves (`Reserves`), taking the front or the back of
   the list takes, `put` gives, or swaps, or gives back what it was given and changes
   nothing (`Gives`), a close drops, `Pool.Close` shuts.  The guard of the abstract reservation is `WithinMaxActive` one
   step later, since the abstract connections are among the open sockets (`LiveIsOpen`).
   `ShutInv` says that the goroutine closing what `Pool.Close` took is the only one and
   that the pool is closed meanwhile: the sockets it closes one by one are its own to
   drop.

Two more theorems follow from the invariant without another induction.  They are the part
of the liveness properties that the prover can reach: in the state where a wait would
last for ever, there is something that ends it.  `WaitsForSomebody`: with the channel
open and empty, `TokenConservation` puts all `MaxActive` values into the hands of
goroutines, and `MaxActive` is not 0 where a `Get` waits.  `NothingLeft`: a closed pool
has an empty idle list, so the open sockets are in what `Pool.Close` took or in hands,
and when both are gone none is open and `p.active` is 0.

Each proof of a step has one case per action and, where several parts of the
invariant can be disturbed, one step per part.

**The abstract pool.**  `ConnPoolProofs` shows what `ConnPool` amounts to, so that a pool
that implements it has one place for each connection, a limit that is kept and nothing
left after it was shut.  The limit is kept by the guard of `Reserve` alone: a dial that
succeeds turns a reservation into a connection, and no other step raises the sum.

**The session.**  The client's and the server's side are related through `Unserved`,
the commands sent or in the buffer and not served yet: a step of the client adds to its
end, a step of the server takes its head, everything else leaves it alone.  The
strengthening, at the end of `RedigoSession`, has four parts beside the types:

1. *Control* (`ControlInv`): where each call is, what `Do` has still to read there, and
   that a failed connection has nothing on its way and no server.
2. *Count* (`CountInv`): the client never counts more replies than will come, and
   exactly those when no flag of a subscription or MONITOR is up.  The flag goes down in
   one place only, at the sentinel, so that step needs part 4: the sentinel was the last
   thing outstanding, hence the count is exact again.
3. *Modes* (`ModeInv`): whatever can put the server into a mode, in `Unserved`, queued
   in its transaction or in force, is announced by a flag; and with the flag of a
   transaction down, an `EXEC` or `DISCARD` that ends it is on its way *behind* it
   (`EndsAfter`).  The order matters: an `EXEC` ahead of a `MULTI` ends nothing.  The
   server never has a transaction and a subscription together, or the `DISCARD` of
   `Close` would be refused.
4. *Sentinel* (`SentinelInv`): the `ECHO` is last in `Unserved` and is served outside of
   subscriptions and transactions, so once its answer is there nothing follows except
   lines of MONITOR, whose flag then has the connection closed.

`NoVainWait` is about `Do` and `Close` in the middle: what they want is on the wire or
answered, never in the buffer still, which `WaitInv` adds.  The `ECHO` on the wire is
answered by the sentinel because the server is in no subscription and no transaction
when it serves it (parts 3 and 4), and a failed connection answers with an error instead.

A connection at rest has no flag and counts nothing; by part 2 nothing is outstanding,
so `Unserved` is empty, and by part 3 the server is in no mode.  `IdleConnWatchesNothing`
is not a consequence, and is violated (`session_watch`): with `WATCH` the flag may go
down before the mode does.

**The cache.**  `EvictedOnce` speaks of stored objects and of those to be reported; an
object that a call of `Set` is about to store could be either, so `ObjectInv` adds the
calls' arguments (`InHand`) and that no two keys have one object.  `CallInv` says that
a goroutine that stores has an object and that one in `DeleteExpired` has a time that
is not later than the clock.  Lemmas cover what a step can do with objects:
take a new one or let one go (`ObjectInvCall`, `ObjectInvFewer`), store the one in hand
(`ObjectInvStore`), or move stored ones into one hand (`ObjectInvEvict`).
`OnlyExpiredRemoved` follows from `CallInv` alone: what had expired at an earlier time
has expired now.  The theorems hold for any goroutines, keys, objects and lifetimes
(`CacheAssumption`).

`TypeOK` has two parts that are not obvious.  An item's expiry lies between the first
instant and the longest duration after the last: `ExpiryInv` says what key, time and
duration a call has in hand, since `Set` computes the expiry before the lock while `Add`
and `Replace` do so under it.  And `leaked`, the read locks nobody will release, is
bounded: `LockInv` counts the goroutines that wait for the write lock, one for each
such lock and one for the writer that announced itself, so there are no more of them
than goroutines.  `FlagInv` has the types of the rest.

**Hystrix.**  `TicketOnce` needs to know that a command which may still take a ticket has
not settled it, and that the Once is not over before the ticket is settled
(`CommandInv`): then `ReturnTicket` puts back a ticket that was taken and not returned
before.  `TicketsAllBack` is the same sum when no command is under way.
`AnsweredWhenOver` needs `AnswerInv`: whoever is in the Once has sent its value, error or
fallback before it comes to the events, and a runner whose result is a success before it
comes to the Once.  The number of tickets is bounded by the same sum, so the type invariant is
proved along with it.  `SingleTest` needs `TestInv`: from the test of the window
to the compare-and-swap the age of the circuit's time and the runner's delay grow
together, so that their difference stays more than a window, unless somebody else wrote
the time, and then the swap fails.  The theorems hold for any finite set of commands and any setting
(`HystrixAssumption`), with the bucket as it is written or repaired.

**The channel pool.**  `KeepsPromise` maps each step: a dial begins where `ConnPool`
reserves, a receive takes, a send gives, the close of a socket drops, the end of the loop
in `Close` shuts.  `NewInv` says that `NewChannelPool` runs alone and its sends find
room; `CloseInv` that `Close` runs once and that the channel is closed after the pool
and empty at the end, so that nothing is sent or dialled after it; `ConnInv` that every
connection is in one place, which the abstract steps `Take` and `Open` need.
`NoSocketLost` is an equality of sets over the same invariant: each step moves one socket
between the channel and one pair of hands, or opens or closes the one it has there.
`NothingLeft` follows: `CloseInv` has the channel empty once `Close` is through, so that
what is open is in somebody's hands.

**The limiter.**  A caller whose pointer is still installed has loaded the slot that is
installed (`LoadedInv`), so a swap that succeeds adds at least `PerRequest`, and two callers
that loaded the same slot cannot both succeed (`Spaced` looks at every swap, one that
would install the same slot again included); and the
clock a caller read is not ahead of the clock, so that it wakes at its slot or after it
(`WakeInv`).  `NoSlotWasted` speaks of the present instant and is not inductive: when
the clock moves on, callers whose slot has come no longer count.  `QueueInv` says the
same of every instant from now to the last slot; then a tick only has fewer instants to
consider, and a swap adds one slot and one caller that waits for it.

**Model-checked only.**  The liveness properties (`WaiterServed`, `CloseReleasesAll`,
`CallsReturn`, `CommandsEnd`, `Recovers`, `JanitorStops`, `ExpiredGoes`): liveness under
fairness and ENABLED are outside the prover's reach.  `WaitsForSomebody`, `NothingLeft`,
`NoneWaitsInVain` and `NoneUnanswered` prove what of them is safety.  The four violated properties are
shown by their counterexamples.

## 6. Plan

Done: the redigo pool and session, the abstract pool and two implementations of it,
go-cache, hystrix, the rate limiter, thirty-six theorems.

Modules that could follow:

1. `RedisPyPool`: the third implementation of `ConnPool`, which counts its connections
   without a lock.
2. `AsyncParallel`: the order of the results.
3. `WsgiServer`: the shutdown protocol.
4. `PyMySQLConn`: sequence numbers, unbuffered results.

## 7. Not modelled

- The RESP codec, base62, the sorts, searches and traversals: pure functions that a
  table of test cases settles; they have no interleaving, no state and no failure that
  a model would add to.
- async, redis-py, PyMySQL, wsgiref: see the plan.  They come after the Go programs
  because their source is a reader's copy of library code, of which many parts it calls
  (sockets, the parser's buffer, the base handler) are outside the repository.
- The mock clock of ratelimit: used by a test only.
- The REST demos, the blog and the URL shortener's table: each handler runs one SQL
  statement, and what could go wrong is the database's.
- collections, pystatsd, vim-commenter: fragments, one UDP packet, text editing.
