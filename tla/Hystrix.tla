------------------------------ MODULE Hystrix ------------------------------
(***************************************************************************)
(* hystrix-go: commands that run under a circuit breaker and a limit on    *)
(* their number.  A command has two goroutines: the runner asks the        *)
(* circuit for permission, takes a ticket and runs the function; the       *)
(* watcher waits for the time-out or the context.  A sync.Once decides     *)
(* which of them returns the ticket, answers the caller and reports.  The  *)
(* circuit is read and written under different locks, or none, and its     *)
(* metrics are counted by goroutines of their own.                         *)
(*                                                                         *)
(* All commands have one name and so one circuit.  A member of Commands    *)
(* stands for one call of DoC after the other.                             *)
(***************************************************************************)
EXTENDS Integers, FiniteSets, Sequences

CONSTANTS Commands,
          MaxConcurrent,    \* MaxConcurrentRequests
          SleepWindow,
          VolumeThreshold,  \* RequestVolumeThreshold
          ErrorPercent,     \* ErrorPercentThreshold
          MaxUpdates,       \* the capacity of metrics.Updates, 2000 in the code
          MaxRecorded,      \* bound: results in the window of the metrics
          Shadowed          \* getCurrentBucket returns the outer variable, nil,
                            \* for a second without a bucket: TRUE in the code

ASSUME HystrixAssumption ==
    /\ IsFiniteSet(Commands)
    /\ MaxConcurrent \in Nat /\ SleepWindow \in Nat
    /\ VolumeThreshold \in Nat /\ ErrorPercent \in Nat
    /\ MaxUpdates \in Nat /\ MaxRecorded \in Nat
    /\ Shadowed \in BOOLEAN

VARIABLES
    circuits,   \* how many circuits GetCircuit has made
    open,       \* cb.open
    age,        \* time since cb.openedOrLastTestedTime, capped at Oldest
    lag,        \* for each runner in allowSingleTest, time since it read the clock;
                \* Stale if the time it loaded was overwritten since
    recorded,   \* the results in the metrics' window, oldest first: is it an error
    halfway,    \* the Monitor has counted the newest as a request, not as an error yet
    updates,    \* metrics.Updates
    counting,   \* the Monitor of the pool has an update to count
    tickets,    \* how many tickets are in the channel
    fatal,      \* the process panicked
    \* Of each command:
    caller,     \* where its caller is
    done,       \* what is in DoC's channel done
    errChan,    \* what is in cmd.errChan
    runner,     \* where its runner is
    result,     \* what the runner ends with
    requests,   \* the number that ErrorPercent has read
    watcher,    \* where its watcher is
    once,       \* who has taken returnOnce
    body,       \* where the function is that returnOnce runs
    ticket      \* cmd.ticket, with ticketChecked

circuit == <<circuits, open, age, lag>>
metrics == <<recorded, halfway, updates, counting>>
calls == <<caller, done, errChan>>
runs == <<runner, result, requests>>
onces == <<once, body>>
vars == <<circuit, metrics, tickets, fatal, calls, runs, watcher, onces, ticket>>

Stale == -1
LongAgo == SleepWindow + 1   \* bound: a lag is counted up to here
Oldest == 2 * LongAgo        \* bound: an age, which a lag is taken off
WatcherResults == {"timeout", "context"}
FoundOpen == {"trip", "test", "swap"}
Undecided ==
    {"allow", "volume", "requests", "errors", "trip", "test", "swap", "ticket"}

TypeOK ==
    /\ circuits \in Nat /\ open \in BOOLEAN /\ age \in 0..Oldest
    /\ lag \in [Commands -> Stale..LongAgo]
    /\ recorded \in Seq(BOOLEAN) /\ Len(recorded) =< MaxRecorded
    /\ updates \in Seq(BOOLEAN) /\ Len(updates) =< MaxUpdates
    /\ counting \in BOOLEAN /\ halfway \in BOOLEAN /\ fatal \in BOOLEAN
    /\ tickets \in 0..MaxConcurrent
    /\ caller \in [Commands -> {"idle", "create", "wait"}]
    /\ done \in [Commands -> 0..1] /\ errChan \in [Commands -> 0..1]
    /\ runner \in [Commands -> Undecided \cup {"run", "once", "ended"}]
    /\ result \in [Commands -> {"none", "success", "failure", "rejected",
                                "short-circuit"}]
    /\ requests \in [Commands -> 0..MaxRecorded]
    /\ watcher \in [Commands -> {"select", "ended"}]
    /\ once \in [Commands -> {"free", "runner", "over"} \cup WatcherResults]
    /\ body \in [Commands -> {"none", "return", "answer", "report", "close", "reset",
                              "send"}]
    /\ ticket \in [Commands -> {"unchecked", "none", "held", "returned"}]

\* No command was started yet: all of them look finished.
Init ==
    /\ circuits = 0 /\ open = FALSE /\ age = LongAgo
    /\ lag = [c \in Commands |-> Stale]
    /\ recorded = << >> /\ halfway = FALSE /\ updates = << >> /\ counting = FALSE
    /\ tickets = MaxConcurrent
    /\ fatal = FALSE
    /\ caller = [c \in Commands |-> "idle"]
    /\ done = [c \in Commands |-> 0] /\ errChan = [c \in Commands |-> 0]
    /\ runner = [c \in Commands |-> "ended"]
    /\ result = [c \in Commands |-> "none"]
    /\ requests = [c \in Commands |-> 0]
    /\ watcher = [c \in Commands |-> "ended"]
    /\ once = [c \in Commands |-> "over"]
    /\ body = [c \in Commands |-> "none"]
    /\ ticket = [c \in Commands |-> "none"]

-----------------------------------------------------------------------------
\* A step that does not bring the process down, which still runs.
Alive == ~fatal /\ UNCHANGED fatal

\* GoC makes the command, its channels and its goroutines.
Started(c) ==
    /\ caller' = [caller EXCEPT ![c] = "wait"]
    /\ done' = [done EXCEPT ![c] = 0]
    /\ errChan' = [errChan EXCEPT ![c] = 0]
    /\ runner' = [runner EXCEPT ![c] = "allow"]
    /\ watcher' = [watcher EXCEPT ![c] = "select"]
    /\ once' = [once EXCEPT ![c] = "free"]
    /\ ticket' = [ticket EXCEPT ![c] = "unchecked"]

\* GetCircuit: it finds the circuit, or has to make it.
BeginCall(c) ==
    /\ caller[c] = "idle" /\ runner[c] = "ended" /\ watcher[c] = "ended"
    /\ IF circuits > 0
       THEN Started(c)
       ELSE /\ caller' = [caller EXCEPT ![c] = "create"]
            /\ UNCHANGED <<done, errChan, runner, watcher, once, ticket>>
    /\ Alive
    /\ UNCHANGED <<circuit, metrics, tickets, result, requests, body>>

\* Mutant of Create: the second look, under the write lock, is missing.
CreateAgain(c) ==
    /\ caller[c] = "create"
    /\ circuits' = circuits + 1
    /\ Started(c)
    /\ Alive
    /\ UNCHANGED <<open, age, lag, metrics, tickets, result, requests, body>>

Create(c) ==
    /\ caller[c] = "create"
    /\ circuits' = IF circuits > 0 THEN circuits ELSE 1
    /\ Started(c)
    /\ Alive
    /\ UNCHANGED <<open, age, lag, metrics, tickets, result, requests, body>>

\* DoC's select.
Answered(c) ==
    /\ caller[c] = "wait"
    /\ caller' = [caller EXCEPT ![c] = "idle"]
    /\ \/ done[c] = 1 /\ done' = [done EXCEPT ![c] = 0] /\ UNCHANGED errChan
       \/ errChan[c] = 1 /\ errChan' = [errChan EXCEPT ![c] = 0] /\ UNCHANGED done
    /\ Alive
    /\ UNCHANGED <<circuit, metrics, tickets, runs, watcher, onces, ticket>>

-----------------------------------------------------------------------------
\* The runner.
Move(c, from, to) == runner[c] = from /\ runner' = [runner EXCEPT ![c] = to]

\* Mutant of Deny: nobody is told that there will be no ticket.
DenySilently(c, from, why) ==
    /\ Move(c, from, "once")
    /\ result' = [result EXCEPT ![c] = why]
    /\ UNCHANGED ticket

\* The command may not run: the ticket is settled, and the runner comes to the Once.
Deny(c, from, why) ==
    /\ Move(c, from, "once")
    /\ result' = [result EXCEPT ![c] = why]
    /\ ticket' = [ticket EXCEPT ![c] = "none"]

\* IsOpen reads cb.open under its lock, then the number of requests.
IsOpen(c) ==
    /\ Move(c, "allow", IF open THEN "test" ELSE "volume")
    /\ Alive
    /\ UNCHANGED <<circuit, metrics, tickets, calls, result, requests, watcher, onces,
                   ticket>>

ReadVolume(c) ==
    /\ Move(c, "volume", IF Len(recorded) < VolumeThreshold THEN "ticket"
                         ELSE "requests")
    /\ Alive
    /\ UNCHANGED <<circuit, metrics, tickets, calls, result, requests, watcher, onces,
                   ticket>>

\* ErrorPercent reads the requests and then the errors.
ReadRequests(c) ==
    /\ Move(c, "requests", "errors")
    /\ requests' = [requests EXCEPT ![c] = Len(recorded)]
    /\ Alive
    /\ UNCHANGED <<circuit, metrics, tickets, calls, result, watcher, onces, ticket>>

Errors ==
    Cardinality({i \in DOMAIN recorded :
                    recorded[i] /\ ~(halfway /\ i = Len(recorded))})

\* 100 * errors / requests, rounded, is below the threshold.
IsHealthy(errors, reqs) ==
    IF reqs = 0 THEN 0 < ErrorPercent
                ELSE (200 * errors + reqs) \div (2 * reqs) < ErrorPercent

ReadErrors(c) ==
    /\ Move(c, "errors", IF IsHealthy(Errors, requests[c]) THEN "ticket" ELSE "trip")
    /\ requests' = [requests EXCEPT ![c] = 0]
    /\ Alive
    /\ UNCHANGED <<circuit, metrics, tickets, calls, result, watcher, onces, ticket>>

\* cb.openedOrLastTestedTime is set to a time t ago.
SetTested(t) ==
    /\ age' = t
    /\ lag' = [d \in Commands |-> Stale]

\* Between the halves of allowSingleTest cb.mutex is held for reading.
NoReader == \A d \in Commands : runner[d] # "swap"

SetOpen(c) ==
    /\ Move(c, "trip", "test")
    /\ NoReader
    /\ open' = TRUE
    /\ IF open THEN UNCHANGED <<age, lag>> ELSE SetTested(0)
    /\ Alive
    /\ UNCHANGED <<circuits, metrics, tickets, calls, result, requests, watcher, onces,
                   ticket>>

MayTest == open /\ age > SleepWindow

\* Mutant of AllowSingleTest: an attempt that comes too early starts a new window.
AllowSingleTestRestarts(c) ==
    /\ \/ /\ MayTest /\ Move(c, "test", "swap")
          /\ lag' = [lag EXCEPT ![c] = 0]
          /\ UNCHANGED <<age, result, ticket>>
       \/ ~MayTest /\ Deny(c, "test", "short-circuit") /\ SetTested(0)
    /\ Alive
    /\ UNCHANGED <<circuits, open, metrics, tickets, calls, requests, watcher, onces>>

\* allowSingleTest: the clock, the time loaded and the test.
AllowSingleTest(c) ==
    /\ \/ /\ MayTest /\ Move(c, "test", "swap")
          /\ lag' = [lag EXCEPT ![c] = 0]
          /\ UNCHANGED <<result, ticket>>
       \/ ~MayTest /\ Deny(c, "test", "short-circuit") /\ UNCHANGED lag
    /\ Alive
    /\ UNCHANGED <<circuits, open, age, metrics, tickets, calls, requests, watcher,
                   onces>>

\* Mutant of Swap: a store, which does not compare.
SwapAlways(c) ==
    /\ Move(c, "swap", "ticket")
    /\ SetTested(IF lag[c] = Stale THEN 0 ELSE lag[c])
    /\ Alive
    /\ UNCHANGED <<circuits, open, metrics, tickets, calls, result, requests, watcher,
                   onces, ticket>>

\* The compare-and-swap.
Swap(c) ==
    /\ \/ /\ lag[c] # Stale /\ Move(c, "swap", "ticket")
          /\ SetTested(lag[c])
          /\ UNCHANGED <<result, ticket>>
       \/ /\ lag[c] = Stale /\ Deny(c, "swap", "short-circuit")
          /\ UNCHANGED <<age, lag>>
    /\ Alive
    /\ UNCHANGED <<circuits, open, metrics, tickets, calls, requests, watcher, onces>>

TakeTicket(c) ==
    /\ \/ /\ tickets > 0 /\ Move(c, "ticket", "run")
          /\ tickets' = tickets - 1
          /\ ticket' = [ticket EXCEPT ![c] = "held"]
          /\ UNCHANGED result
       \/ tickets = 0 /\ Deny(c, "ticket", "rejected") /\ UNCHANGED tickets
    /\ Alive
    /\ UNCHANGED <<circuit, metrics, calls, requests, watcher, onces>>

\* The function of the application: it may take for ever.  DoC sends to done, which
\* has room for one value, before the function is over.
RunSucceeds(c) ==
    /\ Move(c, "run", "once")
    /\ done[c] = 0 /\ done' = [done EXCEPT ![c] = 1]
    /\ result' = [result EXCEPT ![c] = "success"]
    /\ Alive
    /\ UNCHANGED <<circuit, metrics, tickets, caller, errChan, requests, watcher, onces,
                   ticket>>

RunFails(c) ==
    /\ Move(c, "run", "once")
    /\ result' = [result EXCEPT ![c] = "failure"]
    /\ Alive
    /\ UNCHANGED <<circuit, metrics, tickets, calls, requests, watcher, onces, ticket>>

\* returnOnce.Do: the first comer runs its function, the other one waits for its end.
TakeOnce(c, who) ==
    /\ once[c] = "free"
    /\ once' = [once EXCEPT ![c] = who]
    /\ body' = [body EXCEPT ![c] = "return"]

RunnerOnce(c) ==
    /\ runner[c] = "once" /\ TakeOnce(c, "runner")
    /\ Alive
    /\ UNCHANGED <<circuit, metrics, tickets, calls, runs, watcher, ticket>>

RunnerEnds(c) ==
    /\ Move(c, "once", "ended") /\ once[c] = "over"
    /\ result' = [result EXCEPT ![c] = "none"]
    /\ Alive
    /\ UNCHANGED <<circuit, metrics, tickets, calls, requests, watcher, onces, ticket>>

-----------------------------------------------------------------------------
\* The watcher's select.
WatcherFires(c) ==
    /\ watcher[c] = "select" /\ \E why \in WatcherResults : TakeOnce(c, why)
    /\ Alive
    /\ UNCHANGED <<circuit, metrics, tickets, calls, runs, watcher, ticket>>

\* It has run its function, or sees cmd.finished, or finds the Once over.
WatcherEnds(c) ==
    /\ watcher[c] = "select" /\ once[c] = "over"
    /\ watcher' = [watcher EXCEPT ![c] = "ended"]
    /\ Alive
    /\ UNCHANGED <<circuit, metrics, tickets, calls, runs, onces, ticket>>

-----------------------------------------------------------------------------
\* The function that returnOnce runs.
Result(c) == IF once[c] = "runner" THEN result[c] ELSE once[c]

At(c, from, to) == body[c] = from /\ body' = [body EXCEPT ![c] = to]

\* executorPool.Return: an update for the pool's Monitor, which has to be ready for
\* it, and the ticket.
Return(c) ==
    /\ ~counting /\ counting' = TRUE
    /\ tickets' = tickets + 1
    /\ ticket' = [ticket EXCEPT ![c] = "returned"]

\* Mutant of AfterReturn: a run that fails goes on to the events like one that succeeds.
AfterReturnUnanswered(c) == IF once[c] = "runner" THEN "report" ELSE "answer"

AfterReturn(c) == IF Result(c) = "success" THEN "report" ELSE "answer"

\* Mutant of ReturnTicket: it does not wait for ticketChecked.
ReturnTicketEarly(c) ==
    /\ At(c, "return", AfterReturn(c))
    /\ \/ ticket[c] = "held" /\ Return(c)
       \/ ticket[c] # "held" /\ UNCHANGED <<counting, tickets, ticket>>
    /\ Alive
    /\ UNCHANGED <<circuit, recorded, halfway, updates, calls, runs, watcher, once>>

\* Mutant of ReturnTicket: Return puts a ticket into the channel even if there is none.
ReturnTicketNil(c) ==
    /\ At(c, "return", AfterReturn(c))
    /\ ticket[c] # "unchecked" /\ Return(c)
    /\ Alive
    /\ UNCHANGED <<circuit, recorded, halfway, updates, calls, runs, watcher, once>>

\* returnTicket waits until it is known whether there is a ticket.
ReturnTicket(c) ==
    /\ At(c, "return", AfterReturn(c))
    /\ \/ ticket[c] = "held" /\ Return(c)
       \/ ticket[c] = "none" /\ UNCHANGED <<counting, tickets, ticket>>
    /\ Alive
    /\ UNCHANGED <<circuit, recorded, halfway, updates, calls, runs, watcher, once>>

\* Mutant of Answer: the channels have no room, and the caller must be there.
AnswerUnbuffered(c) ==
    /\ At(c, "answer", "report") /\ caller[c] = "wait"
    /\ \/ done' = [done EXCEPT ![c] = 1] /\ UNCHANGED errChan
       \/ errChan' = [errChan EXCEPT ![c] = 1] /\ UNCHANGED done
    /\ Alive
    /\ UNCHANGED <<circuit, metrics, tickets, caller, runs, watcher, once, ticket>>

\* errorWithFallback: the fallback's success goes to DoC's done; its failure, or the
\* error itself where there is no fallback, goes to errChan.
Answer(c) ==
    /\ At(c, "answer", "report")
    /\ \/ done[c] = 0 /\ done' = [done EXCEPT ![c] = 1] /\ UNCHANGED errChan
       \/ errChan[c] = 0 /\ errChan' = [errChan EXCEPT ![c] = 1] /\ UNCHANGED done
    /\ Alive
    /\ UNCHANGED <<circuit, metrics, tickets, caller, runs, watcher, once, ticket>>

\* ReportEvent: a success finds the circuit open.  setClose waits until nobody has
\* the lock, lets go of it, and looks at cb.open; its write is a step of its own.
Report(c) ==
    /\ \/ Result(c) = "success" /\ open /\ NoReader /\ At(c, "report", "close")
       \/ ~(Result(c) = "success" /\ open) /\ At(c, "report", "send")
    /\ Alive
    /\ UNCHANGED <<circuit, metrics, tickets, calls, runs, watcher, once, ticket>>

SetClose(c) ==
    /\ At(c, "close", "reset")
    /\ open' = FALSE
    /\ Alive
    /\ UNCHANGED <<circuits, age, lag, metrics, tickets, calls, runs, watcher, once,
                   ticket>>

\* Reset waits until nobody holds m.Mutex for reading: ErrorPercent, between the two
\* numbers, and the Monitor.
ResetMetrics(c) ==
    /\ At(c, "reset", "send")
    /\ ~halfway /\ \A d \in Commands : runner[d] # "errors"
    /\ recorded' = << >>
    /\ Alive
    /\ UNCHANGED <<circuit, halfway, updates, counting, tickets, calls, runs, watcher, once,
                   ticket>>

\* What the event may count as, TRUE for an error: a run that ends with the error of its
\* context is reported like the context, any other failure as an error.
CountsAs(c) ==
    IF Result(c) = "failure" THEN BOOLEAN ELSE {Result(c) \notin {"success", "context"}}

\* The update is dropped when the channel is full.
SendUpdate(c) ==
    /\ At(c, "send", "none")
    /\ \E isError \in CountsAs(c) :
          updates' = IF Len(updates) < MaxUpdates THEN Append(updates, isError)
                                                  ELSE updates
    /\ once' = [once EXCEPT ![c] = "over"]
    /\ Alive
    /\ UNCHANGED <<circuit, recorded, halfway, counting, tickets, calls, runs, watcher,
                   ticket>>

-----------------------------------------------------------------------------
\* What getCurrentBucket returns for the first event of a second, and Increment
\* dereferences.
BucketIsNil == Shadowed

\* The Monitors: metricExchange.Monitor and poolMetrics.Monitor.
CountUpdate ==
    /\ ~fatal /\ ~halfway /\ updates # << >>
    /\ Len(recorded) < MaxRecorded
    /\ updates' = Tail(updates)
    /\ IF BucketIsNil
       THEN fatal' = TRUE /\ UNCHANGED <<recorded, halfway>>
       ELSE /\ recorded' = Append(recorded, Head(updates)) /\ halfway' = TRUE
            /\ UNCHANGED fatal
    /\ UNCHANGED <<circuit, counting, tickets, calls, runs, watcher, onces, ticket>>

CountError ==
    /\ halfway /\ halfway' = FALSE
    /\ Alive
    /\ UNCHANGED <<circuit, recorded, updates, counting, tickets, calls, runs, watcher,
                   onces, ticket>>

CountReturn ==
    /\ ~fatal /\ counting
    /\ counting' = FALSE
    /\ fatal' = BucketIsNil
    /\ UNCHANGED <<circuit, recorded, halfway, updates, tickets, calls, runs, watcher,
                   onces, ticket>>

\* The oldest bucket leaves the window.
Forget ==
    /\ recorded # << >> /\ (halfway => Len(recorded) > 1)
    /\ recorded' = Tail(recorded)
    /\ Alive
    /\ UNCHANGED <<circuit, halfway, updates, counting, tickets, calls, runs, watcher,
                   onces, ticket>>

\* A second passes.  Times are counted up to their bounds, and beyond LongAgo only for a
\* runner's delay to be taken off.
Tick ==
    LET delayed == {c \in Commands : lag[c] \in 0..SleepWindow}
    IN /\ age < LongAgo \/ delayed # {}
       /\ age' = IF age < LongAgo \/ (delayed # {} /\ age < Oldest) THEN age + 1 ELSE age
       /\ lag' = [c \in Commands |-> IF c \in delayed THEN lag[c] + 1 ELSE lag[c]]
    /\ Alive
    /\ UNCHANGED <<circuits, open, metrics, tickets, calls, runs, watcher, onces,
                   ticket>>

-----------------------------------------------------------------------------
Caller(c) == BeginCall(c) \/ Create(c) \/ Answered(c)
Allow(c) ==
    \/ IsOpen(c) \/ ReadVolume(c) \/ ReadRequests(c) \/ ReadErrors(c)
    \/ SetOpen(c) \/ AllowSingleTest(c) \/ Swap(c)
Runner(c) ==
    \/ Allow(c) \/ TakeTicket(c)
    \/ RunSucceeds(c) \/ RunFails(c)
    \/ RunnerOnce(c) \/ RunnerEnds(c)
Watcher(c) == WatcherFires(c) \/ WatcherEnds(c)
Body(c) ==
    \/ ReturnTicket(c) \/ Answer(c) \/ Report(c) \/ SetClose(c)
    \/ ResetMetrics(c) \/ SendUpdate(c)
Monitors == CountUpdate \/ CountError \/ CountReturn

Next ==
    \/ \E c \in Commands : Caller(c) \/ Runner(c) \/ Watcher(c) \/ Body(c)
    \/ Monitors \/ Forget \/ Tick

Spec == Init /\ [][Next]_vars

\* The scheduler runs every goroutine, clocks go on and timers fire, and callers come
\* back.  A writer that waits for a mutex holds up new readers, and a send to a
\* Monitor is taken in its turn: hence SF.  Nothing makes the application's function
\* return.
FairSpec ==
    /\ Spec
    /\ WF_vars(CountUpdate) /\ WF_vars(CountError) /\ WF_vars(CountReturn)
    /\ WF_vars(Forget) /\ WF_vars(Tick)
    /\ \A c \in Commands :
          /\ WF_vars(Caller(c)) /\ WF_vars(Allow(c)) /\ WF_vars(TakeTicket(c))
          /\ WF_vars(RunnerOnce(c)) /\ WF_vars(RunnerEnds(c))
          /\ WF_vars(WatcherFires(c)) /\ WF_vars(WatcherEnds(c))
          /\ WF_vars(Body(c))
          /\ SF_vars(SetOpen(c)) /\ SF_vars(Report(c))
          /\ SF_vars(ResetMetrics(c)) /\ SF_vars(ReturnTicket(c))

-----------------------------------------------------------------------------
Holders == {c \in Commands : ticket[c] = "held"}

\* Whoever wins the Once, the runner or the time-out, a ticket that was taken is
\* given back once: tickets are neither lost nor made, and a finished command has none.
TicketOnce ==
    /\ tickets + Cardinality(Holders) = MaxConcurrent
    /\ \A c \in Holders : once[c] # "over"

\* Commands that make the same circuit at the same time get one circuit, so that they
\* share one pool of tickets.
OneCircuit == circuits =< 1

\* A command that found the circuit open, or opened it, passes only as a test, and the
\* time of its test, as it read the clock, is more than SleepWindow after the opening or
\* the test before: of the commands that saw one window over a single one passes, and
\* the tests of an open circuit are no more than the windows gone by.  Two may still
\* pass at one moment, when the first was delayed before its compare-and-swap.  A command
\* that read cb.open before it was set passes untested, and is not meant here.
SingleTest ==
    [][\A c \in Commands :
          runner[c] \in FoundOpen /\ runner'[c] = "ticket" => age - age' > SleepWindow]_vars

\* When a command is over and DoC still waits, an answer is there for it: whoever won the
\* Once, runner, time-out or context, the winner's value, error or fallback was sent.
AnsweredWhenOver ==
    \A c \in Commands :
       caller[c] = "wait" /\ once[c] = "over" => done[c] = 1 \/ errChan[c] = 1

\* A caller of DoC gets an answer, even from a run that hangs, is denied or fails.
CallsReturn ==
    \A c \in Commands : caller[c] = "wait" ~> caller[c] = "idle"

\* The goroutines of a command end, but for a run that hangs, and the Once is over:
\* the runner and the watcher do not wait for each other.
CommandsEnd ==
    \A c \in Commands :
       once[c] = "free" ~> /\ once[c] = "over" /\ watcher[c] = "ended"
                           /\ runner[c] \in {"ended", "run"}

\* If runs return, and from some time on none fails or is timed out, then the circuit
\* does not stay open for ever: a test gets through and closes it.
Trouble == \E c \in Commands : RunFails(c) \/ WatcherFires(c)
RunsReturn == \A c \in Commands : []<>(runner[c] # "run")
Recovers == RunsReturn /\ <>[][~Trouble]_vars => []<>~open

\* Counting an event does not bring the process down.
NoPanic == ~fatal

-----------------------------------------------------------------------------
\* The inductive strengthening of the safety properties: before a runner knows
\* whether it may run nobody has settled its ticket, and until the ticket is settled
\* the Once is not over; a runner that is on its way to the compare-and-swap with the
\* time it loaded saw the window over.
CommandInv ==
    \A c \in Commands :
       /\ runner[c] \in Undecided => ticket[c] = "unchecked"
       /\ ticket[c] \in {"unchecked", "held"} =>
             once[c] # "over" /\ body[c] \in {"none", "return"}
       /\ once[c] \in {"free", "over"} => body[c] = "none"
       /\ runner[c] = "ended" => once[c] = "over"
       /\ caller[c] = "create" => runner[c] = "ended"

TestInv ==
    \A c \in Commands :
       runner[c] = "swap" /\ lag[c] # Stale => age - lag[c] > SleepWindow

\* The result is that of a runner before its end; the runner that succeeded has answered,
\* and so has the function of the Once when it comes to the events.
AnswerInv ==
    \A c \in Commands :
       /\ runner[c] # "once" => result[c] = "none"
       /\ caller[c] = "wait" /\ result[c] = "success" => done[c] = 1
       /\ caller[c] = "wait"
          /\ (once[c] = "over" \/ body[c] \in {"report", "close", "reset", "send"}) =>
             done[c] = 1 \/ errChan[c] = 1

IInv == TypeOK /\ CommandInv /\ TicketOnce /\ TestInv /\ OneCircuit
=============================================================================
