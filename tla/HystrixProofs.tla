--------------------------- MODULE HystrixProofs ---------------------------
(***************************************************************************)
(* Proofs about hystrix commands and their circuit, for any number of      *)
(* commands and any settings.  IInv is inductive: CommandInv says what the *)
(* runner and returnOnce know of the ticket at each place, and TestInv     *)
(* what a runner before its compare-and-swap knows of the window.          *)
(***************************************************************************)
EXTENDS Hystrix, FiniteSetTheorems, SequenceTheorems, TLAPS

-----------------------------------------------------------------------------
\* The commands that have a ticket, when one is taken, given back, or neither.
LEMMA HoldersFinite ==
    IsFiniteSet(Holders) /\ Cardinality(Holders) \in Nat
BY HystrixAssumption, FS_Subset, FS_CardinalityType DEF Holders

LEMMA TicketTaken ==
    ASSUME TypeOK, NEW c \in Commands, ticket[c] # "held",
           ticket' = [ticket EXCEPT ![c] = "held"]
    PROVE  /\ Holders' = Holders \cup {c}
           /\ Cardinality(Holders') = Cardinality(Holders) + 1
<1>1. Holders' = Holders \cup {c} /\ c \notin Holders
  BY DEF TypeOK, Holders
<1>. QED
  BY <1>1, HoldersFinite, FS_AddElement

LEMMA TicketGivenBack ==
    ASSUME TypeOK, NEW c \in Commands, ticket[c] = "held",
           ticket' = [ticket EXCEPT ![c] = "returned"]
    PROVE  /\ Holders' = Holders \ {c}
           /\ Cardinality(Holders') = Cardinality(Holders) - 1
           /\ Cardinality(Holders') \in Nat
<1>1. Holders' = Holders \ {c} /\ c \in Holders
  BY DEF TypeOK, Holders
<1>2. /\ IsFiniteSet(Holders \ {c})
      /\ Cardinality(Holders \ {c}) = Cardinality(Holders) - 1
  BY <1>1, HoldersFinite, FS_RemoveElement
<1>. QED
  BY <1>1, <1>2, FS_CardinalityType

LEMMA TicketElsewhere ==
    ASSUME TypeOK, NEW c \in Commands, ticket[c] # "held", NEW v, v # "held",
           ticket' = [ticket EXCEPT ![c] = v]
    PROVE  Holders' = Holders
BY DEF TypeOK, Holders

-----------------------------------------------------------------------------
\* The types, for the steps of the caller and the runner.
LEMMA CallerType ==
    ASSUME TypeOK, NEW c \in Commands, Caller(c)
    PROVE  TypeOK'
<1>1. CASE BeginCall(c) /\ circuits > 0
  <2>1. /\ Started(c)
        /\ UNCHANGED <<circuit, metrics, tickets, result, requests, body, fatal>>
    BY <1>1 DEF BeginCall, Alive
  <2>. QED
    BY <2>1 DEF TypeOK, metrics, circuit, Undecided, Started
<1>2. CASE BeginCall(c) /\ ~(circuits > 0)
  BY <1>2 DEF TypeOK, circuit, metrics, BeginCall, Alive
<1>3. CASE Create(c)
  BY <1>3 DEF TypeOK, metrics, Create, Started, Undecided, Alive
<1>4. CASE Answered(c) /\ done' = [done EXCEPT ![c] = 0] /\ UNCHANGED errChan
  BY <1>4 DEF TypeOK, circuit, metrics, runs, onces, Answered, Alive
<1>5. CASE Answered(c) /\ errChan' = [errChan EXCEPT ![c] = 0] /\ UNCHANGED done
  BY <1>5 DEF TypeOK, circuit, metrics, runs, onces, Answered, Alive
<1>. QED
  BY <1>1, <1>2, <1>3, <1>4, <1>5 DEF Caller, Answered

LEMMA DenyType ==
    ASSUME TypeOK, NEW c \in Commands, NEW from,
           NEW why \in {"rejected", "short-circuit"}, Deny(c, from, why)
    PROVE  /\ runner' \in [Commands -> Undecided \cup {"run", "once", "ended"}]
           /\ result' \in [Commands -> {"none", "success", "failure", "rejected",
                                        "short-circuit"}]
           /\ ticket' \in [Commands -> {"unchecked", "none", "held", "returned"}]
BY DEF TypeOK, Deny, Move

LEMMA AllowType ==
    ASSUME TypeOK, NEW c \in Commands, Allow(c)
    PROVE  TypeOK'
<1>. USE HystrixAssumption
<1>1. 0 \in Stale..LongAgo /\ 0 \in 0..Oldest /\ Stale \in Stale..LongAgo
  BY DEF Stale, LongAgo, Oldest
<1>2. CASE IsOpen(c)
  BY <1>2 DEF TypeOK, circuit, metrics, calls, onces, IsOpen, Move, Undecided, Alive
<1>3. CASE ReadVolume(c)
  BY <1>3 DEF TypeOK, circuit, metrics, calls, onces, ReadVolume, Move, Undecided,
              Alive
<1>4. CASE ReadRequests(c)
  BY <1>4 DEF TypeOK, circuit, metrics, calls, onces, ReadRequests, Move, Undecided,
              Alive
<1>5. CASE ReadErrors(c)
  BY <1>5 DEF TypeOK, circuit, metrics, calls, onces, ReadErrors, Move, Undecided,
              Alive
<1>6. CASE SetOpen(c)
  BY <1>1, <1>6 DEF TypeOK, metrics, calls, onces, SetOpen, SetTested, Move, Undecided,
                    Alive
<1>7. CASE AllowSingleTest(c) /\ MayTest
  <2>1. /\ runner' = [runner EXCEPT ![c] = "swap"] /\ lag' = [lag EXCEPT ![c] = 0]
        /\ UNCHANGED <<circuits, open, age, metrics, tickets, fatal, calls, result,
                       requests, watcher, onces, ticket>>
    BY <1>7 DEF AllowSingleTest, Move, Alive
  <2>. QED
    BY <1>1, <2>1 DEF TypeOK, metrics, calls, onces, Undecided
<1>8. CASE AllowSingleTest(c) /\ ~MayTest
  <2>1. /\ Deny(c, "test", "short-circuit")
        /\ UNCHANGED <<circuit, metrics, tickets, fatal, calls, requests, watcher, onces>>
    BY <1>8 DEF AllowSingleTest, circuit, Alive
  <2>. QED
    BY <2>1, DenyType DEF TypeOK, circuit, metrics, calls, onces
<1>9. CASE Swap(c) /\ lag[c] # Stale
  <2>1. /\ runner' = [runner EXCEPT ![c] = "ticket"] /\ SetTested(lag[c])
        /\ UNCHANGED <<circuits, open, metrics, tickets, fatal, calls, result, requests,
                       watcher, onces, ticket>>
    BY <1>9 DEF Swap, Move, Alive
  <2>2. lag[c] \in 0..Oldest
    BY <1>9 DEF TypeOK, Stale, LongAgo, Oldest
  <2>. QED
    BY <1>1, <2>1, <2>2 DEF TypeOK, metrics, calls, onces, SetTested, Undecided
<1>a. CASE Swap(c) /\ lag[c] = Stale
  <2>1. /\ Deny(c, "swap", "short-circuit")
        /\ UNCHANGED <<circuit, metrics, tickets, fatal, calls, requests, watcher, onces>>
    BY <1>a DEF Swap, circuit, Alive
  <2>. QED
    BY <2>1, DenyType DEF TypeOK, circuit, metrics, calls, onces
<1>. QED
  BY <1>2, <1>3, <1>4, <1>5, <1>6, <1>7, <1>8, <1>9, <1>a DEF Allow

LEMMA RunnerType ==
    ASSUME TypeOK, NEW c \in Commands, Runner(c)
    PROVE  TypeOK'
<1>1. CASE Allow(c)
  BY <1>1, AllowType
<1>2. CASE TakeTicket(c) /\ tickets > 0
  <2>1. /\ runner' = [runner EXCEPT ![c] = "run"] /\ tickets' = tickets - 1
        /\ ticket' = [ticket EXCEPT ![c] = "held"]
        /\ UNCHANGED <<circuit, metrics, fatal, calls, result, requests, watcher, onces>>
    BY <1>2 DEF TakeTicket, Move, Alive
  <2>. QED
    BY <1>2, <2>1, HystrixAssumption DEF TypeOK, circuit, metrics, calls, onces
<1>3. CASE TakeTicket(c) /\ ~(tickets > 0)
  <2>1. /\ Deny(c, "ticket", "rejected")
        /\ UNCHANGED <<circuit, metrics, tickets, fatal, calls, requests, watcher, onces>>
    BY <1>3 DEF TakeTicket, Alive
  <2>. QED
    BY <2>1, DenyType DEF TypeOK, circuit, metrics, calls, onces
<1>4. CASE RunSucceeds(c)
  BY <1>4 DEF TypeOK, circuit, metrics, onces, RunSucceeds, Move, Alive
<1>5. CASE RunFails(c)
  BY <1>5 DEF TypeOK, circuit, metrics, calls, onces, RunFails, Move, Alive
<1>6. CASE RunnerOnce(c)
  BY <1>6 DEF TypeOK, circuit, metrics, calls, runs, RunnerOnce, TakeOnce, Alive
<1>7. CASE RunnerEnds(c)
  BY <1>7 DEF TypeOK, circuit, metrics, calls, onces, RunnerEnds, Move, Alive
<1>. QED
  BY <1>1, <1>2, <1>3, <1>4, <1>5, <1>6, <1>7 DEF Runner

\* The types, for the steps of the watcher and the function of returnOnce.
LEMMA WatcherType ==
    ASSUME TypeOK, NEW c \in Commands, Watcher(c)
    PROVE  TypeOK'
<1>1. CASE WatcherFires(c)
  BY <1>1 DEF TypeOK, circuit, metrics, calls, runs, WatcherFires, TakeOnce, Alive
<1>2. CASE WatcherEnds(c)
  BY <1>2 DEF TypeOK, circuit, metrics, calls, runs, onces, WatcherEnds, Alive
<1>. QED
  BY <1>1, <1>2 DEF Watcher

\* The channel of updates keeps to its capacity.
LEMMA SendUpdateType ==
    ASSUME TypeOK, NEW c \in Commands, SendUpdate(c)
    PROVE  updates' \in Seq(BOOLEAN) /\ Len(updates') =< MaxUpdates
<1>. PICK e \in CountsAs(c) :
         updates' = IF Len(updates) < MaxUpdates THEN Append(updates, e) ELSE updates
  BY DEF SendUpdate
<1>1. e \in BOOLEAN /\ updates \in Seq(BOOLEAN)
  BY DEF TypeOK, CountsAs
<1>2. CASE Len(updates) < MaxUpdates
  <2>1. updates' = Append(updates, e)
    BY <1>2
  <2>2. /\ Append(updates, e) \in Seq(BOOLEAN)
        /\ Len(Append(updates, e)) = Len(updates) + 1
    BY <1>1, AppendProperties
  <2>. QED
    BY <1>1, <1>2, <2>1, <2>2, HystrixAssumption, LenProperties
<1>3. CASE ~(Len(updates) < MaxUpdates)
  BY <1>3 DEF TypeOK, SendUpdate
<1>. QED
  BY <1>2, <1>3

LEMMA BodyType ==
    ASSUME TypeOK, TicketOnce, NEW c \in Commands, Body(c)
    PROVE  TypeOK'
<1>1. CASE ReturnTicket(c)
  <2>1. tickets' \in 0..MaxConcurrent /\ counting' \in BOOLEAN
        /\ ticket' \in [Commands -> {"unchecked", "none", "held", "returned"}]
    <3>1. CASE ticket[c] = "held"
      <4>1. /\ tickets' = tickets + 1 /\ counting' = TRUE
            /\ ticket' = [ticket EXCEPT ![c] = "returned"]
        BY <1>1, <3>1 DEF ReturnTicket, Return
      <4>2. Cardinality(Holders) \in Nat /\ Cardinality(Holders) - 1 \in Nat
        BY <3>1, <4>1, TicketGivenBack, HoldersFinite
      <4>3. tickets + 1 \in 0..MaxConcurrent
        BY <4>2, HystrixAssumption DEF TypeOK, TicketOnce
      <4>. QED
        BY <4>1, <4>3 DEF TypeOK
    <3>2. CASE ticket[c] # "held"
      BY <1>1, <3>2 DEF TypeOK, ReturnTicket
    <3>. QED
      BY <3>1, <3>2
  <2>2. body' \in [Commands -> {"none", "return", "answer", "report", "close", "reset",
                                "send"}]
    BY <1>1 DEF TypeOK, ReturnTicket, At, AfterReturn
  <2>. QED
    BY <1>1, <2>1, <2>2 DEF TypeOK, circuit, calls, runs, ReturnTicket, Alive
<1>2. CASE Answer(c) /\ done' = [done EXCEPT ![c] = 1] /\ UNCHANGED errChan
  BY <1>2 DEF TypeOK, circuit, metrics, runs, Answer, At, Alive
<1>3. CASE Answer(c) /\ errChan' = [errChan EXCEPT ![c] = 1] /\ UNCHANGED done
  BY <1>3 DEF TypeOK, circuit, metrics, runs, Answer, At, Alive
<1>4. CASE Report(c)
  BY <1>4 DEF TypeOK, circuit, metrics, calls, runs, Report, At, Alive
<1>5. CASE SetClose(c)
  BY <1>5 DEF TypeOK, metrics, calls, runs, SetClose, At, Alive
<1>6. CASE ResetMetrics(c)
  BY <1>6, HystrixAssumption DEF TypeOK, circuit, calls, runs, ResetMetrics, At, Alive
<1>7. CASE SendUpdate(c)
  BY <1>7, SendUpdateType DEF TypeOK, circuit, calls, runs, SendUpdate, At, Alive
<1>. QED
  BY <1>1, <1>2, <1>3, <1>4, <1>5, <1>6, <1>7 DEF Body, Answer

\* The types, for the steps of the environment.
LEMMA OtherType ==
    ASSUME TypeOK, Monitors \/ Forget \/ Tick
    PROVE  TypeOK'
<1>1. CASE CountUpdate
  <2>1. /\ Head(updates) \in BOOLEAN /\ Tail(updates) \in Seq(BOOLEAN)
        /\ Len(Tail(updates)) =< MaxUpdates
    BY <1>1, HeadTailProperties, LenProperties, HystrixAssumption DEF TypeOK, CountUpdate
  <2>2. recorded' \in Seq(BOOLEAN) /\ Len(recorded') =< MaxRecorded
    <3>1. CASE Shadowed
      BY <1>1, <3>1 DEF TypeOK, CountUpdate, BucketIsNil
    <3>2. CASE ~Shadowed
      <4>. DEFINE e == Head(updates)
      <4>1. e \in BOOLEAN /\ recorded \in Seq(BOOLEAN) /\ recorded' = Append(recorded, e)
        BY <1>1, <2>1, <3>2 DEF TypeOK, CountUpdate, BucketIsNil
      <4>. HIDE DEF e
      <4>2. /\ Append(recorded, e) \in Seq(BOOLEAN)
            /\ Len(Append(recorded, e)) = Len(recorded) + 1
        BY <4>1, AppendProperties
      <4>. QED
        BY <1>1, <4>1, <4>2, HystrixAssumption, LenProperties DEF CountUpdate
    <3>. QED
      BY <3>1, <3>2
  <2>3. fatal' \in BOOLEAN /\ halfway' \in BOOLEAN
    BY <1>1, HystrixAssumption DEF TypeOK, CountUpdate, BucketIsNil
  <2>. QED
    BY <1>1, <2>1, <2>2, <2>3 DEF TypeOK, circuit, calls, runs, onces, CountUpdate
<1>2. CASE CountReturn
  BY <1>2, HystrixAssumption DEF TypeOK, circuit, calls, runs, onces, CountReturn,
     BucketIsNil
<1>3. CASE Forget
  <2>1. Tail(recorded) \in Seq(BOOLEAN) /\ Len(Tail(recorded)) =< MaxRecorded
    BY <1>3, HeadTailProperties, LenProperties, HystrixAssumption DEF TypeOK, Forget
  <2>. QED
    BY <1>3, <2>1 DEF TypeOK, circuit, calls, runs, onces, Forget, Alive
<1>4. CASE Tick
  <2>1. age' \in 0..Oldest
    BY <1>4, HystrixAssumption DEF TypeOK, Tick, LongAgo, Oldest
  <2>2. lag' \in [Commands -> Stale..LongAgo]
    BY <1>4, HystrixAssumption DEF TypeOK, Tick, LongAgo, Stale
  <2>. QED
    BY <1>4, <2>1, <2>2 DEF TypeOK, metrics, calls, runs, onces, Tick, Alive
<1>5. CASE CountError
  BY <1>5 DEF TypeOK, circuit, calls, runs, onces, CountError, Alive
<1>. QED
  BY <1>1, <1>2, <1>3, <1>4, <1>5 DEF Monitors

LEMMA TypeStep ==
    ASSUME TypeOK, TicketOnce, [Next]_vars
    PROVE  TypeOK'
<1>1. CASE UNCHANGED vars
  BY <1>1 DEF TypeOK, vars, circuit, metrics, calls, runs, onces
<1>. QED
  BY <1>1, CallerType, RunnerType, WatcherType, BodyType, OtherType DEF Next

-----------------------------------------------------------------------------
\* What a runner and returnOnce know of the ticket: the steps of the caller and of the
\* runner.
LEMMA StartedCommand ==
    ASSUME TypeOK, CommandInv, NEW c \in Commands, Started(c), UNCHANGED body,
           body[c] = "none"
    PROVE  CommandInv'
BY DEF TypeOK, CommandInv, Started, Undecided

LEMMA CallerCommand ==
    ASSUME TypeOK, CommandInv, NEW c \in Commands, Caller(c)
    PROVE  CommandInv'
<1>. body[c] = "none" \/ ~(BeginCall(c) \/ Create(c))
  BY DEF CommandInv, BeginCall, Create
<1>1. CASE BeginCall(c) /\ circuits > 0
  BY <1>1, StartedCommand DEF BeginCall
<1>2. CASE BeginCall(c) /\ ~(circuits > 0)
  BY <1>2 DEF TypeOK, CommandInv, BeginCall
<1>3. CASE Create(c)
  BY <1>3, StartedCommand DEF Create
<1>4. CASE Answered(c)
  BY <1>4 DEF TypeOK, CommandInv, Answered, runs, onces
<1>. QED
  BY <1>1, <1>2, <1>3, <1>4 DEF Caller

LEMMA DenyCommand ==
    ASSUME TypeOK, CommandInv, NEW c \in Commands, NEW from \in Undecided, NEW why,
           Deny(c, from, why), UNCHANGED <<caller, onces>>
    PROVE  CommandInv'
BY DEF TypeOK, CommandInv, Deny, Move, Undecided, onces

\* A runner that is to run or not to run, and goes on asking.
LEMMA AsksOn ==
    ASSUME TypeOK, CommandInv, NEW c \in Commands, runner[c] \in Undecided,
           NEW to \in Undecided, runner' = [runner EXCEPT ![c] = to],
           UNCHANGED <<caller, onces, ticket>>
    PROVE  CommandInv'
BY DEF TypeOK, CommandInv, Undecided, onces

LEMMA AllowCommand ==
    ASSUME TypeOK, CommandInv, NEW c \in Commands, Allow(c)
    PROVE  CommandInv'
<1>1. CASE \E from, to \in Undecided :
              Move(c, from, to) /\ UNCHANGED <<caller, onces, ticket>>
  BY <1>1, AsksOn DEF Move
<1>2. CASE \E from \in Undecided :
              Deny(c, from, "short-circuit") /\ UNCHANGED <<caller, onces>>
  BY <1>2, DenyCommand
<1>3. \/ \E from, to \in Undecided :
            Move(c, from, to) /\ UNCHANGED <<caller, onces, ticket>>
      \/ \E from \in Undecided :
            Deny(c, from, "short-circuit") /\ UNCHANGED <<caller, onces>>
  BY DEF Allow, IsOpen, ReadVolume, ReadRequests, ReadErrors, SetOpen, AllowSingleTest,
         Swap, calls, Undecided
<1>. QED
  BY <1>1, <1>2, <1>3

LEMMA RunnerCommand ==
    ASSUME TypeOK, CommandInv, NEW c \in Commands, Runner(c)
    PROVE  CommandInv'
<1>1. CASE Allow(c)
  BY <1>1, AllowCommand
<1>2. CASE TakeTicket(c) /\ tickets > 0
  <2>1. /\ runner[c] = "ticket" /\ runner' = [runner EXCEPT ![c] = "run"]
        /\ ticket' = [ticket EXCEPT ![c] = "held"]
        /\ UNCHANGED <<caller, once, body>>
    BY <1>2 DEF TakeTicket, Move, calls, onces
  <2>. QED
    BY <2>1 DEF TypeOK, CommandInv, Undecided
<1>3. CASE TakeTicket(c) /\ ~(tickets > 0)
  BY <1>3, DenyCommand DEF TakeTicket, Undecided, calls
<1>4. CASE RunSucceeds(c) \/ RunFails(c)
  BY <1>4 DEF TypeOK, CommandInv, RunSucceeds, RunFails, Move, Undecided, calls, onces
<1>5. CASE RunnerOnce(c)
  BY <1>5 DEF TypeOK, CommandInv, RunnerOnce, TakeOnce, calls, runs
<1>6. CASE RunnerEnds(c)
  BY <1>6 DEF TypeOK, CommandInv, RunnerEnds, Move, Undecided, calls, onces
<1>. QED
  BY <1>1, <1>2, <1>3, <1>4, <1>5, <1>6 DEF Runner

\* The steps of the watcher, of the function of returnOnce and of the environment.
LEMMA WatcherCommand ==
    ASSUME TypeOK, CommandInv, NEW c \in Commands, Watcher(c)
    PROVE  CommandInv'
<1>1. CASE WatcherFires(c)
  BY <1>1 DEF TypeOK, CommandInv, WatcherFires, TakeOnce, WatcherResults, calls, runs
<1>2. CASE WatcherEnds(c)
  BY <1>2 DEF TypeOK, CommandInv, WatcherEnds, calls, runs, onces
<1>. QED
  BY <1>1, <1>2 DEF Watcher

LEMMA BodyCommand ==
    ASSUME TypeOK, CommandInv, NEW c \in Commands, Body(c)
    PROVE  CommandInv'
<1>1. CASE ReturnTicket(c)
  <2>1. /\ body[c] = "return" /\ ticket[c] \in {"held", "none"}
        /\ \E to \in {"answer", "report"} : body' = [body EXCEPT ![c] = to]
        /\ \/ ticket' = [ticket EXCEPT ![c] = "returned"]
           \/ ticket[c] = "none" /\ ticket' = ticket
        /\ UNCHANGED <<caller, runner, once>>
    BY <1>1 DEF ReturnTicket, Return, At, AfterReturn, calls, runs
  <2>. QED
    BY <2>1 DEF TypeOK, CommandInv
<1>2. CASE Answer(c) \/ Report(c) \/ SetClose(c) \/ ResetMetrics(c)
  <2>1. /\ body[c] \notin {"none", "return"}
        /\ \E to : body' = [body EXCEPT ![c] = to]
        /\ UNCHANGED <<caller, runner, once, ticket>>
    BY <1>2 DEF Answer, Report, SetClose, ResetMetrics, At, calls, runs
  <2>. QED
    BY <2>1 DEF TypeOK, CommandInv
<1>3. CASE SendUpdate(c)
  BY <1>3 DEF TypeOK, CommandInv, SendUpdate, At, calls, runs
<1>. QED
  BY <1>1, <1>2, <1>3 DEF Body

LEMMA CommandStep ==
    ASSUME TypeOK, CommandInv, [Next]_vars
    PROVE  CommandInv'
<1>1. CASE UNCHANGED vars \/ Monitors \/ Forget \/ Tick
  BY <1>1 DEF CommandInv, vars, Monitors, CountUpdate, CountError,
       CountReturn, Forget, Tick, calls,
              runs, onces
<1>. QED
  BY <1>1, CallerCommand, RunnerCommand, WatcherCommand, BodyCommand DEF Next

-----------------------------------------------------------------------------
\* Tickets are neither lost nor made.
LEMMA TicketsKept ==
    ASSUME TicketOnce, UNCHANGED <<tickets, ticket>>,
           \A c \in Holders : once'[c] # "over"
    PROVE  TicketOnce'
BY DEF TicketOnce, Holders

LEMMA TicketSettled ==
    ASSUME TypeOK, TicketOnce, NEW c \in Commands, ticket[c] # "held",
           NEW v \in {"unchecked", "none"}, ticket' = [ticket EXCEPT ![c] = v],
           UNCHANGED tickets, \A d \in Holders : once'[d] = once[d]
    PROVE  TicketOnce'
<1>1. Holders' = Holders
  BY TicketElsewhere
<1>. QED
  BY <1>1 DEF TicketOnce

LEMMA CallerTickets ==
    ASSUME TypeOK, CommandInv, TicketOnce, NEW c \in Commands, Caller(c)
    PROVE  TicketOnce'
<1>1. CASE Started(c) /\ UNCHANGED tickets /\ runner[c] = "ended"
  <2>1. ticket[c] # "held" /\ ticket' = [ticket EXCEPT ![c] = "unchecked"]
    BY <1>1 DEF CommandInv, Started
  <2>2. \A d \in Holders : once'[d] = once[d]
    BY <1>1, <2>1 DEF TypeOK, Holders, Started
  <2>. QED
    BY <1>1, <2>1, <2>2, TicketSettled
<1>2. CASE UNCHANGED <<tickets, ticket, once>>
  BY <1>2, TicketsKept DEF TicketOnce
<1>3. \/ Started(c) /\ UNCHANGED tickets /\ runner[c] = "ended"
      \/ UNCHANGED <<tickets, ticket, once>>
  BY DEF CommandInv, Caller, BeginCall, Create, Answered, onces
<1>. QED
  BY <1>1, <1>2, <1>3

\* Why a command is denied.
Denials == {"short-circuit", "rejected"}

LEMMA DenyTickets ==
    ASSUME TypeOK, CommandInv, TicketOnce, NEW c \in Commands, NEW from \in Undecided,
           NEW why, Deny(c, from, why), UNCHANGED <<tickets, onces>>
    PROVE  TicketOnce'
<1>1. ticket[c] # "held"
  BY DEF CommandInv, Deny, Move
<1>. QED
  BY <1>1, TicketSettled DEF Deny, onces

LEMMA RunnerTickets ==
    ASSUME TypeOK, CommandInv, TicketOnce, NEW c \in Commands, Runner(c)
    PROVE  TicketOnce'
<1>1. CASE TakeTicket(c) /\ tickets > 0
  <2>1. /\ ticket[c] = "unchecked" /\ ticket' = [ticket EXCEPT ![c] = "held"]
        /\ tickets' = tickets - 1 /\ once' = once
    BY <1>1 DEF CommandInv, TakeTicket, Move, Undecided, onces
  <2>2. /\ Holders' = Holders \cup {c}
        /\ Cardinality(Holders') = Cardinality(Holders) + 1
    BY <2>1, TicketTaken
  <2>3. once[c] # "over"
    BY <2>1 DEF CommandInv
  <2>. QED
    BY <2>1, <2>2, <2>3, HoldersFinite, HystrixAssumption DEF TypeOK, TicketOnce
<1>2. CASE \E from \in Undecided, why \in Denials :
              Deny(c, from, why) /\ UNCHANGED <<tickets, onces>>
  BY <1>2, DenyTickets
<1>3. CASE UNCHANGED <<tickets, ticket, once>>
  BY <1>3, TicketsKept DEF TicketOnce
<1>4. CASE RunnerOnce(c)
  <2>1. \A d \in Commands : once'[d] = once[d] \/ once'[d] = "runner"
    BY <1>4 DEF TypeOK, RunnerOnce, TakeOnce
  <2>. QED
    BY <1>4, <2>1, TicketsKept DEF TicketOnce, Holders, RunnerOnce
<1>5. ASSUME Allow(c)
      PROVE  \/ UNCHANGED <<tickets, ticket, once>>
             \/ \E from \in Undecided, why \in Denials :
                   Deny(c, from, why) /\ UNCHANGED <<tickets, onces>>
  BY <1>5 DEF Allow, IsOpen, ReadVolume, ReadRequests, ReadErrors, SetOpen,
              AllowSingleTest, Swap, Undecided, onces, Denials
<1>6. ASSUME TakeTicket(c), ~(tickets > 0)
      PROVE  \E from \in Undecided, why \in Denials :
                Deny(c, from, why) /\ UNCHANGED <<tickets, onces>>
  BY <1>6 DEF TakeTicket, Undecided, Denials
<1>7. ASSUME RunSucceeds(c) \/ RunFails(c) \/ RunnerEnds(c)
      PROVE  UNCHANGED <<tickets, ticket, once>>
  BY <1>7 DEF RunSucceeds, RunFails, RunnerEnds, onces
<1>. QED
  BY <1>1, <1>2, <1>3, <1>4, <1>5, <1>6, <1>7 DEF Runner

LEMMA WatcherTickets ==
    ASSUME TypeOK, TicketOnce, NEW c \in Commands, Watcher(c)
    PROVE  TicketOnce'
<1>1. CASE WatcherFires(c)
  <2>1. \A d \in Commands : once'[d] = once[d] \/ once'[d] \in WatcherResults
    BY <1>1 DEF TypeOK, WatcherFires, TakeOnce
  <2>. QED
    BY <1>1, <2>1, TicketsKept DEF TicketOnce, Holders, WatcherFires, WatcherResults
<1>2. CASE WatcherEnds(c)
  BY <1>2, TicketsKept DEF TicketOnce, WatcherEnds, onces
<1>. QED
  BY <1>1, <1>2 DEF Watcher

LEMMA BodyTickets ==
    ASSUME TypeOK, CommandInv, TicketOnce, NEW c \in Commands, Body(c)
    PROVE  TicketOnce'
<1>1. CASE ReturnTicket(c) /\ ticket[c] = "held"
  <2>1. /\ ticket' = [ticket EXCEPT ![c] = "returned"]
        /\ tickets' = tickets + 1 /\ once' = once
    BY <1>1 DEF ReturnTicket, Return
  <2>2. /\ Holders' = Holders \ {c}
        /\ Cardinality(Holders') = Cardinality(Holders) - 1
    BY <1>1, <2>1, TicketGivenBack
  <2>. QED
    BY <2>1, <2>2, HoldersFinite, HystrixAssumption DEF TypeOK, TicketOnce
<1>2. CASE SendUpdate(c)
  <2>1. ticket[c] # "held"
    BY <1>2 DEF CommandInv, SendUpdate, At
  <2>2. \A d \in Commands \ {c} : once'[d] = once[d]
    BY <1>2 DEF TypeOK, SendUpdate
  <2>3. tickets' = tickets /\ ticket' = ticket
    BY <1>2 DEF SendUpdate
  <2>. QED
    BY <2>1, <2>2, <2>3, TicketsKept DEF TicketOnce, Holders
<1>3. CASE UNCHANGED <<tickets, ticket, once>>
  BY <1>3, TicketsKept DEF TicketOnce
<1>4. ASSUME ReturnTicket(c), ticket[c] # "held"
      PROVE  UNCHANGED <<tickets, ticket, once>>
  BY <1>4 DEF ReturnTicket
<1>5. ASSUME Answer(c) \/ Report(c) \/ SetClose(c) \/ ResetMetrics(c)
      PROVE  UNCHANGED <<tickets, ticket, once>>
  BY <1>5 DEF Answer, Report, SetClose, ResetMetrics
<1>. QED
  BY <1>1, <1>2, <1>3, <1>4, <1>5 DEF Body

LEMMA TicketStep ==
    ASSUME TypeOK, CommandInv, TicketOnce, [Next]_vars
    PROVE  TicketOnce'
<1>1. CASE UNCHANGED vars \/ Monitors \/ Forget \/ Tick
  <2>1. UNCHANGED <<tickets, ticket, once>>
    BY <1>1 DEF vars, Monitors, CountUpdate, CountError,
       CountReturn, Forget, Tick, onces
  <2>. QED
    BY <2>1, TicketsKept DEF TicketOnce
<1>. QED
  BY <1>1, CallerTickets, RunnerTickets, WatcherTickets, BodyTickets DEF Next

-----------------------------------------------------------------------------
\* The runners before the compare-and-swap, and the window.
LEMMA TestStep ==
    ASSUME TypeOK, TestInv, [Next]_vars
    PROVE  TestInv'
<1>1. ASSUME NEW t, SetTested(t)
      PROVE  TestInv'
  BY <1>1 DEF TestInv, SetTested
<1>2. ASSUME NEW c \in Commands, NEW to, to # "swap",
             runner' = [runner EXCEPT ![c] = to], UNCHANGED <<age, lag>>
      PROVE  TestInv'
  BY <1>2 DEF TypeOK, TestInv
<1>3. ASSUME NEW c \in Commands, AllowSingleTest(c), MayTest
      PROVE  TestInv'
  <2>1. /\ runner' = [runner EXCEPT ![c] = "swap"]
        /\ lag' = [lag EXCEPT ![c] = 0]
        /\ age' = age /\ age > SleepWindow
    BY <1>3 DEF AllowSingleTest, MayTest, Move
  <2>2. age' - lag'[c] > SleepWindow
    BY <2>1, HystrixAssumption DEF TypeOK, LongAgo, Oldest
  <2>. QED
    BY <2>1, <2>2 DEF TypeOK, TestInv
<1>4. CASE UNCHANGED <<runner, age, lag>>
  BY <1>4 DEF TestInv
<1>5. CASE Tick
  <2>. SUFFICES ASSUME NEW c \in Commands, runner[c] = "swap", lag'[c] # Stale
                PROVE  age' - lag'[c] > SleepWindow
    BY <1>5 DEF TestInv, Tick, runs
  <2>1. /\ age \in Nat /\ age' \in {age, age + 1} /\ lag[c] \in Int
        /\ lag[c] \in 0..SleepWindow => lag'[c] = lag[c] + 1 /\ (age < Oldest => age' = age + 1)
        /\ lag[c] \notin 0..SleepWindow => lag'[c] = lag[c]
    BY <1>5, HystrixAssumption DEF TypeOK, Tick, Stale, LongAgo, Oldest
  <2>2. lag[c] # Stale
    BY <2>1 DEF Stale
  <2>3. age - lag[c] > SleepWindow
    BY <2>2 DEF TestInv
  <2>4. CASE lag[c] \in 0..SleepWindow /\ ~(age < Oldest)
    BY <2>1, <2>4, HystrixAssumption DEF TypeOK, Oldest, LongAgo
  <2>5. CASE ~(lag[c] \in 0..SleepWindow /\ ~(age < Oldest))
    BY <2>1, <2>3, <2>5, HystrixAssumption
  <2>. QED
    BY <2>4, <2>5
<1>6. ASSUME NEW c \in Commands, Caller(c)
      PROVE  TestInv'
  <2>1. \/ runner' = [runner EXCEPT ![c] = "allow"] /\ UNCHANGED <<age, lag>>
        \/ UNCHANGED <<runner, age, lag>>
    BY <1>6 DEF Caller, BeginCall, Create, Answered, Started, circuit, runs
  <2>. QED
    BY <2>1, <1>2, <1>4
<1>7. ASSUME NEW c \in Commands, Allow(c)
      PROVE  TestInv'
  <2>1. CASE SetOpen(c) /\ open
    BY <1>2, <2>1 DEF SetOpen, Move
  <2>2. CASE SetOpen(c) /\ ~open
    BY <1>1, <2>2 DEF SetOpen
  <2>3. CASE AllowSingleTest(c) /\ ~MayTest
    BY <1>2, <2>3 DEF AllowSingleTest, Deny, Move
  <2>4. CASE Swap(c) /\ lag[c] # Stale
    BY <1>1, <2>4 DEF Swap
  <2>5. CASE Swap(c) /\ lag[c] = Stale
    BY <1>2, <2>5 DEF Swap, Deny, Move
  <2>6. CASE IsOpen(c) \/ ReadVolume(c) \/ ReadRequests(c) \/ ReadErrors(c)
    <3>1. /\ \E to \in {"test", "volume", "ticket", "requests", "errors", "trip"} :
                runner' = [runner EXCEPT ![c] = to]
          /\ UNCHANGED <<age, lag>>
      BY <2>6 DEF IsOpen, ReadVolume, ReadRequests, ReadErrors, Move, circuit
    <3>. QED
      BY <1>2, <3>1
  <2>. QED
    BY <1>3, <1>7, <2>1, <2>2, <2>3, <2>4, <2>5, <2>6 DEF Allow
<1>8. ASSUME NEW c \in Commands, Runner(c)
      PROVE  TestInv'
  <2>1. CASE TakeTicket(c) \/ RunSucceeds(c) \/ RunFails(c) \/ RunnerEnds(c)
    <3>1. /\ \E to \in {"run", "once", "ended"} : runner' = [runner EXCEPT ![c] = to]
          /\ UNCHANGED <<age, lag>>
      BY <2>1 DEF TakeTicket, RunSucceeds, RunFails, RunnerEnds, Deny, Move, circuit
    <3>. QED
      BY <1>2, <3>1
  <2>2. CASE RunnerOnce(c)
    BY <1>4, <2>2 DEF RunnerOnce, runs, circuit
  <2>. QED
    BY <1>7, <1>8, <2>1, <2>2 DEF Runner
<1>9. ASSUME NEW c \in Commands, Watcher(c) \/ Body(c)
      PROVE  TestInv'
  BY <1>4, <1>9 DEF Watcher, WatcherFires, WatcherEnds, Body, ReturnTicket, Answer,
         Report, SetClose, ResetMetrics, SendUpdate, circuit, runs
<1>a. CASE UNCHANGED vars \/ Monitors \/ Forget
  BY <1>4, <1>a DEF vars, Monitors, CountUpdate, CountError,
       CountReturn, Forget, circuit, runs
<1>. QED
  BY <1>5, <1>6, <1>8, <1>9, <1>a DEF Next

\* Only Create makes a circuit.
LEMMA CircuitStep ==
    ASSUME TypeOK, OneCircuit, [Next]_vars
    PROVE  OneCircuit'
<1>1. ASSUME NEW c \in Commands, Create(c)
      PROVE  OneCircuit'
  BY <1>1 DEF TypeOK, OneCircuit, Create
<1>2. CASE UNCHANGED circuits
  BY <1>2 DEF OneCircuit
<1>3. ASSUME NEW c \in Commands, Runner(c)
      PROVE  UNCHANGED circuits
  BY <1>3 DEF Runner, Allow, IsOpen, ReadVolume, ReadRequests, ReadErrors, SetOpen,
              AllowSingleTest, Swap, TakeTicket, RunSucceeds, RunFails, RunnerOnce,
              RunnerEnds, circuit
<1>4. ASSUME NEW c \in Commands, Watcher(c) \/ Body(c) \/ BeginCall(c) \/ Answered(c)
      PROVE  UNCHANGED circuits
  BY <1>4 DEF Watcher, WatcherFires, WatcherEnds, Body, ReturnTicket, Answer, Report,
              SetClose, ResetMetrics, SendUpdate, BeginCall, Answered, circuit
<1>5. CASE UNCHANGED vars \/ Monitors \/ Forget \/ Tick
  BY <1>2, <1>5 DEF vars, Monitors, CountUpdate, CountError,
       CountReturn, Forget, Tick, circuit
<1>. QED
  BY <1>1, <1>2, <1>3, <1>4, <1>5 DEF Next, Caller

-----------------------------------------------------------------------------
LEMMA InitIInv == Init => IInv
<1>. SUFFICES ASSUME Init PROVE IInv
  OBVIOUS
<1>1. TypeOK
  <2>1. age \in 0..Oldest /\ lag \in [Commands -> Stale..LongAgo]
    BY HystrixAssumption DEF Init, LongAgo, Oldest, Stale
  <2>2. /\ recorded \in Seq(BOOLEAN) /\ Len(recorded) =< MaxRecorded
        /\ updates \in Seq(BOOLEAN) /\ Len(updates) =< MaxUpdates
    BY HystrixAssumption, EmptySeq DEF Init
  <2>3. tickets \in 0..MaxConcurrent /\ requests \in [Commands -> 0..MaxRecorded]
    BY HystrixAssumption DEF Init
  <2>4. /\ circuits \in Nat /\ open \in BOOLEAN
        /\ counting \in BOOLEAN /\ halfway \in BOOLEAN /\ fatal \in BOOLEAN
    BY DEF Init
  <2>5. /\ caller \in [Commands -> {"idle", "create", "wait"}]
        /\ done \in [Commands -> 0..1] /\ errChan \in [Commands -> 0..1]
        /\ runner \in [Commands -> Undecided \cup {"run", "once", "ended"}]
        /\ result \in [Commands -> {"none", "success", "failure", "rejected",
                                    "short-circuit"}]
    BY DEF Init
  <2>6. /\ watcher \in [Commands -> {"select", "ended"}]
        /\ once \in [Commands -> {"free", "runner", "over"} \cup WatcherResults]
        /\ body \in [Commands -> {"none", "return", "answer", "report", "close",
                                  "reset", "send"}]
        /\ ticket \in [Commands -> {"unchecked", "none", "held", "returned"}]
    BY DEF Init
  <2>. QED
    BY <2>1, <2>2, <2>3, <2>4, <2>5, <2>6 DEF TypeOK
<1>2. CommandInv /\ TestInv /\ OneCircuit
  BY DEF Init, CommandInv, TestInv, OneCircuit, Undecided
<1>3. Holders = {}
  BY DEF Init, Holders
<1>4. TicketOnce
  BY <1>3, FS_EmptySet, HystrixAssumption DEF Init, TicketOnce
<1>. QED
  BY <1>1, <1>2, <1>4 DEF IInv

\* The invariant of hystrix, for every number of commands and every setting.
THEOREM Inductive == Spec => []IInv
<1>1. IInv /\ [Next]_vars => IInv'
  BY TypeStep, CommandStep, TicketStep, TestStep, CircuitStep DEF IInv
<1>. QED
  BY <1>1, InitIInv, PTL DEF Spec

\* Every variable keeps its type: the channels of tickets and of updates keep to their
\* capacities, and no send to done or errChan finds the channel full.
THEOREM TypeCorrect == Spec => []TypeOK
<1>1. IInv => TypeOK
  BY DEF IInv
<1>. QED
  BY <1>1, Inductive, PTL

\* A ticket that a command took goes back to the pool once, whether the runner, the
\* time-out or the context wins the Once.
THEOREM TicketsReturnedOnce == Spec => []TicketOnce
<1>1. IInv => TicketOnce
  BY DEF IInv
<1>. QED
  BY <1>1, Inductive, PTL

\* Commands that start together share one circuit.
THEOREM CircuitMadeOnce == Spec => []OneCircuit
<1>1. IInv => OneCircuit
  BY DEF IInv
<1>. QED
  BY <1>1, Inductive, PTL

\* A command that found the circuit open, or opened it, passes only as a test, whose time
\* is more than SleepWindow after the opening or the test before.
THEOREM TestsApart == Spec => SingleTest
<1>1. ASSUME IInv, Next, NEW c \in Commands,
             runner[c] \in FoundOpen, runner'[c] = "ticket"
      PROVE  age - age' > SleepWindow
  <2>0. runner[c] # "ticket"
    BY <1>1 DEF FoundOpen
  <2>1. PICK d \in Commands : Caller(d) \/ Runner(d)
    BY <1>1, <2>0 DEF Next, Watcher, WatcherFires, WatcherEnds, Body, ReturnTicket, Answer,
       Report, SetClose, ResetMetrics, SendUpdate, Monitors, CountUpdate, CountError,
       CountReturn,
       Forget, Tick, runs
  <2>2. runner \in [Commands -> Undecided \cup {"run", "once", "ended"}]
    BY <1>1 DEF IInv, TypeOK
  <2>3. CASE Caller(d)
    <3>1. runner' = runner \/ runner' = [runner EXCEPT ![d] = "allow"]
      BY <2>3 DEF Caller, BeginCall, Create, Answered, Started, runs
    <3>. QED
      BY <1>1, <2>0, <2>2, <3>1
  <2>4. CASE Runner(d) /\ ~Swap(d)
    <3>1. CASE Allow(d)
      <4>1. \/ runner[d] \notin FoundOpen /\ \E to : runner' = [runner EXCEPT ![d] = to]
            \/ \E to \in {"test", "swap", "once"} : runner' = [runner EXCEPT ![d] = to]
        BY <2>4, <3>1 DEF Allow, IsOpen, ReadVolume, ReadRequests, ReadErrors, SetOpen,
                          AllowSingleTest, Deny, Move, FoundOpen
      <4>. QED
        BY <1>1, <2>0, <2>2, <4>1
    <3>2. CASE TakeTicket(d) \/ RunSucceeds(d) \/ RunFails(d) \/ RunnerOnce(d)
               \/ RunnerEnds(d)
      <4>1. \/ runner' = runner
            \/ runner[d] \notin FoundOpen /\ \E to : runner' = [runner EXCEPT ![d] = to]
        BY <3>2 DEF TakeTicket, RunSucceeds, RunFails, RunnerOnce, RunnerEnds, Deny,
                    Move, runs, FoundOpen
      <4>. QED
        BY <1>1, <2>0, <2>2, <4>1
    <3>. QED
      BY <2>4, <3>1, <3>2 DEF Runner
  <2>5. CASE Swap(d)
    <3>1. \/ /\ runner[d] = "swap" /\ lag[d] # Stale /\ age' = lag[d]
             /\ runner' = [runner EXCEPT ![d] = "ticket"]
          \/ runner' = [runner EXCEPT ![d] = "once"]
      BY <2>5 DEF Swap, SetTested, Deny, Move
    <3>2. d = c /\ runner[c] = "swap" /\ lag[c] # Stale /\ age' = lag[c]
      BY <1>1, <2>0, <2>2, <3>1
    <3>. QED
      BY <1>1, <3>2 DEF IInv, TestInv
  <2>. QED
    BY <2>1, <2>3, <2>4, <2>5
<1>2. IInv /\ [Next]_vars =>
         [\A c \in Commands :
             runner[c] \in FoundOpen /\ runner'[c] = "ticket" =>
                age - age' > SleepWindow]_vars
  BY <1>1
<1>. QED
  BY <1>2, Inductive, PTL DEF Spec, SingleTest

-----------------------------------------------------------------------------
\* The answers.  What a step does to one command, or that it leaves all alone.
LEMMA AnswerStep ==
    ASSUME IInv, AnswerInv, [Next]_vars
    PROVE  AnswerInv'
<1>0. TypeOK /\ CommandInv
  BY DEF IInv
<1>1. CASE UNCHANGED <<calls, runs, onces>>
  BY <1>1 DEF AnswerInv, calls, runs, onces
<1>2. CASE UNCHANGED vars \/ Monitors \/ Forget \/ Tick
  BY <1>1, <1>2 DEF vars, Monitors, CountUpdate, CountError, CountReturn, Forget, Tick
<1>3. ASSUME NEW c \in Commands, Caller(c)
      PROVE  AnswerInv'
  <2>1. CASE Answered(c)
    <3>1. /\ caller' = [caller EXCEPT ![c] = "idle"] /\ UNCHANGED <<runs, onces>>
          /\ done' = [done EXCEPT ![c] = 0] \/ done' = done
          /\ errChan' = [errChan EXCEPT ![c] = 0] \/ errChan' = errChan
      BY <2>1 DEF Answered
    <3>2. caller'[c] = "idle" /\ \A d \in Commands \ {c} :
             caller'[d] = caller[d] /\ done'[d] = done[d] /\ errChan'[d] = errChan[d]
      BY <1>0, <3>1 DEF TypeOK
    <3>. QED
      BY <3>1, <3>2 DEF AnswerInv, runs, onces
  <2>2. CASE (BeginCall(c) \/ Create(c)) /\ Started(c)
    <3>1. runner[c] = "ended" /\ UNCHANGED <<result, body>>
      BY <1>0, <2>2 DEF BeginCall, Create, CommandInv
    <3>2. result[c] = "none" /\ body[c] = "none"
      BY <1>0, <3>1 DEF AnswerInv, CommandInv
    <3>3. /\ caller'[c] = "wait" /\ once'[c] = "free"
          /\ \A d \in Commands \ {c} :
                /\ caller'[d] = caller[d] /\ done'[d] = done[d]
                /\ errChan'[d] = errChan[d] /\ runner'[d] = runner[d]
                /\ once'[d] = once[d]
      BY <1>0, <2>2 DEF TypeOK, Started
    <3>. QED
      BY <3>1, <3>2, <3>3 DEF AnswerInv
  <2>3. CASE BeginCall(c) /\ ~Started(c)
    <3>1. /\ caller' = [caller EXCEPT ![c] = "create"]
          /\ UNCHANGED <<done, errChan, runs, onces>>
      BY <2>3 DEF BeginCall, runs, onces
    <3>2. caller'[c] = "create" /\ \A d \in Commands \ {c} : caller'[d] = caller[d]
      BY <1>0, <3>1 DEF TypeOK
    <3>. QED
      BY <3>1, <3>2 DEF AnswerInv, runs, onces
  <2>. QED
    BY <1>3, <2>1, <2>2, <2>3 DEF Caller, Create
<1>4. ASSUME NEW c \in Commands, Runner(c)
      PROVE  AnswerInv'
  \* A runner that neither succeeds nor comes to its Once.
  <2>1. ASSUME NEW to, NEW why \in {"none", "failure", "rejected", "short-circuit"},
               runner' = [runner EXCEPT ![c] = to],
               result' = [result EXCEPT ![c] = why], to # "once" => why = "none",
               UNCHANGED <<calls, onces>>
        PROVE  AnswerInv'
    <3>1. /\ runner'[c] = to /\ result'[c] = why
          /\ \A d \in Commands \ {c} : runner'[d] = runner[d] /\ result'[d] = result[d]
      BY <1>0, <2>1 DEF TypeOK
    <3>2. result'[c] # "success"
      BY <3>1
    <3>. QED
      BY <2>1, <3>1, <3>2 DEF AnswerInv, calls, onces
  <2>2. ASSUME NEW from, from # "once", NEW to, Move(c, from, to), result' = result,
               UNCHANGED <<calls, onces>>
        PROVE  AnswerInv'
    <3>1. result[c] = "none" /\ result' = [result EXCEPT ![c] = "none"]
      BY <1>0, <2>2 DEF Move, AnswerInv, TypeOK
    <3>. QED
      BY <2>1, <2>2, <3>1 DEF Move
  <2>3. CASE IsOpen(c) \/ ReadVolume(c) \/ ReadRequests(c) \/ ReadErrors(c)
    <3>1. \E from \in {"allow", "volume", "requests", "errors"} :
             \E to \in {"test", "volume", "ticket", "requests", "errors", "trip"} :
                Move(c, from, to)
      BY <2>3 DEF IsOpen, ReadVolume, ReadRequests, ReadErrors
    <3>2. result' = result /\ UNCHANGED <<calls, onces>>
      BY <2>3 DEF IsOpen, ReadVolume, ReadRequests, ReadErrors
    <3>. QED
      BY <2>2, <3>1, <3>2
  <2>4. CASE SetOpen(c)
    BY <2>2, <2>4 DEF SetOpen
  <2>5. ASSUME NEW from, from # "once", NEW why \in {"rejected", "short-circuit"},
               Deny(c, from, why), UNCHANGED <<calls, onces>>
        PROVE  AnswerInv'
    BY <2>1, <2>5 DEF Deny, Move
  <2>6. CASE AllowSingleTest(c)
    <3>1. UNCHANGED <<calls, onces>>
      BY <2>6 DEF AllowSingleTest
    <3>. QED
      BY <2>2, <2>5, <2>6, <3>1 DEF AllowSingleTest
  <2>7. CASE Swap(c)
    <3>1. UNCHANGED <<calls, onces>>
      BY <2>7 DEF Swap
    <3>. QED
      BY <2>2, <2>5, <2>7, <3>1 DEF Swap
  <2>8. CASE TakeTicket(c)
    <3>1. UNCHANGED <<calls, onces>>
      BY <2>8 DEF TakeTicket
    <3>. QED
      BY <2>2, <2>5, <2>8, <3>1 DEF TakeTicket
  <2>9. CASE RunSucceeds(c)
    <3>1. /\ runner' = [runner EXCEPT ![c] = "once"]
          /\ result' = [result EXCEPT ![c] = "success"]
          /\ done' = [done EXCEPT ![c] = 1] /\ UNCHANGED <<caller, errChan, onces>>
      BY <2>9 DEF RunSucceeds, Move
    <3>2. /\ runner'[c] = "once" /\ done'[c] = 1
          /\ \A d \in Commands \ {c} :
                /\ runner'[d] = runner[d] /\ result'[d] = result[d]
                /\ done'[d] = done[d]
      BY <1>0, <3>1 DEF TypeOK
    <3>. QED
      BY <3>1, <3>2 DEF AnswerInv, onces
  <2>10. CASE RunFails(c) \/ RunnerEnds(c)
    <3>1. UNCHANGED <<calls, onces>>
      BY <2>10 DEF RunFails, RunnerEnds
    <3>. QED
      BY <2>1, <2>10, <3>1 DEF RunFails, RunnerEnds, Move
  <2>11. CASE RunnerOnce(c)
    <3>1. UNCHANGED <<calls, runs>> /\ TakeOnce(c, "runner")
      BY <2>11 DEF RunnerOnce
    <3>2. /\ once'[c] = "runner" /\ body'[c] = "return"
          /\ \A d \in Commands \ {c} : once'[d] = once[d] /\ body'[d] = body[d]
      BY <1>0, <3>1 DEF TakeOnce, TypeOK
    <3>. QED
      BY <3>1, <3>2 DEF AnswerInv, calls, runs
  <2>. QED
    BY <1>4, <2>3, <2>4, <2>6, <2>7, <2>8, <2>9, <2>10, <2>11 DEF Runner, Allow
<1>5. ASSUME NEW c \in Commands, Watcher(c)
      PROVE  AnswerInv'
  <2>1. CASE WatcherFires(c)
    <3>1. PICK why \in WatcherResults : TakeOnce(c, why)
      BY <2>1 DEF WatcherFires
    <3>2. /\ once'[c] = why /\ body'[c] = "return" /\ UNCHANGED <<calls, runs>>
          /\ \A d \in Commands \ {c} : once'[d] = once[d] /\ body'[d] = body[d]
      BY <1>0, <2>1, <3>1 DEF TakeOnce, TypeOK, WatcherFires
    <3>. QED
      BY <3>2 DEF AnswerInv, WatcherResults, calls, runs
  <2>2. CASE WatcherEnds(c)
    BY <1>1, <2>2 DEF WatcherEnds
  <2>. QED
    BY <1>5, <2>1, <2>2 DEF Watcher
<1>6. ASSUME NEW c \in Commands, Body(c)
      PROVE  AnswerInv'
  <2>1. CASE ReturnTicket(c)
    <3>1. /\ UNCHANGED <<calls, runs, once>> /\ body[c] = "return"
          /\ body'[c] = AfterReturn(c)
          /\ \A d \in Commands \ {c} : body'[d] = body[d]
      BY <1>0, <2>1 DEF ReturnTicket, At, TypeOK
    <3>2. once[c] # "over"
      BY <1>0, <3>1 DEF CommandInv
    <3>3. CASE AfterReturn(c) = "answer"
      BY <3>1, <3>2, <3>3 DEF AnswerInv, calls, runs
    <3>4. CASE AfterReturn(c) = "report"
      <4>1. \/ once[c] = "runner" /\ result[c] = "success"
            \/ once[c] = "success"
        BY <3>4 DEF AfterReturn, Result
      <4>2. result[c] = "success"
        BY <1>0, <4>1 DEF TypeOK, WatcherResults
      <4>3. caller[c] = "wait" => done[c] = 1
        BY <4>2 DEF AnswerInv
      <4>. QED
        BY <3>1, <4>3 DEF AnswerInv, calls, runs
    <3>. QED
      BY <3>3, <3>4 DEF AfterReturn
  <2>2. CASE Answer(c)
    <3>1. /\ UNCHANGED <<caller, runs, once>>
          /\ body' = [body EXCEPT ![c] = "report"]
          /\ \/ done' = [done EXCEPT ![c] = 1] /\ errChan' = errChan
             \/ errChan' = [errChan EXCEPT ![c] = 1] /\ done' = done
      BY <2>2 DEF Answer, At
    <3>2. /\ done'[c] = 1 \/ errChan'[c] = 1
          /\ done[c] = 1 => done'[c] = 1
          /\ \A d \in Commands \ {c} :
                /\ body'[d] = body[d] /\ done'[d] = done[d]
                /\ errChan'[d] = errChan[d]
      BY <1>0, <3>1 DEF TypeOK
    <3>. QED
      BY <3>1, <3>2 DEF AnswerInv, runs
  <2>3. CASE Report(c) \/ SetClose(c) \/ ResetMetrics(c)
    <3>1. /\ UNCHANGED <<calls, runs, once>>
          /\ body[c] \in {"report", "close", "reset"}
          /\ \A d \in Commands \ {c} : body'[d] = body[d]
      BY <1>0, <2>3 DEF Report, SetClose, ResetMetrics, At, TypeOK
    <3>. QED
      BY <3>1 DEF AnswerInv, calls, runs
  <2>4. CASE SendUpdate(c)
    <3>1. /\ UNCHANGED <<calls, runs>> /\ body[c] = "send"
          /\ \A d \in Commands \ {c} : body'[d] = body[d] /\ once'[d] = once[d]
      BY <1>0, <2>4 DEF SendUpdate, At, TypeOK
    <3>. QED
      BY <3>1 DEF AnswerInv, calls, runs
  <2>. QED
    BY <1>6, <2>1, <2>2, <2>3, <2>4 DEF Body
<1>. QED
  BY <1>2, <1>3, <1>4, <1>5, <1>6 DEF Next

\* A caller that still waits when its command is over finds an answer, for any number of
\* commands and any setting.
THEOREM NoneUnanswered == Spec => []AnsweredWhenOver
<1>1. Init => AnswerInv
  BY DEF Init, AnswerInv
<1>2. IInv /\ AnswerInv /\ [Next]_vars => AnswerInv'
  BY AnswerStep
<1>3. AnswerInv => AnsweredWhenOver
  BY DEF AnswerInv, AnsweredWhenOver
<1>. QED
  BY <1>1, <1>2, <1>3, Inductive, PTL DEF Spec

\* When no command is under way the pool of tickets is full again: none is lost, whatever
\* the order in which runs, time-outs and contexts ended.
AllTicketsBack == (\A c \in Commands : once[c] = "over") => tickets = MaxConcurrent

THEOREM TicketsAllBack == Spec => []AllTicketsBack
<1>1. IInv => AllTicketsBack
  <2>. SUFFICES ASSUME IInv, \A c \in Commands : once[c] = "over"
                PROVE  tickets = MaxConcurrent
    BY DEF AllTicketsBack
  <2>1. Holders = {} /\ tickets \in Nat
    BY HystrixAssumption DEF IInv, TicketOnce, TypeOK, Holders
  <2>2. tickets + Cardinality(Holders) = MaxConcurrent /\ Cardinality({}) = 0
    BY FS_EmptySet DEF IInv, TicketOnce
  <2>. QED
    BY <2>1, <2>2
<1>. QED
  BY <1>1, Inductive, PTL
=============================================================================
