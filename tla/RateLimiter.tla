---------------------------- MODULE RateLimiter ----------------------------
(***************************************************************************)
(* The leaky bucket of ratelimit: Take reads the clock, loads the state,   *)
(* computes the next slot and tries to install it with a compare-and-swap, *)
(* over and over until it succeeds; then it sleeps and returns the slot.   *)
(*                                                                         *)
(* maxSlack changes nothing and is not here: sleepFor starts from zero in  *)
(* each call, and a negative one does not delay, corrected or not.         *)
(***************************************************************************)
EXTENDS Integers, FiniteSets

CONSTANTS Callers,
          PerRequest,  \* the time between two requests
          LastTick     \* bound: the clock stops here

ASSUME LimiterAssumption ==
    IsFiniteSet(Callers) /\ PerRequest \in Nat /\ LastTick \in Nat \ {0}

VARIABLES
    clock,
    last,      \* state.last; ZeroTime before the first request
    current,   \* the callers whose loaded pointer is still the state's
    at,        \* where each caller is
    now,       \* the clock it read
    loaded,    \* the last slot it loaded
    wake       \* when its sleep ends

vars == <<clock, last, current, at, now, loaded, wake>>

ZeroTime == 0

TypeOK ==
    /\ clock \in 1..LastTick
    /\ last \in Nat
    /\ current \subseteq Callers
    /\ at \in [Callers -> {"idle", "load", "swap", "sleep", "asleep"}]
    /\ now \in [Callers -> 1..LastTick]
    /\ loaded \in [Callers -> Nat]
    /\ wake \in [Callers -> Nat]

Init ==
    /\ clock = 1 /\ last = ZeroTime
    /\ current = {}
    /\ at = [c \in Callers |-> "idle"]
    /\ now = [c \in Callers |-> 1]
    /\ loaded = [c \in Callers |-> ZeroTime]
    /\ wake = [c \in Callers |-> 0]

-----------------------------------------------------------------------------
\* Mutant of SleepFor: the operands of Sub are the wrong way round.
SleepForSwapped(c) ==
    IF loaded[c] = ZeroTime THEN 0 ELSE PerRequest - (loaded[c] - now[c])

\* How long a caller has to sleep by what it read, and the slot it computes from that.
SleepFor(c) ==
    IF loaded[c] = ZeroTime THEN 0 ELSE PerRequest - (now[c] - loaded[c])

\* Mutant of Slot: the sleep is taken off the time.
SlotBack(c) == IF SleepFor(c) > 0 THEN now[c] - SleepFor(c) ELSE now[c]

Slot(c) == IF SleepFor(c) > 0 THEN now[c] + SleepFor(c) ELSE now[c]

\* One turn of the loop: the clock, the state, the compare-and-swap.
ReadClock(c) ==
    /\ at[c] = "idle"
    /\ at' = [at EXCEPT ![c] = "load"]
    /\ now' = [now EXCEPT ![c] = clock]
    /\ UNCHANGED <<clock, last, current, loaded, wake>>

LoadState(c) ==
    /\ at[c] = "load"
    /\ at' = [at EXCEPT ![c] = "swap"]
    /\ loaded' = [loaded EXCEPT ![c] = last]
    /\ current' = current \cup {c}
    /\ UNCHANGED <<clock, last, now, wake>>

\* Mutant of SwapState: a store.
StoreState(c) ==
    /\ at[c] = "swap"
    /\ at' = [at EXCEPT ![c] = "sleep"]
    /\ last' = Slot(c)
    /\ current' = {}
    /\ UNCHANGED <<clock, now, loaded, wake>>

\* Every Take allocates a state and installs it once, so that the pointer is the one that
\* was loaded only if nobody swapped since.
SwapState(c) ==
    /\ at[c] = "swap" /\ c \in current
    /\ at' = [at EXCEPT ![c] = "sleep"]
    /\ last' = Slot(c)
    /\ current' = {}
    /\ UNCHANGED <<clock, now, loaded, wake>>

Retry(c) ==
    /\ at[c] = "swap" /\ c \notin current
    /\ at' = [at EXCEPT ![c] = "load"]
    /\ now' = [now EXCEPT ![c] = clock]
    /\ UNCHANGED <<clock, last, current, loaded, wake>>

\* Mutant of Sleep: it sleeps for one request, however long the queue is.
SleepOne(c) ==
    /\ at[c] = "sleep"
    /\ at' = [at EXCEPT ![c] = "asleep"]
    /\ wake' = [wake EXCEPT ![c] = clock + (IF SleepFor(c) > 0 THEN PerRequest ELSE 0)]
    /\ UNCHANGED <<clock, last, current, now, loaded>>

Sleep(c) ==
    /\ at[c] = "sleep"
    /\ at' = [at EXCEPT ![c] = "asleep"]
    /\ wake' = [wake EXCEPT ![c] = clock + (IF SleepFor(c) > 0 THEN SleepFor(c) ELSE 0)]
    /\ UNCHANGED <<clock, last, current, now, loaded>>

\* Take returns Slot(c), which is still what it computed.
Return(c) ==
    /\ at[c] = "asleep" /\ clock >= wake[c]
    /\ at' = [at EXCEPT ![c] = "idle"]
    /\ UNCHANGED <<clock, last, current, now, loaded, wake>>

Tick ==
    /\ clock < LastTick
    /\ clock' = clock + 1
    /\ UNCHANGED <<last, current, at, now, loaded, wake>>

Next ==
    \/ \E c \in Callers :
          ReadClock(c) \/ LoadState(c) \/ SwapState(c) \/ Retry(c) \/ Sleep(c)
          \/ Return(c)
    \/ Tick

Spec == Init /\ [][Next]_vars

-----------------------------------------------------------------------------
\* The slots of two calls are PerRequest apart ("保证每次不同的 call 之间间隔是
\* time.Second/rate"), although the callers compute them at the same time from a
\* state and a clock that may be old: what a call takes is the state's new slot, at
\* PerRequest or more after the one before, and no step but a call's changes the state.
Takes(c) == at[c] = "swap" /\ at'[c] = "sleep"
Spaced ==
    [][/\ \A c \in Callers : Takes(c) =>
             /\ last' = Slot(c)'
             /\ last # ZeroTime => last' >= last + PerRequest
       /\ last' # last => \E c \in Callers : Takes(c)]_vars

\* Take does not return before its slot, although the time to sleep was computed
\* from a clock that has gone on since.
NotEarly ==
    [][\A c \in Callers : at[c] = "asleep" /\ at'[c] = "idle" => clock >= Slot(c)]_vars

\* No slot is wasted: the queue reaches no further into the future than there are
\* calls which wait for a slot to come.
WaitingFor(t) == {c \in Callers : at[c] \in {"sleep", "asleep"} /\ Slot(c) > t}
NoSlotWasted == last =< clock + PerRequest * Cardinality(WaitingFor(clock))

-----------------------------------------------------------------------------
\* The inductive strengthening: what a caller loaded is the state's slot as long as its
\* pointer is the state's; the clock it read is not ahead; it wakes at its slot or after.
LoadedInv == \A c \in current : at[c] = "swap" => loaded[c] = last
WakeInv ==
    \A c \in Callers :
       /\ now[c] =< clock
       /\ at[c] = "asleep" => Slot(c) =< wake[c]

\* NoSlotWasted at every later moment, as far as the calls there are decide it: the
\* clock only picks the moment.
QueueInv == \A t \in clock..last : last =< t + PerRequest * Cardinality(WaitingFor(t))

LimiterInv == TypeOK /\ LoadedInv /\ WakeInv /\ QueueInv
=============================================================================
