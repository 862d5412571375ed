------------------------- MODULE RateLimiterProofs -------------------------
(***************************************************************************)
(* Proofs about the rate limiter, for any number of callers and any rate.  *)
(***************************************************************************)
EXTENDS RateLimiter, FiniteSetTheorems, TLAPS

\* A slot is a natural number, the time of the clock or later, and PerRequest or more
\* after the slot that was loaded.
LEMMA SlotProperties ==
    ASSUME TypeOK, NEW c \in Callers
    PROVE  /\ SleepFor(c) \in Int /\ Slot(c) \in Nat
           /\ Slot(c) >= now[c]
           /\ loaded[c] # ZeroTime => Slot(c) >= loaded[c] + PerRequest
           /\ SleepFor(c) > 0 => Slot(c) = now[c] + SleepFor(c)
           /\ ~(SleepFor(c) > 0) => Slot(c) = now[c]
<1>1. now[c] \in Nat /\ loaded[c] \in Nat /\ PerRequest \in Nat
  BY LimiterAssumption DEF TypeOK
<1>2. CASE loaded[c] = ZeroTime
  BY <1>1, <1>2 DEF SleepFor, Slot
<1>3. CASE loaded[c] # ZeroTime
  <2>1. SleepFor(c) = PerRequest - (now[c] - loaded[c])
    BY <1>3 DEF SleepFor
  <2>. QED
    BY <1>1, <1>3, <2>1 DEF Slot
<1>. QED
  BY <1>2, <1>3

\* A caller that reads nothing keeps its slot.
LEMMA SlotKept ==
    ASSUME NEW c \in Callers, now'[c] = now[c], loaded'[c] = loaded[c]
    PROVE  Slot(c)' = Slot(c)
BY DEF Slot, SleepFor

LEMMA TypeStep ==
    ASSUME TypeOK, [Next]_vars
    PROVE  TypeOK'
<1>1. ASSUME NEW c \in Callers, ReadClock(c)
      PROVE  TypeOK'
  BY <1>1 DEF TypeOK, ReadClock
<1>2. ASSUME NEW c \in Callers, LoadState(c)
      PROVE  TypeOK'
  BY <1>2 DEF TypeOK, LoadState
<1>3. ASSUME NEW c \in Callers, SwapState(c)
      PROVE  TypeOK'
  BY <1>3, SlotProperties DEF TypeOK, SwapState
<1>4. ASSUME NEW c \in Callers, Retry(c)
      PROVE  TypeOK'
  BY <1>4 DEF TypeOK, Retry
<1>5. ASSUME NEW c \in Callers, Sleep(c)
      PROVE  TypeOK'
  <2>1. clock + (IF SleepFor(c) > 0 THEN SleepFor(c) ELSE 0) \in Nat
    BY SlotProperties, LimiterAssumption DEF TypeOK
  <2>. QED
    BY <1>5, <2>1 DEF TypeOK, Sleep
<1>6. ASSUME NEW c \in Callers, Return(c)
      PROVE  TypeOK'
  BY <1>6 DEF TypeOK, Return
<1>7. CASE Tick
  BY <1>7, LimiterAssumption DEF TypeOK, Tick
<1>8. CASE UNCHANGED vars
  BY <1>8 DEF TypeOK, vars
<1>. QED
  BY <1>1, <1>2, <1>3, <1>4, <1>5, <1>6, <1>7, <1>8 DEF Next

LEMMA LoadedStep ==
    ASSUME TypeOK, LoadedInv, [Next]_vars
    PROVE  LoadedInv'
<1>1. ASSUME NEW c \in Callers, LoadState(c)
      PROVE  LoadedInv'
  BY <1>1 DEF TypeOK, LoadedInv, LoadState
<1>2. ASSUME NEW c \in Callers, SwapState(c)
      PROVE  LoadedInv'
  BY <1>2 DEF LoadedInv, SwapState
<1>3. ASSUME NEW c \in Callers,
             ReadClock(c) \/ Retry(c) \/ Sleep(c) \/ Return(c)
      PROVE  LoadedInv'
  <2>1. /\ UNCHANGED <<last, current, loaded>>
        /\ \E to \in {"load", "asleep", "idle"} : at' = [at EXCEPT ![c] = to]
    BY <1>3 DEF ReadClock, Retry, Sleep, Return
  <2>. QED
    BY <2>1 DEF TypeOK, LoadedInv
<1>4. CASE Tick \/ UNCHANGED vars
  BY <1>4 DEF LoadedInv, Tick, vars
<1>. QED
  BY <1>1, <1>2, <1>3, <1>4 DEF Next

LEMMA WakeStep ==
    ASSUME TypeOK, WakeInv, [Next]_vars
    PROVE  WakeInv'
<1>1. ASSUME NEW c \in Callers, ReadClock(c) \/ Retry(c)
      PROVE  WakeInv'
  <2>1. /\ at' = [at EXCEPT ![c] = "load"] /\ now' = [now EXCEPT ![c] = clock]
        /\ UNCHANGED <<clock, loaded, wake>>
    BY <1>1 DEF ReadClock, Retry
  <2>2. \A d \in Callers \ {c} : Slot(d)' = Slot(d)
    BY <2>1, SlotKept DEF TypeOK
  <2>. QED
    BY <2>1, <2>2, LimiterAssumption DEF TypeOK, WakeInv
<1>2. ASSUME NEW c \in Callers, LoadState(c)
      PROVE  WakeInv'
  <2>1. \A d \in Callers \ {c} : Slot(d)' = Slot(d)
    BY <1>2, SlotKept DEF TypeOK, LoadState
  <2>. QED
    BY <1>2, <2>1 DEF TypeOK, WakeInv, LoadState
<1>3. ASSUME NEW c \in Callers, SwapState(c) \/ Return(c)
      PROVE  WakeInv'
  <2>1. /\ \E to \in {"sleep", "idle"} : at' = [at EXCEPT ![c] = to]
        /\ UNCHANGED <<clock, now, loaded, wake>>
    BY <1>3 DEF SwapState, Return
  <2>2. \A d \in Callers : Slot(d)' = Slot(d)
    BY <2>1, SlotKept
  <2>. QED
    BY <2>1, <2>2 DEF TypeOK, WakeInv
<1>4. ASSUME NEW c \in Callers, Sleep(c)
      PROVE  WakeInv'
  <2>1. \A d \in Callers : Slot(d)' = Slot(d)
    BY <1>4, SlotKept DEF Sleep
  <2>2. Slot(c) =< wake'[c]
    BY <1>4, SlotProperties, LimiterAssumption DEF TypeOK, WakeInv, Sleep
  <2>3. \A d \in Callers \ {c} : wake'[d] = wake[d] /\ at'[d] = at[d]
    BY <1>4 DEF TypeOK, Sleep
  <2>. QED
    BY <1>4, <2>1, <2>2, <2>3 DEF WakeInv, Sleep
<1>5. CASE Tick
  <2>1. \A d \in Callers : Slot(d)' = Slot(d)
    BY <1>5, SlotKept DEF Tick
  <2>. QED
    BY <1>5, <2>1, LimiterAssumption DEF TypeOK, WakeInv, Tick
<1>6. CASE UNCHANGED vars
  <2>1. \A d \in Callers : Slot(d)' = Slot(d)
    BY <1>6, SlotKept DEF vars
  <2>. QED
    BY <1>6, <2>1 DEF WakeInv, vars
<1>. QED
  BY <1>1, <1>2, <1>3, <1>4, <1>5, <1>6 DEF Next

\* The calls that wait for a slot after t are finite in number; one more joins as the
\* queue grows by one slot.
LEMMA WaitingCount ==
    ASSUME NEW t \in Nat
    PROVE  /\ IsFiniteSet(WaitingFor(t))
           /\ Cardinality(WaitingFor(t)) \in Nat
           /\ PerRequest * Cardinality(WaitingFor(t)) \in Nat
           /\ \A c \in Callers \ WaitingFor(t) :
                 PerRequest * Cardinality(WaitingFor(t) \cup {c})
                    = PerRequest * Cardinality(WaitingFor(t)) + PerRequest
<1>1. IsFiniteSet(WaitingFor(t)) /\ Cardinality(WaitingFor(t)) \in Nat
  BY LimiterAssumption, FS_Subset, FS_CardinalityType DEF WaitingFor
<1>2. ASSUME NEW n \in Nat
      PROVE  PerRequest * n \in Nat /\ PerRequest * (n + 1) = PerRequest * n + PerRequest
  BY LimiterAssumption
<1>3. \A c \in Callers \ WaitingFor(t) :
         Cardinality(WaitingFor(t) \cup {c}) = Cardinality(WaitingFor(t)) + 1
  BY <1>1, FS_AddElement
<1>. QED
  BY <1>1, <1>2, <1>3

\* A step in which the state stays and no call leaves the queue keeps its length.
LEMMA QueueKept ==
    ASSUME TypeOK, TypeOK', QueueInv, last' = last,
           \A t \in clock'..last' : t >= clock /\ WaitingFor(t)' = WaitingFor(t)
    PROVE  QueueInv'
BY DEF QueueInv, TypeOK

\* The queue grows by the call that takes its last slot, and a call leaves it when its
\* slot has come.
LEMMA QueueStep ==
    ASSUME TypeOK, TypeOK', LoadedInv, WakeInv, QueueInv, [Next]_vars
    PROVE  QueueInv'
<1>a. /\ clock \in Nat /\ last \in Nat /\ PerRequest \in Nat
      /\ clock' \in Nat /\ last' \in Nat
  BY LimiterAssumption DEF TypeOK
<1>1. ASSUME NEW c \in Callers, ReadClock(c) \/ LoadState(c) \/ Retry(c)
      PROVE  QueueInv'
  <2>1. /\ UNCHANGED <<clock, last>>
        /\ at[c] \in {"idle", "load", "swap"}
        /\ \E to \in {"load", "swap"} : at' = [at EXCEPT ![c] = to]
    BY <1>1 DEF ReadClock, LoadState, Retry
  <2>2. \A d \in Callers \ {c} : Slot(d)' = Slot(d)
    BY <1>1, SlotKept DEF ReadClock, LoadState, Retry, TypeOK
  <2>3. \A t : WaitingFor(t)' = WaitingFor(t)
    BY <2>1, <2>2 DEF WaitingFor, TypeOK
  <2>. QED
    BY <1>a, <2>1, <2>3, QueueKept
<1>2. ASSUME NEW c \in Callers, SwapState(c)
      PROVE  QueueInv'
  <2>1. /\ at[c] = "swap" /\ last' = Slot(c) /\ loaded[c] = last
        /\ now[c] =< clock /\ now[c] \in Nat
        /\ at' = [at EXCEPT ![c] = "sleep"] /\ clock' = clock
    BY <1>2 DEF SwapState, LoadedInv, WakeInv, TypeOK
  <2>2. \A d \in Callers : Slot(d)' = Slot(d)
    BY <1>2, SlotKept DEF SwapState
  <2>. SUFFICES ASSUME NEW t \in clock..last'
                PROVE  last' =< t + PerRequest * Cardinality(WaitingFor(t)')
    BY <2>1 DEF QueueInv
  <2>3. t \in Nat /\ t >= clock /\ t =< last'
    BY <1>a
  <2>4. CASE t = last'
    <3>1. WaitingFor(t)' = WaitingFor(t)
      BY <1>a, <2>1, <2>2, <2>4 DEF WaitingFor, TypeOK
    <3>. QED
      BY <1>a, <2>4, <3>1, WaitingCount
  <2>5. CASE t # last'
    <3>1. Slot(c) > t
      BY <1>a, <2>1, <2>3, <2>5
    <3>2. c \notin WaitingFor(t) /\ WaitingFor(t)' = WaitingFor(t) \cup {c}
      BY <2>1, <2>2, <3>1 DEF WaitingFor, TypeOK
    <3>3. Slot(c) = last + PerRequest
      <4>1. SleepFor(c) > 0 /\ Slot(c) = now[c] + SleepFor(c) /\ SleepFor(c) \in Int
        BY <1>a, <2>1, <2>3, <3>1, SlotProperties
      <4>2. SleepFor(c) = PerRequest - (now[c] - last)
        BY <2>1, <4>1 DEF SleepFor
      <4>. QED
        BY <1>a, <2>1, <4>1, <4>2
    <3>4. last =< t + PerRequest * Cardinality(WaitingFor(t))
      <4>1. PerRequest * Cardinality(WaitingFor(t)) \in Nat
        BY <2>3, WaitingCount
      <4>2. CASE t =< last
        <5>1. t \in clock..last
          BY <1>a, <2>3, <4>2
        <5>. QED
          BY <5>1 DEF QueueInv
      <4>3. CASE ~(t =< last)
        BY <1>a, <2>3, <4>1, <4>3
      <4>. QED
        BY <4>2, <4>3
    <3>5. PerRequest * Cardinality(WaitingFor(t)')
             = PerRequest * Cardinality(WaitingFor(t)) + PerRequest
          /\ PerRequest * Cardinality(WaitingFor(t)) \in Nat
      BY <2>3, <3>2, WaitingCount
    <3>. QED
      BY <1>a, <2>1, <2>3, <3>3, <3>4, <3>5
  <2>. QED
    BY <2>4, <2>5
<1>3. ASSUME NEW c \in Callers, Sleep(c)
      PROVE  QueueInv'
  <2>1. \A d \in Callers : Slot(d)' = Slot(d)
    BY <1>3, SlotKept DEF Sleep
  <2>2. \A t : WaitingFor(t)' = WaitingFor(t)
    BY <1>3, <2>1 DEF Sleep, WaitingFor, TypeOK
  <2>. QED
    BY <1>3, <1>a, <2>2, QueueKept DEF Sleep
<1>4. ASSUME NEW c \in Callers, Return(c)
      PROVE  QueueInv'
  <2>1. \A d \in Callers : Slot(d)' = Slot(d)
    BY <1>4, SlotKept DEF Return
  <2>2. Slot(c) \in Nat /\ Slot(c) =< wake[c] /\ wake[c] =< clock /\ wake[c] \in Nat
    BY <1>4, SlotProperties DEF Return, WakeInv, TypeOK
  <2>3. ASSUME NEW t \in clock..last
        PROVE  WaitingFor(t)' = WaitingFor(t)
    <3>1. ~(Slot(c) > t)
      BY <1>a, <2>2
    <3>. QED
      BY <1>4, <2>1, <3>1 DEF Return, WaitingFor, TypeOK
  <2>. QED
    BY <1>4, <1>a, <2>3, QueueKept DEF Return
<1>5. CASE Tick \/ UNCHANGED vars
  <2>1. \A d \in Callers : Slot(d)' = Slot(d)
    BY <1>5, SlotKept DEF Tick, vars
  <2>2. \A t : WaitingFor(t)' = WaitingFor(t)
    BY <1>5, <2>1 DEF Tick, vars, WaitingFor
  <2>3. last' = last /\ clock' >= clock
    BY <1>5, <1>a DEF Tick, vars
  <2>. QED
    BY <1>a, <2>2, <2>3, QueueKept
<1>. QED
  BY <1>1, <1>2, <1>3, <1>4, <1>5 DEF Next

\* A new limiter has no slot taken.
LEMMA InitLimiterInv == Init => LimiterInv
<1>. SUFFICES ASSUME Init PROVE LimiterInv
  OBVIOUS
<1>1. TypeOK /\ LoadedInv /\ WakeInv
  BY LimiterAssumption DEF Init, TypeOK, LoadedInv, WakeInv, ZeroTime
<1>2. clock..last = {}
  BY DEF Init, ZeroTime
<1>. QED
  BY <1>1, <1>2 DEF LimiterInv, QueueInv

\* The invariant of the limiter, for every number of callers and every rate.
THEOREM Inductive == Spec => []LimiterInv
<1>1. LimiterInv /\ [Next]_vars => LimiterInv'
  BY TypeStep, LoadedStep, WakeStep, QueueStep DEF LimiterInv
<1>. QED
  BY <1>1, InitLimiterInv, PTL DEF Spec

\* Every variable keeps its type; no slot is before the beginning of time.
THEOREM TypeCorrect == Spec => []TypeOK
<1>1. LimiterInv => TypeOK
  BY DEF LimiterInv
<1>. QED
  BY <1>1, Inductive, PTL

\* Each call takes a slot that is PerRequest or more after the one before, two calls that
\* loaded the same state included, for every number of callers and every rate.
THEOREM SlotsApart == Spec => Spaced
<1>. DEFINE Ordered ==
       /\ \A c \in Callers : Takes(c) =>
             /\ last' = Slot(c)'
             /\ last # ZeroTime => last' >= last + PerRequest
       /\ last' # last => \E c \in Callers : Takes(c)
<1>1. ASSUME LimiterInv, NEW c \in Callers, SwapState(c)
      PROVE  Ordered
  <2>1. \A d \in Callers : Takes(d) => d = c
    BY <1>1 DEF LimiterInv, TypeOK, SwapState, Takes
  <2>2. Takes(c) /\ loaded[c] = last /\ last' = Slot(c)
    BY <1>1 DEF LimiterInv, TypeOK, LoadedInv, SwapState, Takes
  <2>3. Slot(c)' = Slot(c)
    BY <1>1, SlotKept DEF SwapState
  <2>4. last # ZeroTime => last' >= last + PerRequest
    BY <1>1, <2>2, SlotProperties DEF LimiterInv
  <2>. QED
    BY <2>1, <2>2, <2>3, <2>4
<1>2. ASSUME LimiterInv, Next, \A c \in Callers : ~SwapState(c)
      PROVE  Ordered
  <2>1. last' = last
    BY <1>2 DEF Next, ReadClock, LoadState, Retry, Sleep, Return, Tick
  <2>2. \A c \in Callers : ~Takes(c)
    BY <1>2 DEF LimiterInv, TypeOK, Next, ReadClock, LoadState, Retry, Sleep, Return,
       Tick, Takes
  <2>. QED
    BY <2>1, <2>2
<1>3. LimiterInv /\ [Next]_vars => [Ordered]_vars
  BY <1>1, <1>2
<1>. QED
  BY <1>3, Inductive, PTL DEF Spec, Spaced

\* No slot is wasted, however the calls race for the state: the last slot given out is
\* no later than the calls that still wait for a slot account for.
THEOREM QueueIsTight == Spec => []NoSlotWasted
<1>1. LimiterInv => NoSlotWasted
  <2>. SUFFICES ASSUME LimiterInv
                PROVE  last =< clock + PerRequest * Cardinality(WaitingFor(clock))
    BY DEF NoSlotWasted
  <2>1. /\ clock \in Nat /\ last \in Nat
        /\ PerRequest * Cardinality(WaitingFor(clock)) \in Nat
    BY WaitingCount, LimiterAssumption DEF LimiterInv, TypeOK
  <2>2. CASE clock =< last
    BY <2>1, <2>2 DEF LimiterInv, QueueInv
  <2>3. CASE ~(clock =< last)
    BY <2>1, <2>3
  <2>. QED
    BY <2>2, <2>3
<1>. QED
  BY <1>1, Inductive, PTL

\* Take does not return before its slot.
THEOREM ReturnsInTime == Spec => NotEarly
<1>1. ASSUME LimiterInv, Next, NEW c \in Callers, at[c] = "asleep", at'[c] = "idle"
      PROVE  clock >= Slot(c)
  <2>1. clock >= wake[c]
    BY <1>1 DEF LimiterInv, TypeOK, Next, ReadClock, LoadState, SwapState, Retry, Sleep,
       Return, Tick
  <2>. QED
    BY <1>1, <2>1, SlotProperties, LimiterAssumption DEF LimiterInv, TypeOK, WakeInv
<1>2. LimiterInv /\ [Next]_vars =>
         [\A c \in Callers :
             at[c] = "asleep" /\ at'[c] = "idle" => clock >= Slot(c)]_vars
  BY <1>1
<1>. QED
  BY <1>2, Inductive, PTL DEF Spec, NotEarly
=============================================================================
