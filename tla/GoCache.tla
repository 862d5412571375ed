------------------------------ MODULE GoCache ------------------------------
(***************************************************************************)
(* go-cache: a map of items with an expiry, under a sync.RWMutex, used by  *)
(* several goroutines, with a callback for what is evicted and a janitor   *)
(* goroutine that a finalizer stops.  What a call computes before it takes *)
(* the lock (the expiry in Set, the time in DeleteExpired) and what it     *)
(* does after it released it (the callbacks) are steps of their own.       *)
(*                                                                         *)
(* The RWMutex is external and modelled with what Unlock does to a reader, *)
(* because GetWithExpiration calls it.  The callback is the application's  *)
(* and looks something up in the cache, which it may.  A stored value is   *)
(* an object that is in one place at a time.                               *)
(***************************************************************************)
EXTENDS Integers, FiniteSets

CONSTANTS Users,              \* goroutines that use the cache
          Janitor,            \* the goroutine of janitor.Run
          Nobody,
          Keys, NoKey,
          Objects, NoObject,
          Lifetimes,          \* the durations given to Set, Add and Replace
          DefaultExpiration,  \* the duration given to New
          LastTick            \* bound: the clock stops there

ASSUME CacheAssumption ==
    /\ IsFiniteSet(Users) /\ Janitor \notin Users
    /\ Nobody \notin Users \cup {Janitor}
    /\ NoKey \notin Keys /\ NoObject \notin Objects
    /\ Lifetimes \subseteq Int /\ DefaultExpiration \in Int
    /\ \E d \in Lifetimes \cup {DefaultExpiration, 0} :
          \A e \in Lifetimes \cup {DefaultExpiration, 0} : e =< d
    /\ LastTick \in Nat

VARIABLES
    now,        \* time.Now()
    items,      \* cache.items
    evicting,   \* cache.onEvicted # nil
    writer,     \* the goroutine that announced a write lock or holds it
    readers,    \* the goroutines that hold a read lock
    leaked,     \* read locks that nobody will release
    at,         \* where each goroutine is
    call,       \* the call each goroutine is in: operation, key, object, and
                \* the time or duration it works with
    evicted,    \* objects each goroutine has still to report
    stopping,   \* the finalizer waits to send on janitor.stop
    fatal       \* "none", or what ended the process

lock == <<writer, readers, leaked>>
vars == <<now, items, evicting, lock, at, call, evicted, stopping, fatal>>

Goroutines == Users \cup {Janitor}

WriteCalls == {"Set", "Add", "Replace", "Delete", "DeleteExpired", "OnEvicted",
               "Flush"}
\* Get stands for Items and ItemCount too, which use the lock in the same way.
ReadCalls == {"Get", "GetWithExpiration", "Callback"}
Call(op, k, o, t) == [op |-> op, key |-> k, obj |-> o, time |-> t]
NoCall == Call("none", NoKey, NoObject, 0)

\* Outside; before Lock; waiting for the readers; before RLock; holding the read
\* lock; before a callback; and for the janitor, in select and ended.
Locations == {"out", "lock", "wait", "rlock", "read", "report", "select",
              "ended"}

\* The longest life of an item.
Longest == CHOOSE d \in Lifetimes \cup {DefaultExpiration, 0} :
               \A e \in Lifetimes \cup {DefaultExpiration, 0} : e =< d

Expirations == 0..(LastTick + Longest)
Items == [obj : Objects, expiration : Expirations]

TypeOK ==
    /\ now \in 0..LastTick
    /\ DOMAIN items \subseteq Keys /\ \A k \in DOMAIN items : items[k] \in Items
    /\ evicting \in BOOLEAN /\ stopping \in BOOLEAN
    /\ writer \in Goroutines \cup {Nobody}
    /\ readers \subseteq Goroutines /\ leaked \in 0..Cardinality(Goroutines)
    /\ at \in [Goroutines -> Locations]
    /\ call \in [Goroutines -> [op : WriteCalls \cup ReadCalls \cup {"none"},
                                key : Keys \cup {NoKey},
                                obj : Objects \cup {NoObject},
                                time : Int]]
    /\ evicted \in [Goroutines -> SUBSET Objects]
    /\ fatal \in {"none", "unlock", "nil callback"}

Init ==
    /\ now = 0
    /\ items = << >>
    /\ evicting = FALSE
    /\ writer = Nobody /\ readers = {} /\ leaked = 0
    /\ at = [g \in Goroutines |-> IF g = Janitor THEN "select" ELSE "out"]
    /\ call = [g \in Goroutines |-> NoCall]
    /\ evicted = [g \in Goroutines |-> {}]
    /\ stopping = FALSE
    /\ fatal = "none"

-----------------------------------------------------------------------------
Goto(g, l) == at' = [at EXCEPT ![g] = l]
Doing(g, op) == call[g].op = op

\* newCache replaces a default of 0 by "never".
DefaultLifetime == IF DefaultExpiration = 0 THEN -1 ELSE DefaultExpiration

\* Mutant of ExpirationAfter: the test d > 0 is missing.
ExpirationAfterAny(d) == now + (IF d = 0 THEN DefaultLifetime ELSE d)

\* When an item that is set now for the duration d expires, 0 for never.
ExpirationAfter(d) ==
    LET life == IF d = 0 THEN DefaultLifetime ELSE d
    IN IF life > 0 THEN now + life ELSE 0

\* Mutant of ExpiredAt: >= for >.
ExpiredFrom(item, t) == item.expiration > 0 /\ t >= item.expiration

ExpiredAt(item, t) == item.expiration > 0 /\ t > item.expiration

\* cache.get, and Get: the key is there and its item is not expired.
Found(k) ==
    /\ k \in DOMAIN items
    /\ items[k].expiration > 0 => now =< items[k].expiration

Stored == {items[k].obj : k \in DOMAIN items}
Unused ==
    Objects \ (Stored \cup UNION {evicted[g] \cup {call[g].obj} : g \in Goroutines})

Return(g) ==
    /\ Goto(g, IF g = Janitor THEN "select" ELSE "out")
    /\ call' = [call EXCEPT ![g] = NoCall]

-----------------------------------------------------------------------------
\* A call begins.  Once the finalizer runs nobody refers to the cache any more,
\* and no new call is made.
Begin(g, l, op, k, o, t) ==
    /\ at[g] = "out" /\ ~stopping /\ at[Janitor] # "ended"
    /\ call' = [call EXCEPT ![g] = Call(op, k, o, t)]
    /\ Goto(g, l)
    /\ UNCHANGED <<now, items, evicting, lock, evicted, stopping, fatal>>

\* Set has computed the expiry when it comes to the lock; Add and Replace compute
\* it under the lock.
BeginSet(g) ==
    \E k \in Keys, o \in Unused, d \in Lifetimes :
        Begin(g, "lock", "Set", k, o, ExpirationAfter(d))
BeginAdd(g) ==
    \E k \in Keys, o \in Unused, d \in Lifetimes : Begin(g, "lock", "Add", k, o, d)
BeginReplace(g) ==
    \E k \in Keys, o \in Unused, d \in Lifetimes : Begin(g, "lock", "Replace", k, o, d)
BeginDelete(g) == \E k \in Keys : Begin(g, "lock", "Delete", k, NoObject, 0)
BeginDeleteExpired(g) == Begin(g, "lock", "DeleteExpired", NoKey, NoObject, now)
BeginOnEvicted(g) == Begin(g, "lock", "OnEvicted", NoKey, NoObject, 0)
BeginFlush(g) == Begin(g, "lock", "Flush", NoKey, NoObject, 0)
BeginGet(g) == Begin(g, "rlock", "Get", NoKey, NoObject, 0)
BeginGetWithExpiration(g) ==
    \E k \in Keys : Begin(g, "rlock", "GetWithExpiration", k, NoObject, 0)

BeginCall(g) ==
    \/ BeginSet(g) \/ BeginAdd(g) \/ BeginReplace(g)
    \/ BeginDelete(g) \/ BeginDeleteExpired(g) \/ BeginOnEvicted(g) \/ BeginFlush(g)
    \/ BeginGet(g) \/ BeginGetWithExpiration(g)

-----------------------------------------------------------------------------
\* The RWMutex: a writer announces itself, which keeps new readers out, and then
\* waits for the readers there are.
Announce(g) ==
    /\ at[g] = "lock" /\ writer = Nobody
    /\ writer' = g
    /\ Goto(g, "wait")
    /\ UNCHANGED <<now, items, evicting, readers, leaked, call, evicted, stopping,
                   fatal>>

RLock(g) ==
    /\ at[g] = "rlock" /\ writer = Nobody
    /\ readers' = readers \cup {g}
    /\ Goto(g, "read")
    /\ UNCHANGED <<now, items, evicting, writer, leaked, call, evicted, stopping,
                   fatal>>

\* What a write call does under the lock, up to the Unlock.
Locked(g) == at[g] = "wait" /\ writer = g /\ readers = {} /\ leaked = 0

Store(k, o, e) ==
    items' = [j \in DOMAIN items \cup {k} |->
                 IF j = k THEN [obj |-> o, expiration |-> e] ELSE items[j]]
Remove(ks) == items' = [k \in DOMAIN items \ ks |-> items[k]]

Unlock(g) ==
    /\ writer' = Nobody
    /\ UNCHANGED <<now, readers, leaked, stopping, fatal>>

WriteSet(g) ==
    /\ Locked(g) /\ Doing(g, "Set")
    /\ Store(call[g].key, call[g].obj, call[g].time)
    /\ Return(g) /\ Unlock(g)
    /\ UNCHANGED <<evicting, evicted>>

WriteAdd(g) ==
    /\ Locked(g) /\ Doing(g, "Add")
    /\ IF Found(call[g].key)
       THEN UNCHANGED items
       ELSE Store(call[g].key, call[g].obj, ExpirationAfter(call[g].time))
    /\ Return(g) /\ Unlock(g)
    /\ UNCHANGED <<evicting, evicted>>

WriteReplace(g) ==
    /\ Locked(g) /\ Doing(g, "Replace")
    /\ IF Found(call[g].key)
       THEN Store(call[g].key, call[g].obj, ExpirationAfter(call[g].time))
       ELSE UNCHANGED items
    /\ Return(g) /\ Unlock(g)
    /\ UNCHANGED <<evicting, evicted>>

\* After the Unlock, the objects to report.
Report(g, objs) ==
    IF objs = {}
    THEN Return(g) /\ UNCHANGED evicted
    ELSE /\ evicted' = [evicted EXCEPT ![g] = objs]
         /\ Goto(g, "report")
         /\ UNCHANGED call

\* Mutant of Evict: delete(c.items, k) is missing where there is a callback.
EvictKeeps(g, ks) ==
    /\ IF evicting THEN UNCHANGED items ELSE Remove(ks)
    /\ Report(g, IF evicting THEN {items[k].obj : k \in ks} ELSE {})

\* Mutant of Evict: delete(c.items, k) is missing where there is no callback.
EvictReportedOnly(g, ks) ==
    /\ IF evicting THEN Remove(ks) ELSE UNCHANGED items
    /\ Report(g, IF evicting THEN {items[k].obj : k \in ks} ELSE {})

\* cache.delete for the keys ks, which are there.
Evict(g, ks) ==
    /\ Remove(ks)
    /\ Report(g, IF evicting THEN {items[k].obj : k \in ks} ELSE {})

\* Mutant of WriteDelete: the callback runs before the Unlock.
WriteDeleteLocked(g) ==
    /\ Locked(g) /\ Doing(g, "Delete")
    /\ Evict(g, {call[g].key} \cap DOMAIN items)
    /\ writer' = IF evicted'[g] = {} THEN Nobody ELSE g
    /\ UNCHANGED <<now, evicting, readers, leaked, stopping, fatal>>

WriteDelete(g) ==
    /\ Locked(g) /\ Doing(g, "Delete")
    /\ Evict(g, {call[g].key} \cap DOMAIN items)
    /\ Unlock(g)
    /\ UNCHANGED evicting

WriteDeleteExpired(g) ==
    /\ Locked(g) /\ Doing(g, "DeleteExpired")
    /\ Evict(g, {k \in DOMAIN items : ExpiredAt(items[k], call[g].time)})
    /\ Unlock(g)
    /\ UNCHANGED evicting

WriteOnEvicted(g) ==
    /\ Locked(g) /\ Doing(g, "OnEvicted")
    /\ evicting' \in BOOLEAN
    /\ Return(g) /\ Unlock(g)
    /\ UNCHANGED <<items, evicted>>

WriteFlush(g) ==
    /\ Locked(g) /\ Doing(g, "Flush")
    /\ items' = << >>
    /\ Return(g) /\ Unlock(g)
    /\ UNCHANGED <<evicting, evicted>>

-----------------------------------------------------------------------------
\* The read calls: what they return is left out, how they leave the lock is not.
MissesKey(g) == Doing(g, "GetWithExpiration") /\ call[g].key \notin DOMAIN items

\* RUnlock.  The lookup of a callback ends the report of one object.
ReadEnd(g) ==
    /\ at[g] = "read" /\ ~MissesKey(g)
    /\ readers' = readers \ {g}
    /\ IF Doing(g, "Callback") /\ evicted[g] # {}
       THEN Goto(g, "report") /\ UNCHANGED call
       ELSE Return(g)
    /\ UNCHANGED <<now, items, evicting, writer, leaked, evicted, stopping, fatal>>

\* GetWithExpiration calls Unlock when the key is missing.  With no writer
\* announced the runtime ends the process.  Otherwise the announcement is undone
\* under the writer, which will wait for ever: the read lock it waits for stays.
\* (The surplus wake-ups this leaves for later readers are left out: no writer
\* gets the lock any more.)
UnlockAfterRLock(g) ==
    /\ at[g] = "read" /\ MissesKey(g)
    /\ IF writer = Nobody
       THEN /\ fatal' = "unlock"
            /\ UNCHANGED <<lock, at, call>>
       ELSE /\ writer' = Nobody
            /\ readers' = readers \ {g}
            /\ leaked' = leaked + 1
            /\ Return(g)
            /\ UNCHANGED fatal
    /\ UNCHANGED <<now, items, evicting, evicted, stopping>>

\* One c.onEvicted(k, v): the field is read without the lock.
RunCallback(g) ==
    /\ at[g] = "report" /\ evicting
    /\ \E o \in evicted[g] : evicted' = [evicted EXCEPT ![g] = @ \ {o}]
    /\ call' = [call EXCEPT ![g] = Call("Callback", NoKey, NoObject, 0)]
    /\ Goto(g, "rlock")
    /\ UNCHANGED <<now, items, evicting, lock, stopping, fatal>>

CallNil(g) ==
    /\ at[g] = "report" /\ ~evicting
    /\ fatal' = "nil callback"
    /\ UNCHANGED <<now, items, evicting, lock, at, call, evicted, stopping>>

-----------------------------------------------------------------------------
\* The janitor's select: a tick, or the value the finalizer sends.
JanitorTick ==
    /\ at[Janitor] = "select"
    /\ call' = [call EXCEPT ![Janitor] = Call("DeleteExpired", NoKey, NoObject, now)]
    /\ Goto(Janitor, "lock")
    /\ UNCHANGED <<now, items, evicting, lock, evicted, stopping, fatal>>

\* Mutant of JanitorStop: break, which leaves the select only, for return.
JanitorGoesOn ==
    /\ at[Janitor] = "select" /\ stopping
    /\ stopping' = FALSE
    /\ UNCHANGED <<now, items, evicting, lock, at, call, evicted, fatal>>

JanitorStop ==
    /\ at[Janitor] = "select" /\ stopping
    /\ stopping' = FALSE
    /\ Goto(Janitor, "ended")
    /\ UNCHANGED <<now, items, evicting, lock, call, evicted, fatal>>

\* The garbage collector runs the finalizer, stopJanitor.
Finalize ==
    /\ ~stopping /\ at[Janitor] # "ended"
    /\ stopping' = TRUE
    /\ UNCHANGED <<now, items, evicting, lock, at, call, evicted, fatal>>

Tick ==
    /\ now < LastTick
    /\ now' = now + 1
    /\ UNCHANGED <<items, evicting, lock, at, call, evicted, stopping, fatal>>

-----------------------------------------------------------------------------
Write(g) ==
    \/ WriteSet(g) \/ WriteAdd(g) \/ WriteReplace(g)
    \/ WriteDelete(g) \/ WriteDeleteExpired(g) \/ WriteOnEvicted(g) \/ WriteFlush(g)

\* The steps of a call in progress.
Progress(g) ==
    /\ fatal = "none"
    /\ \/ Announce(g) \/ RLock(g) \/ Write(g)
       \/ ReadEnd(g) \/ UnlockAfterRLock(g) \/ RunCallback(g) \/ CallNil(g)

Next ==
    \/ \E g \in Goroutines : Progress(g)
    \/ /\ fatal = "none"
       /\ \/ \E g \in Users : BeginCall(g)
          \/ JanitorTick \/ JanitorStop \/ Finalize \/ Tick

Spec == Init /\ [][Next]_vars

\* A call goes on; the RWMutex lets the waiting readers in before the next writer
\* and queues the writers; select takes any ready case, and the ticker goes on.
FairSpec ==
    /\ Spec
    /\ \A g \in Goroutines : SF_vars(Progress(g))
    /\ SF_vars(fatal = "none" /\ JanitorTick)
    /\ SF_vars(fatal = "none" /\ JanitorStop)

-----------------------------------------------------------------------------
\* The two ways in which the cache brings itself down: see LocksReleasedAsTaken
\* and CallNil.
Misused == fatal # "none" \/ leaked > 0

\* Delete and DeleteExpired run in several goroutines and report what they removed
\* after the Unlock: an object is in the cache or to be reported, not both, and
\* one goroutine only reports it.
EvictedOnce ==
    \A g \in Goroutines :
        /\ evicted[g] \cap Stored = {}
        /\ \A h \in Goroutines \ {g} : evicted[g] \cap evicted[h] = {}

\* The inductive strengthening that is proved for every instance: what each call
\* has in hand, and that no object is in two places.
CallInv ==
    /\ now \in Int
    /\ \A k \in DOMAIN items : items[k].obj \in Objects /\ items[k].expiration \in Int
    /\ call \in [Goroutines -> [op : WriteCalls \cup ReadCalls \cup {"none"},
                               key : Keys \cup {NoKey},
                               obj : Objects \cup {NoObject},
                               time : Int]]
    /\ evicted \in [Goroutines -> SUBSET Objects]
    /\ \A g \in Goroutines :
          /\ call[g].op \in {"Set", "Add", "Replace"} => call[g].obj \in Objects
          /\ Doing(g, "DeleteExpired") => call[g].time =< now

\* When items expire, and which key and duration a call that sets one has in hand.
ExpiryInv ==
    /\ now \in 0..LastTick
    /\ DOMAIN items \subseteq Keys
    /\ \A k \in DOMAIN items : items[k] \in Items
    /\ \A g \in Goroutines :
          /\ call[g].op \in {"Set", "Add", "Replace"} => call[g].key \in Keys
          /\ Doing(g, "Set") => call[g].time \in Expirations
          /\ call[g].op \in {"Add", "Replace"} => call[g].time \in Lifetimes

\* Who waits for the write lock: the writer, and one more goroutine, for ever, for each
\* read lock that nobody will release.
WaitingWriters == {g \in Goroutines : at[g] = "wait"}
LockInv ==
    /\ at \in [Goroutines -> Locations]
    /\ writer \in WaitingWriters \cup {Nobody}
    /\ readers \subseteq Goroutines
    /\ leaked \in Nat
    /\ Cardinality(WaitingWriters) = leaked + (IF writer = Nobody THEN 0 ELSE 1)

\* The flags of the cache and the two ways in which the process ends.
FlagInv ==
    /\ evicting \in BOOLEAN /\ stopping \in BOOLEAN
    /\ fatal \in {"none", "unlock", "nil callback"}

InHand(g) == evicted[g] \cup ({call[g].obj} \ {NoObject})

ObjectInv ==
    /\ \A j, k \in DOMAIN items : items[j].obj = items[k].obj => j = k
    /\ \A g \in Goroutines :
          /\ InHand(g) \cap Stored = {}
          /\ call[g].obj \notin evicted[g]
          /\ \A h \in Goroutines \ {g} : InHand(g) \cap InHand(h) = {}

\* DeleteExpired compares with a time it read before it waited for the lock, with
\* Set and Replace in between: it still removes only what Get no longer returns.
OnlyExpiredRemoved ==
    [][\A g \in Goroutines, k \in DOMAIN items :
          WriteDeleteExpired(g) /\ k \notin DOMAIN items' => ~Found(k)]_vars

\* A call returns, also when its callback uses the cache, unless a
\* GetWithExpiration missed a key or a callback was withdrawn under it.
CallsReturn ==
    \A g \in Users : at[g] # "out" ~> at[g] = "out" \/ Misused

\* The finalizer's send is received and the janitor ends, whatever it is in the
\* middle of: no goroutine is left behind.
JanitorStops == stopping ~> at[Janitor] = "ended" \/ Misused

\* While the janitor runs no expired item stays in the cache for ever.
ExpiredGoes ==
    \A k \in Keys :
        k \in DOMAIN items /\ ~Found(k)
            ~> k \notin DOMAIN items \/ Found(k) \/ Misused \/ stopping
                \/ at[Janitor] = "ended"

\* "Where defer is not used, never forget the unlock of the critical section, or
\* it deadlocks" (the rules at the top of the file): every lock is released by the
\* call that releases that kind of lock.
LocksReleasedAsTaken == fatal # "unlock" /\ leaked = 0
=============================================================================
