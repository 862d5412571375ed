--------------------------- MODULE GoCacheProofs ---------------------------
(***************************************************************************)
(* Theorems about GoCache, for any number of goroutines, keys, objects and *)
(* durations: an evicted object is reported by one goroutine, and once;    *)
(* DeleteExpired removes expired items only; and every variable keeps its  *)
(* type, which for the read locks that are left for ever needs the count   *)
(* of the writers that wait for them.                                      *)
(***************************************************************************)
EXTENDS GoCache, FiniteSetTheorems, TLAPS

Calls == [op : WriteCalls \cup ReadCalls \cup {"none"},
          key : Keys \cup {NoKey},
          obj : Objects \cup {NoObject},
          time : Int]

\* A new cache has nothing in it and nobody in a call.
LEMMA CallInvInit == Init => CallInv
  BY CacheAssumption
  DEF Init, CallInv, CacheAssumption, NoCall, Call, Doing, Goroutines, WriteCalls, ReadCalls

LEMMA ObjectInvInit == Init => ObjectInv
  BY DEF Init, ObjectInv, InHand, Stored, NoCall, Call

-----------------------------------------------------------------------------
\* CallInv survives a step that changes neither the items nor the clock, and
\* gives one goroutine a proper call.
LEMMA CallInvCall ==
  ASSUME CallInv, NEW g \in Goroutines, NEW c \in Calls,
         c.op \in {"Set", "Add", "Replace"} => c.obj \in Objects,
         c.op = "DeleteExpired" => c.time =< now,
         call' = [call EXCEPT ![g] = c],
         evicted' \in [Goroutines -> SUBSET Objects],
         UNCHANGED <<now, items>>
  PROVE  CallInv'
  BY DEF CallInv, Doing, Calls

\* No call is a proper call.
LEMMA NoCallOk == /\ NoCall \in Calls
                  /\ Call("Callback", NoKey, NoObject, 0) \in Calls
  BY DEF NoCall, Call, Calls, WriteCalls, ReadCalls

\* CallInv survives a step that changes the items to others of their type and
\* ends the call of a goroutine or leaves it.
LEMMA CallInvItems ==
  ASSUME CallInv, NEW g \in Goroutines,
         \A k \in DOMAIN items' :
            items'[k].obj \in Objects /\ items'[k].expiration \in Int,
         call' = call \/ call' = [call EXCEPT ![g] = NoCall],
         evicted' \in [Goroutines -> SUBSET Objects],
         UNCHANGED now
  PROVE  CallInv'
<1>1. CASE call' = call
  BY <1>1 DEF CallInv, Doing
<1>2. CASE call' = [call EXCEPT ![g] = NoCall]
  BY <1>2, NoCallOk DEF CallInv, Doing, NoCall, Call, Calls
<1>3. QED
  BY <1>1, <1>2

\* The expiry of an item is an integer.
LEMMA ExpirationType ==
  ASSUME CallInv, NEW d \in Int
  PROVE  ExpirationAfter(d) \in Int
  BY CacheAssumption DEF CallInv, ExpirationAfter, DefaultLifetime, CacheAssumption

\* Storing an object under a key keeps the types of the items.
LEMMA StoreType ==
  ASSUME CallInv, NEW k, NEW o \in Objects, NEW e \in Int, Store(k, o, e)
  PROVE  \A j \in DOMAIN items' :
            items'[j].obj \in Objects /\ items'[j].expiration \in Int
  BY DEF CallInv, Store

\* So does removing keys.
LEMMA RemoveType ==
  ASSUME CallInv, NEW ks, Remove(ks)
  PROVE  \A j \in DOMAIN items' :
            items'[j].obj \in Objects /\ items'[j].expiration \in Int
  BY DEF CallInv, Remove

\* Reporting objects keeps the type of what is to be reported, and ends the call
\* or leaves it.
LEMMA ReportType ==
  ASSUME CallInv, NEW g \in Goroutines, NEW objs \in SUBSET Objects, Report(g, objs)
  PROVE  /\ evicted' \in [Goroutines -> SUBSET Objects]
         /\ call' = call \/ call' = [call EXCEPT ![g] = NoCall]
  BY DEF CallInv, Report, Return

\* CallInv under what a call does before the lock, and under the clock.
LEMMA CallInvBegin ==
  ASSUME CallInv, NEW g \in Users, BeginCall(g)
  PROVE  CallInv'
<1> g \in Goroutines
  BY DEF Goroutines
<1>0. evicted' = evicted /\ UNCHANGED <<now, items>>
  BY DEF BeginCall, BeginSet, BeginAdd, BeginReplace, BeginDelete,
         BeginDeleteExpired, BeginOnEvicted, BeginFlush, BeginGet,
         BeginGetWithExpiration, Begin
<1>1. evicted' \in [Goroutines -> SUBSET Objects]
  BY <1>0 DEF CallInv
<1>2. CASE BeginSet(g) \/ BeginAdd(g) \/ BeginReplace(g)
  <2>1. PICK op \in {"Set", "Add", "Replace"}, k \in Keys, o \in Objects, t \in Int :
           call' = [call EXCEPT ![g] = Call(op, k, o, t)]
    BY <1>2, ExpirationType, CacheAssumption
    DEF BeginSet, BeginAdd, BeginReplace, Begin, Unused, CacheAssumption
  <2>2. Call(op, k, o, t) \in Calls
    BY DEF Call, Calls, WriteCalls
  <2>3. Call(op, k, o, t).op = op /\ Call(op, k, o, t).obj = o
    BY DEF Call
  <2>4. QED
    BY <2>1, <2>2, <2>3, <1>0, <1>1, CallInvCall
<1>3. CASE \/ BeginDelete(g) \/ BeginDeleteExpired(g) \/ BeginOnEvicted(g)
           \/ BeginFlush(g) \/ BeginGet(g) \/ BeginGetWithExpiration(g)
  <2>1. PICK op \in (WriteCalls \cup ReadCalls) \ {"Set", "Add", "Replace"},
             k \in Keys \cup {NoKey}, t \in Int :
           /\ call' = [call EXCEPT ![g] = Call(op, k, NoObject, t)]
           /\ op = "DeleteExpired" => t = now
    BY <1>3
    DEF BeginDelete, BeginDeleteExpired, BeginOnEvicted, BeginFlush, BeginGet,
        BeginGetWithExpiration, Begin, WriteCalls, ReadCalls, CallInv
  <2>2. Call(op, k, NoObject, t) \in Calls
    BY DEF Call, Calls
  <2>3. Call(op, k, NoObject, t).op = op /\ Call(op, k, NoObject, t).time = t
    BY DEF Call
  <2>4. t = now => t =< now
    BY DEF CallInv
  <2>5. QED
    BY <2>1, <2>2, <2>3, <2>4, <1>0, <1>1, CallInvCall
<1>4. QED
  BY <1>2, <1>3 DEF BeginCall

\* CallInv under what a call does with the lock, and after it.
LEMMA CallInvProgress ==
  ASSUME CallInv, NEW g \in Goroutines, Progress(g)
  PROVE  CallInv'
<1>0. evicted \in [Goroutines -> SUBSET Objects]
  BY DEF CallInv
<1>1. CASE Announce(g) \/ RLock(g) \/ UnlockAfterRLock(g) \/ CallNil(g)
  <2>1. /\ UNCHANGED <<now, items, evicted>>
        /\ call' = call \/ call' = [call EXCEPT ![g] = NoCall]
    BY <1>1 DEF Announce, RLock, UnlockAfterRLock, CallNil, Return
  <2>2. QED
    BY <2>1, <1>0, CallInvItems DEF CallInv
<1>2. CASE ReadEnd(g)
  <2>1. /\ UNCHANGED <<now, items, evicted>>
        /\ call' = call \/ call' = [call EXCEPT ![g] = NoCall]
    BY <1>2 DEF ReadEnd, Return
  <2>2. QED
    BY <2>1, <1>0, CallInvItems DEF CallInv
<1>3. CASE RunCallback(g)
  <2> DEFINE c == Call("Callback", NoKey, NoObject, 0)
  <2>1. c \in Calls /\ c.op = "Callback"
    BY NoCallOk DEF Call
  <2>2. /\ UNCHANGED <<now, items>>
        /\ call' = [call EXCEPT ![g] = c]
        /\ evicted' \in [Goroutines -> SUBSET Objects]
    BY <1>3, <1>0 DEF RunCallback
  <2> HIDE DEF c
  <2>3. QED
    BY <2>1, <2>2, CallInvCall
<1>4. CASE WriteSet(g) \/ WriteAdd(g) \/ WriteReplace(g)
  <2>1. call[g].obj \in Objects /\ call[g].time \in Int
    BY <1>4 DEF WriteSet, WriteAdd, WriteReplace, CallInv, Doing
  <2>2. ExpirationAfter(call[g].time) \in Int
    BY <2>1, ExpirationType
  <2>3. \A k \in DOMAIN items' :
           items'[k].obj \in Objects /\ items'[k].expiration \in Int
    <3>1. CASE \E e \in Int : Store(call[g].key, call[g].obj, e)
      BY <3>1, <2>1, StoreType
    <3>2. CASE UNCHANGED items
      BY <3>2 DEF CallInv
    <3>3. QED
      BY <1>4, <2>1, <2>2, <3>1, <3>2 DEF WriteSet, WriteAdd, WriteReplace
  <2>4. UNCHANGED <<now, evicted>> /\ call' = [call EXCEPT ![g] = NoCall]
    BY <1>4 DEF WriteSet, WriteAdd, WriteReplace, Return, Unlock
  <2>5. QED
    BY <1>0, <2>3, <2>4, CallInvItems
<1>5. CASE WriteDelete(g) \/ WriteDeleteExpired(g)
  <2>1. PICK ks \in SUBSET DOMAIN items : Evict(g, ks)
    BY <1>5 DEF WriteDelete, WriteDeleteExpired
  <2>2. {items[k].obj : k \in ks} \in SUBSET Objects
    BY DEF CallInv
  <2>3. /\ evicted' \in [Goroutines -> SUBSET Objects]
        /\ call' = call \/ call' = [call EXCEPT ![g] = NoCall]
    <3>1. \E objs \in SUBSET Objects : Report(g, objs)
      BY <2>1, <2>2 DEF Evict
    <3>2. QED
      BY <3>1, ReportType
  <2>4. \A k \in DOMAIN items' :
           items'[k].obj \in Objects /\ items'[k].expiration \in Int
    BY <2>1, RemoveType DEF Evict
  <2>5. UNCHANGED now
    BY <1>5 DEF WriteDelete, WriteDeleteExpired, Unlock
  <2>6. QED
    BY <2>3, <2>4, <2>5, CallInvItems
<1>6. CASE WriteOnEvicted(g) \/ WriteFlush(g)
  <2>1. /\ UNCHANGED <<now, evicted>>
        /\ call' = [call EXCEPT ![g] = NoCall]
        /\ items' = items \/ items' = << >>
    BY <1>6 DEF WriteOnEvicted, WriteFlush, Return, Unlock
  <2>2. \A k \in DOMAIN items' :
           items'[k].obj \in Objects /\ items'[k].expiration \in Int
    BY <2>1 DEF CallInv
  <2>3. QED
    BY <1>0, <2>1, <2>2, CallInvItems
<1>7. QED
  BY <1>1, <1>2, <1>3, <1>4, <1>5, <1>6 DEF Progress, Write

\* Every step of the cache keeps CallInv.
LEMMA CallInvStep == CallInv /\ [Next]_vars => CallInv'
<1> SUFFICES ASSUME CallInv, [Next]_vars
             PROVE  CallInv'
  OBVIOUS
<1>1. CASE \E g \in Goroutines : Progress(g)
  BY <1>1, CallInvProgress
<1>2. CASE \E g \in Users : BeginCall(g)
  BY <1>2, CallInvBegin
<1>3. CASE JanitorTick
  <2> DEFINE c == Call("DeleteExpired", NoKey, NoObject, now)
  <2>1. c \in Calls /\ c.op = "DeleteExpired" /\ c.time = now
    BY DEF Call, Calls, WriteCalls, CallInv
  <2>2. now =< now
    BY DEF CallInv
  <2>3. Janitor \in Goroutines
    BY DEF Goroutines
  <2>4. /\ UNCHANGED <<now, items, evicted>>
        /\ call' = [call EXCEPT ![Janitor] = c]
    BY <1>3 DEF JanitorTick
  <2>5. evicted' \in [Goroutines -> SUBSET Objects]
    BY <2>4 DEF CallInv
  <2> HIDE DEF c
  <2>6. QED
    BY <2>1, <2>2, <2>3, <2>4, <2>5, CallInvCall
<1>4. CASE JanitorStop \/ Finalize \/ UNCHANGED vars
  BY <1>4 DEF JanitorStop, Finalize, vars, CallInv, Doing
<1>5. CASE Tick
  <2>1. now \in Int /\ now' = now + 1 /\ UNCHANGED <<items, call, evicted>>
    BY <1>5 DEF Tick, CallInv
  <2>2. \A g \in Goroutines : Doing(g, "DeleteExpired") => call[g].time \in Int
    BY DEF CallInv
  <2>3. QED
    BY <2>1, <2>2 DEF CallInv, Doing
<1>6. QED
  BY <1>1, <1>2, <1>3, <1>4, <1>5 DEF Next

-----------------------------------------------------------------------------
\* ObjectInv is about the items, the objects in hand and nothing else.  A step
\* that gives a goroutine a call with no object or an unused one keeps it.
LEMMA ObjectInvCall ==
  ASSUME CallInv, ObjectInv, NEW g \in Goroutines, NEW c,
         c.obj \in Unused \cup {NoObject},
         call' = [call EXCEPT ![g] = c],
         NEW done \in SUBSET Objects,
         evicted' = [evicted EXCEPT ![g] = @ \ done],
         UNCHANGED items
  PROVE  ObjectInv'
<1>0. call \in [Goroutines -> Calls] /\ evicted \in [Goroutines -> SUBSET Objects]
  BY DEF CallInv, Calls
<1>1. Stored' = Stored
  BY DEF Stored
<1>2. \A h \in Goroutines :
         /\ h # g => call'[h] = call[h] /\ evicted'[h] = evicted[h]
         /\ call'[g] = c /\ evicted'[g] \subseteq evicted[g]
  BY <1>0
<1>3. \A h \in Goroutines \ {g} : InHand(h)' = InHand(h)
  BY <1>2 DEF InHand
<1>4. InHand(g)' \subseteq evicted[g] \cup ({c.obj} \ {NoObject})
  BY <1>2 DEF InHand
<1>5. c.obj # NoObject =>
         /\ c.obj \notin Stored
         /\ \A h \in Goroutines : c.obj \notin evicted[h] /\ c.obj # call[h].obj
  BY DEF Unused
<1>6. NoObject \notin Objects
  BY CacheAssumption DEF CacheAssumption
<1>7. InHand(g)' \cap Stored' = {} /\ c.obj \notin evicted'[g]
  BY <1>0, <1>1, <1>2, <1>4, <1>5, <1>6 DEF ObjectInv, InHand
<1>8. \A h \in Goroutines \ {g} : InHand(g)' \cap InHand(h)' = {}
  BY <1>0, <1>3, <1>4, <1>5 DEF ObjectInv, InHand
<1>9. \A j, k \in DOMAIN items' : items'[j].obj = items'[k].obj => j = k
  BY DEF ObjectInv
<1>10. \A h \in Goroutines \ {g} :
          /\ InHand(h)' \cap Stored' = {}
          /\ call'[h].obj \notin evicted'[h]
          /\ \A i \in Goroutines \ {g, h} : InHand(h)' \cap InHand(i)' = {}
  BY <1>1, <1>2, <1>3 DEF ObjectInv
<1>11. QED
  BY <1>2, <1>7, <1>8, <1>9, <1>10 DEF ObjectInv

\* So does a step that ends the call of a goroutine, or leaves it, with fewer or no
\* items.
LEMMA ObjectInvFewer ==
  ASSUME CallInv, ObjectInv, NEW g \in Goroutines,
         call' = call \/ call' = [call EXCEPT ![g] = NoCall],
         evicted' = evicted,
         DOMAIN items' \subseteq DOMAIN items,
         \A k \in DOMAIN items' : items'[k] = items[k]
  PROVE  ObjectInv'
<1>0. call \in [Goroutines -> Calls]
  BY DEF CallInv, Calls
<1>1. Stored' \subseteq Stored
  BY DEF Stored
<1>2. NoCall.obj = NoObject
  BY DEF NoCall, Call
<1>3. \A h \in Goroutines : /\ call'[h] = call[h] \/ call'[h] = NoCall
                            /\ evicted'[h] = evicted[h]
  BY <1>0
<1>4. \A h \in Goroutines : InHand(h)' \subseteq InHand(h)
  BY <1>2, <1>3 DEF InHand
<1>5. NoObject \notin Objects /\ evicted \in [Goroutines -> SUBSET Objects]
  BY CacheAssumption DEF CacheAssumption, CallInv
<1>6. \A h \in Goroutines : call'[h].obj \notin evicted'[h]
  BY <1>2, <1>3, <1>5 DEF ObjectInv
<1>7. \A j, k \in DOMAIN items' : items'[j].obj = items'[k].obj => j = k
  BY DEF ObjectInv
<1>8. QED
  BY <1>1, <1>4, <1>6, <1>7 DEF ObjectInv

\* The object of a call goes from its hand into the cache.
LEMMA ObjectInvStore ==
  ASSUME CallInv, ObjectInv, NEW g \in Goroutines,
         call[g].obj \in Objects,
         NEW k, NEW e, Store(k, call[g].obj, e),
         call' = [call EXCEPT ![g] = NoCall],
         evicted' = evicted
  PROVE  ObjectInv'
<1> DEFINE o == call[g].obj
<1>0. call \in [Goroutines -> Calls]
  BY DEF CallInv, Calls
<1>1. o # NoObject /\ NoObject \notin Objects
  BY CacheAssumption DEF CacheAssumption
<1>2. NoCall.obj = NoObject
  BY DEF NoCall, Call
<1>3. o \in InHand(g) /\ InHand(g)' = evicted[g] /\ o \notin evicted[g]
  BY <1>0, <1>1, <1>2 DEF InHand, ObjectInv
<1>4. \A h \in Goroutines \ {g} :
         /\ InHand(h)' = InHand(h) /\ call'[h] = call[h] /\ o \notin InHand(h)
  BY <1>0, <1>3 DEF InHand, ObjectInv
<1>5. Stored' \subseteq Stored \cup {o} /\ o \notin Stored
  BY <1>3 DEF Stored, Store, ObjectInv
<1>6. \A i, j \in DOMAIN items' : items'[i].obj = items'[j].obj => i = j
  BY <1>5 DEF Stored, Store, ObjectInv
<1>7. \A h \in Goroutines : InHand(h)' \cap Stored' = {}
  BY <1>3, <1>4, <1>5 DEF InHand, ObjectInv
<1>8. call'[g].obj \notin evicted'[g]
  BY <1>0, <1>1, <1>2 DEF CallInv
<1>9. \A h \in Goroutines : InHand(h)' \subseteq InHand(h)
  BY <1>3, <1>4 DEF InHand
<1>10. QED
  BY <1>4, <1>6, <1>7, <1>8, <1>9 DEF ObjectInv

\* Evicted objects go from the cache into one hand, if they are to be reported.
LEMMA ObjectInvEvict ==
  ASSUME CallInv, ObjectInv, NEW g \in Goroutines,
         NEW ks \in SUBSET DOMAIN items, Evict(g, ks)
  PROVE  ObjectInv'
<1> DEFINE objs == {items[k].obj : k \in ks}
<1>0. /\ call \in [Goroutines -> Calls]
      /\ evicted \in [Goroutines -> SUBSET Objects]
      /\ NoObject \notin Objects
  BY CacheAssumption DEF CallInv, Calls, CacheAssumption
<1>1. Remove(ks)
  BY DEF Evict
<1>2. CASE evicted' = evicted
  <2>1. call' = call \/ call' = [call EXCEPT ![g] = NoCall]
    BY <1>2 DEF Evict, Report, Return
  <2>2. QED
    BY <1>1, <1>2, <2>1, ObjectInvFewer DEF Remove
<1>3. CASE evicted' # evicted
  <2>1. call' = call /\ evicted' = [evicted EXCEPT ![g] = objs]
    BY <1>3 DEF Evict, Report
  <2>2. objs \subseteq Stored /\ objs \cap Stored' = {} /\ Stored' \subseteq Stored
    BY <1>1 DEF Remove, Stored, ObjectInv
  <2>3. \A h \in Goroutines \ {g} : InHand(h)' = InHand(h)
    BY <1>0, <2>1 DEF InHand
  <2>4. InHand(g)' = objs \cup ({call[g].obj} \ {NoObject})
    BY <1>0, <2>1 DEF InHand
  <2>5. call[g].obj # NoObject => call[g].obj \in InHand(g)
    BY DEF InHand
  <2>6. call'[g].obj \notin evicted'[g]
    BY <1>0, <2>1, <2>2, <2>5 DEF ObjectInv, CallInv, Stored
  <2>7. \A h \in Goroutines : InHand(h)' \cap Stored' = {}
    BY <2>2, <2>3, <2>4, <2>5 DEF ObjectInv
  <2>8. \A h \in Goroutines \ {g} : InHand(g)' \cap InHand(h)' = {}
    BY <2>2, <2>3, <2>4, <2>5 DEF ObjectInv
  <2>9. \A h \in Goroutines \ {g} :
           /\ call'[h].obj \notin evicted'[h]
           /\ \A i \in Goroutines \ {g, h} : InHand(h)' \cap InHand(i)' = {}
    BY <1>0, <2>1, <2>3 DEF ObjectInv
  <2>10. \A i, j \in DOMAIN items' : items'[i].obj = items'[j].obj => i = j
    BY <1>1 DEF Remove, ObjectInv
  <2>11. QED
    BY <2>6, <2>7, <2>8, <2>9, <2>10 DEF ObjectInv
<1>4. QED
  BY <1>2, <1>3

\* A call that begins has an unused object in hand, or none.
LEMMA ObjectInvBegin ==
  ASSUME CallInv, ObjectInv, NEW g \in Users, BeginCall(g)
  PROVE  ObjectInv'
<1>1. g \in Goroutines
  BY DEF Goroutines
<1>2. PICK c : /\ c.obj \in Unused \cup {NoObject}
               /\ call' = [call EXCEPT ![g] = c]
               /\ UNCHANGED <<items, evicted>>
  BY DEF BeginCall, BeginSet, BeginAdd, BeginReplace, BeginDelete,
         BeginDeleteExpired, BeginOnEvicted, BeginFlush, BeginGet,
         BeginGetWithExpiration, Begin, Call
<1>3. evicted' = [evicted EXCEPT ![g] = @ \ {}]
  BY <1>2 DEF CallInv
<1>4. {} \in SUBSET Objects
  OBVIOUS
<1>5. items' = items
  BY <1>2
<1>6. QED
  BY <1>1, <1>2, <1>3, <1>4, <1>5, ObjectInvCall

\* ObjectInv under what a call does with the lock, and after it.
LEMMA ObjectInvProgress ==
  ASSUME CallInv, ObjectInv, NEW g \in Goroutines, Progress(g)
  PROVE  ObjectInv'
<1>1. CASE Announce(g) \/ RLock(g) \/ UnlockAfterRLock(g) \/ CallNil(g) \/ ReadEnd(g)
           \/ WriteOnEvicted(g) \/ WriteFlush(g)
  <2>1. /\ UNCHANGED evicted
        /\ call' = call \/ call' = [call EXCEPT ![g] = NoCall]
        /\ items' = items \/ items' = << >>
    BY <1>1 DEF Announce, RLock, UnlockAfterRLock, CallNil, ReadEnd,
                WriteOnEvicted, WriteFlush, Return
  <2>2. /\ DOMAIN items' \subseteq DOMAIN items
        /\ \A k \in DOMAIN items' : items'[k] = items[k]
    BY <2>1
  <2>3. QED
    BY <2>1, <2>2, ObjectInvFewer
<1>2. CASE RunCallback(g)
  <2>1. PICK o \in evicted[g] :
           /\ evicted' = [evicted EXCEPT ![g] = @ \ {o}]
           /\ call' = [call EXCEPT ![g] = Call("Callback", NoKey, NoObject, 0)]
           /\ UNCHANGED items
    BY <1>2 DEF RunCallback
  <2>2. {o} \in SUBSET Objects
    BY DEF CallInv
  <2>3. Call("Callback", NoKey, NoObject, 0).obj \in Unused \cup {NoObject}
    BY DEF Call
  <2>4. QED
    BY <2>1, <2>2, <2>3, ObjectInvCall
<1>3. CASE WriteSet(g) \/ WriteAdd(g) \/ WriteReplace(g)
  <2>1. call[g].obj \in Objects
    BY <1>3 DEF WriteSet, WriteAdd, WriteReplace, CallInv, Doing
  <2>2. call' = [call EXCEPT ![g] = NoCall] /\ evicted' = evicted
    BY <1>3 DEF WriteSet, WriteAdd, WriteReplace, Return
  <2>3. CASE UNCHANGED items
    BY <2>2, <2>3, ObjectInvFewer
  <2>4. CASE \E e : Store(call[g].key, call[g].obj, e)
    BY <2>1, <2>2, <2>4, ObjectInvStore
  <2>5. QED
    BY <1>3, <2>3, <2>4 DEF WriteSet, WriteAdd, WriteReplace
<1>4. CASE WriteDelete(g) \/ WriteDeleteExpired(g)
  <2>1. PICK ks \in SUBSET DOMAIN items : Evict(g, ks)
    BY <1>4 DEF WriteDelete, WriteDeleteExpired
  <2>2. QED
    BY <2>1, ObjectInvEvict
<1>5. QED
  BY <1>1, <1>2, <1>3, <1>4 DEF Progress, Write

\* Every step of the cache keeps ObjectInv.
LEMMA ObjectInvStep == CallInv /\ ObjectInv /\ [Next]_vars => ObjectInv'
<1> SUFFICES ASSUME CallInv, ObjectInv, [Next]_vars
             PROVE  ObjectInv'
  OBVIOUS
<1>1. CASE \E g \in Goroutines : Progress(g)
  BY <1>1, ObjectInvProgress
<1>2. CASE \E g \in Users : BeginCall(g)
  BY <1>2, ObjectInvBegin
<1>3. CASE JanitorTick
  <2>1. /\ call' = [call EXCEPT ![Janitor] = Call("DeleteExpired", NoKey, NoObject, now)]
        /\ evicted' = [evicted EXCEPT ![Janitor] = @ \ {}]
        /\ UNCHANGED items
    BY <1>3 DEF JanitorTick, CallInv
  <2>2. Call("DeleteExpired", NoKey, NoObject, now).obj \in Unused \cup {NoObject}
    BY DEF Call
  <2>3. {} \in SUBSET Objects /\ Janitor \in Goroutines
    BY DEF Goroutines
  <2>4. items' = items
    BY <2>1
  <2>5. QED
    BY <2>1, <2>2, <2>3, <2>4, ObjectInvCall
<1>4. CASE JanitorStop \/ Finalize \/ Tick \/ UNCHANGED vars
  <2>1. UNCHANGED <<items, call, evicted>>
    BY <1>4 DEF JanitorStop, Finalize, Tick, vars
  <2>2. QED
    BY <2>1 DEF ObjectInv, InHand, Stored
<1>5. QED
  BY <1>1, <1>2, <1>3, <1>4 DEF Next

-----------------------------------------------------------------------------
\* In every state the calls have what they work with, and each object is in one
\* place.
LEMMA CacheInvariant == Spec => [](CallInv /\ ObjectInv)
<1>1. Init => CallInv /\ ObjectInv
  BY CallInvInit, ObjectInvInit
<1>2. CallInv /\ ObjectInv /\ [Next]_vars => (CallInv /\ ObjectInv)'
  BY CallInvStep, ObjectInvStep
<1>3. QED
  BY <1>1, <1>2, PTL DEF Spec

\* An object that Delete or DeleteExpired removed is no longer in the cache and is
\* reported by one goroutine only, whoever else removes the same key.
THEOREM EvictionReportedOnce == Spec => []EvictedOnce
<1>1. ObjectInv => EvictedOnce
  BY DEF ObjectInv, EvictedOnce, InHand
<1>2. QED
  BY <1>1, CacheInvariant, PTL

\* DeleteExpired, which looked at the clock before it had the lock, removes only
\* items that Get no longer returns.
THEOREM ExpiredOnly == Spec => OnlyExpiredRemoved
<1> DEFINE Step == \A g \in Goroutines, k \in DOMAIN items :
                      WriteDeleteExpired(g) /\ k \notin DOMAIN items' => ~Found(k)
<1>1. CallInv => Step
  <2> SUFFICES ASSUME CallInv, NEW g \in Goroutines, NEW k \in DOMAIN items,
                      WriteDeleteExpired(g), k \notin DOMAIN items'
               PROVE  ~Found(k)
    OBVIOUS
  <2>1. ExpiredAt(items[k], call[g].time)
    BY DEF WriteDeleteExpired, Evict, Remove
  <2>2. call[g].time =< now /\ call[g].time \in Int
    BY DEF WriteDeleteExpired, CallInv
  <2>3. QED
    BY <2>1, <2>2 DEF ExpiredAt, Found, CallInv
<1>2. QED
  BY <1>1, CacheInvariant, PTL DEF OnlyExpiredRemoved

-----------------------------------------------------------------------------
\* The longest duration is a number, and no duration is longer.
LEMMA LongestProperties ==
    /\ Longest \in Nat
    /\ \A d \in Lifetimes \cup {DefaultExpiration, 0} : d =< Longest
<1>1. PICK d \in Lifetimes \cup {DefaultExpiration, 0} :
         \A e \in Lifetimes \cup {DefaultExpiration, 0} : e =< d
  BY CacheAssumption
<1>2. /\ Longest \in Lifetimes \cup {DefaultExpiration, 0}
      /\ \A e \in Lifetimes \cup {DefaultExpiration, 0} : e =< Longest
  BY <1>1 DEF Longest
<1>3. Longest \in Int /\ 0 =< Longest
  BY <1>2, CacheAssumption
<1>. QED
  BY <1>2, <1>3

\* An item that is set now expires within the longest duration from the end of the
\* clock, or never.
LEMMA ExpirationRange ==
    ASSUME now \in 0..LastTick, NEW d \in Lifetimes
    PROVE  ExpirationAfter(d) \in Expirations
<1>1. PICK life \in Int : life = IF d = 0 THEN DefaultLifetime ELSE d
  BY CacheAssumption DEF DefaultLifetime
<1>2. life =< Longest
  BY <1>1, LongestProperties, CacheAssumption DEF DefaultLifetime
<1>3. ExpirationAfter(d) = IF life > 0 THEN now + life ELSE 0
  BY <1>1 DEF ExpirationAfter
<1>. QED
  BY <1>1, <1>2, <1>3, LongestProperties, CacheAssumption DEF Expirations

\* ExpiryInv survives a step that gives one goroutine a call with what it needs, and
\* leaves the items and the clock.
LEMMA ExpiryInvCall ==
    ASSUME CallInv, ExpiryInv, NEW g \in Goroutines, NEW c,
           c.op \in {"Set", "Add", "Replace"} => c.key \in Keys,
           c.op = "Set" => c.time \in Expirations,
           c.op \in {"Add", "Replace"} => c.time \in Lifetimes,
           call' = [call EXCEPT ![g] = c], UNCHANGED <<now, items>>
    PROVE  ExpiryInv'
BY DEF CallInv, ExpiryInv, Doing

\* And a step that changes the items to others of their type and ends a call or leaves it.
LEMMA ExpiryInvItems ==
    ASSUME CallInv, ExpiryInv, NEW g \in Goroutines,
           DOMAIN items' \subseteq Keys, \A k \in DOMAIN items' : items'[k] \in Items,
           call' = call \/ call' = [call EXCEPT ![g] = NoCall], UNCHANGED now
    PROVE  ExpiryInv'
<1>1. NoCall.op = "none"
  BY DEF NoCall, Call
<1>2. ASSUME NEW h \in Goroutines
      PROVE  call'[h] = call[h] \/ call'[h].op = "none"
  BY <1>1 DEF CallInv
<1>. QED
  BY <1>2 DEF ExpiryInv, Doing

\* Storing an object under a key, and removing keys, keep the items what they are.
LEMMA StoreItems ==
    ASSUME ExpiryInv, NEW k \in Keys, NEW o \in Objects, NEW e \in Expirations,
           Store(k, o, e)
    PROVE  DOMAIN items' \subseteq Keys /\ \A j \in DOMAIN items' : items'[j] \in Items
BY DEF ExpiryInv, Store, Items

LEMMA RemoveItems ==
    ASSUME ExpiryInv, NEW ks, Remove(ks)
    PROVE  DOMAIN items' \subseteq Keys /\ \A j \in DOMAIN items' : items'[j] \in Items
BY DEF ExpiryInv, Remove

\* A call begins with a key of the cache and a duration or an expiry it may have.
LEMMA ExpiryInvBegin ==
    ASSUME CallInv, ExpiryInv, NEW g \in Users, BeginCall(g)
    PROVE  ExpiryInv'
<1>1. g \in Goroutines /\ UNCHANGED <<now, items>>
  BY DEF Goroutines, BeginCall, BeginSet, BeginAdd, BeginReplace, BeginDelete,
         BeginDeleteExpired, BeginOnEvicted, BeginFlush, BeginGet,
         BeginGetWithExpiration, Begin
<1>2. CASE BeginSet(g)
  <2>1. PICK k \in Keys, o \in Unused, d \in Lifetimes :
           Begin(g, "lock", "Set", k, o, ExpirationAfter(d))
    BY <1>2 DEF BeginSet
  <2>. DEFINE c == Call("Set", k, o, ExpirationAfter(d))
  <2>2. ExpirationAfter(d) \in Expirations
    BY ExpirationRange DEF ExpiryInv
  <2>3. c.op = "Set" /\ c.key \in Keys /\ c.time \in Expirations
    BY <2>2 DEF Call
  <2>4. call' = [call EXCEPT ![g] = c]
    BY <2>1 DEF Begin
  <2>. HIDE DEF c
  <2>. QED
    BY <1>1, <2>3, <2>4, ExpiryInvCall
<1>3. CASE BeginAdd(g) \/ BeginReplace(g)
  <2>1. PICK op \in {"Add", "Replace"}, k \in Keys, o \in Unused, d \in Lifetimes :
           Begin(g, "lock", op, k, o, d)
    BY <1>3 DEF BeginAdd, BeginReplace
  <2>. DEFINE c == Call(op, k, o, d)
  <2>2. c.op \in {"Add", "Replace"} /\ c.key \in Keys /\ c.time \in Lifetimes
    BY DEF Call
  <2>3. call' = [call EXCEPT ![g] = c]
    BY <2>1 DEF Begin
  <2>. HIDE DEF c
  <2>. QED
    BY <1>1, <2>2, <2>3, ExpiryInvCall
<1>4. CASE \/ BeginDelete(g) \/ BeginDeleteExpired(g) \/ BeginOnEvicted(g)
           \/ BeginFlush(g) \/ BeginGet(g) \/ BeginGetWithExpiration(g)
  <2>1. PICK op \in (WriteCalls \cup ReadCalls) \ {"Set", "Add", "Replace"},
             k \in Keys \cup {NoKey}, t \in Int :
           call' = [call EXCEPT ![g] = Call(op, k, NoObject, t)]
    <3>1. CASE BeginDeleteExpired(g)
      BY <3>1 DEF BeginDeleteExpired, Begin, WriteCalls, CallInv
    <3>2. CASE BeginDelete(g) \/ BeginGetWithExpiration(g)
      BY <3>2 DEF BeginDelete, BeginGetWithExpiration, Begin, WriteCalls, ReadCalls
    <3>3. CASE BeginOnEvicted(g) \/ BeginFlush(g) \/ BeginGet(g)
      BY <3>3 DEF BeginOnEvicted, BeginFlush, BeginGet, Begin, WriteCalls, ReadCalls
    <3>. QED
      BY <1>4, <3>1, <3>2, <3>3
  <2>. DEFINE c == Call(op, k, NoObject, t)
  <2>2. c.op \notin {"Set", "Add", "Replace"}
    BY DEF Call
  <2>. HIDE DEF c
  <2>3. call' = [call EXCEPT ![g] = c]
    BY <2>1 DEF c
  <2>. QED
    BY <1>1, <2>2, <2>3, ExpiryInvCall
<1>. QED
  BY <1>2, <1>3, <1>4 DEF BeginCall

\* A call in progress stores what it has in hand, or removes keys.
LEMMA ExpiryInvProgress ==
    ASSUME CallInv, ExpiryInv, NEW g \in Goroutines, Progress(g)
    PROVE  ExpiryInv'
<1>1. CASE Announce(g) \/ RLock(g) \/ UnlockAfterRLock(g) \/ CallNil(g) \/ ReadEnd(g)
  <2>1. /\ UNCHANGED <<now, items>>
        /\ call' = call \/ call' = [call EXCEPT ![g] = NoCall]
    BY <1>1 DEF Announce, RLock, UnlockAfterRLock, CallNil, ReadEnd, Return
  <2>. QED
    BY <2>1, ExpiryInvItems DEF ExpiryInv
<1>2. CASE RunCallback(g)
  <2>. DEFINE c == Call("Callback", NoKey, NoObject, 0)
  <2>1. c.op = "Callback"
    BY DEF Call
  <2>2. UNCHANGED <<now, items>> /\ call' = [call EXCEPT ![g] = c]
    BY <1>2 DEF RunCallback
  <2>. HIDE DEF c
  <2>. QED
    BY <2>1, <2>2, ExpiryInvCall
<1>3. CASE WriteSet(g) \/ WriteAdd(g) \/ WriteReplace(g)
  <2>1. call[g].obj \in Objects /\ call[g].key \in Keys
    BY <1>3 DEF WriteSet, WriteAdd, WriteReplace, CallInv, ExpiryInv, Doing
  <2>2. \/ UNCHANGED items
        \/ \E e \in Expirations : Store(call[g].key, call[g].obj, e)
    <3>1. CASE WriteSet(g)
      BY <3>1 DEF WriteSet, ExpiryInv
    <3>2. CASE WriteAdd(g) \/ WriteReplace(g)
      <4>1. ExpirationAfter(call[g].time) \in Expirations
        BY <3>2, ExpirationRange DEF WriteAdd, WriteReplace, ExpiryInv, Doing
      <4>. QED
        BY <3>2, <4>1 DEF WriteAdd, WriteReplace
    <3>. QED
      BY <1>3, <3>1, <3>2
  <2>3. DOMAIN items' \subseteq Keys /\ \A k \in DOMAIN items' : items'[k] \in Items
    BY <2>1, <2>2, StoreItems DEF ExpiryInv
  <2>4. UNCHANGED now /\ call' = [call EXCEPT ![g] = NoCall]
    BY <1>3 DEF WriteSet, WriteAdd, WriteReplace, Return, Unlock
  <2>. QED
    BY <2>3, <2>4, ExpiryInvItems
<1>4. CASE WriteDelete(g) \/ WriteDeleteExpired(g)
  <2>1. PICK ks : Evict(g, ks)
    BY <1>4 DEF WriteDelete, WriteDeleteExpired
  <2>2. call' = call \/ call' = [call EXCEPT ![g] = NoCall]
    BY <2>1 DEF Evict, Report, Return
  <2>3. DOMAIN items' \subseteq Keys /\ \A k \in DOMAIN items' : items'[k] \in Items
    BY <2>1, RemoveItems DEF Evict
  <2>4. UNCHANGED now
    BY <1>4 DEF WriteDelete, WriteDeleteExpired, Unlock
  <2>. QED
    BY <2>2, <2>3, <2>4, ExpiryInvItems
<1>5. CASE WriteOnEvicted(g) \/ WriteFlush(g)
  <2>1. /\ UNCHANGED now
        /\ call' = [call EXCEPT ![g] = NoCall]
        /\ items' = items \/ items' = << >>
    BY <1>5 DEF WriteOnEvicted, WriteFlush, Return, Unlock
  <2>2. DOMAIN items' \subseteq Keys /\ \A k \in DOMAIN items' : items'[k] \in Items
    BY <2>1 DEF ExpiryInv
  <2>. QED
    BY <2>1, <2>2, ExpiryInvItems
<1>. QED
  BY <1>1, <1>2, <1>3, <1>4, <1>5 DEF Progress, Write

LEMMA ExpiryInvStep == CallInv /\ ExpiryInv /\ [Next]_vars => ExpiryInv'
<1>. SUFFICES ASSUME CallInv, ExpiryInv, [Next]_vars
              PROVE  ExpiryInv'
  OBVIOUS
<1>1. CASE \E g \in Goroutines : Progress(g)
  BY <1>1, ExpiryInvProgress
<1>2. CASE \E g \in Users : BeginCall(g)
  BY <1>2, ExpiryInvBegin
<1>3. CASE JanitorTick
  <2>. DEFINE c == Call("DeleteExpired", NoKey, NoObject, now)
  <2>1. c.op = "DeleteExpired" /\ Janitor \in Goroutines
    BY DEF Call, Goroutines
  <2>2. UNCHANGED <<now, items>> /\ call' = [call EXCEPT ![Janitor] = c]
    BY <1>3 DEF JanitorTick
  <2>. HIDE DEF c
  <2>. QED
    BY <2>1, <2>2, ExpiryInvCall
<1>4. CASE JanitorStop \/ Finalize \/ UNCHANGED vars
  BY <1>4 DEF JanitorStop, Finalize, vars, ExpiryInv, Doing
<1>5. CASE Tick
  BY <1>5, CacheAssumption DEF Tick, ExpiryInv, Doing
<1>. QED
  BY <1>1, <1>2, <1>3, <1>4, <1>5 DEF Next

-----------------------------------------------------------------------------
\* How many goroutines wait for the write lock when one of them moves.
LEMMA WaitingGoto ==
    ASSUME LockInv, NEW g \in Goroutines, NEW l \in Locations, Goto(g, l)
    PROVE  /\ at' \in [Goroutines -> Locations]
           /\ Cardinality(WaitingWriters) \in Nat
           /\ l = "wait" /\ at[g] # "wait" =>
                 /\ WaitingWriters' = WaitingWriters \cup {g}
                 /\ Cardinality(WaitingWriters') = Cardinality(WaitingWriters) + 1
           /\ l # "wait" /\ at[g] = "wait" =>
                 /\ WaitingWriters' = WaitingWriters \ {g}
                 /\ Cardinality(WaitingWriters') = Cardinality(WaitingWriters) - 1
           /\ l # "wait" /\ at[g] # "wait" => WaitingWriters' = WaitingWriters
<1>1. IsFiniteSet(Goroutines)
  BY CacheAssumption, FS_AddElement DEF Goroutines
<1>2. IsFiniteSet(WaitingWriters) /\ Cardinality(WaitingWriters) \in Nat
  BY <1>1, FS_Subset, FS_CardinalityType DEF WaitingWriters
<1>3. at \in [Goroutines -> Locations] /\ at' = [at EXCEPT ![g] = l]
  BY DEF LockInv, Goto
<1>4. CASE l = "wait" /\ at[g] # "wait"
  <2>1. WaitingWriters' = WaitingWriters \cup {g} /\ g \notin WaitingWriters
    BY <1>3, <1>4 DEF WaitingWriters
  <2>. QED
    BY <1>2, <1>3, <1>4, <2>1, FS_AddElement
<1>5. CASE l # "wait" /\ at[g] = "wait"
  <2>1. WaitingWriters' = WaitingWriters \ {g} /\ g \in WaitingWriters
    BY <1>3, <1>5 DEF WaitingWriters
  <2>. QED
    BY <1>2, <1>3, <1>5, <2>1, FS_RemoveElement
<1>6. CASE l # "wait" /\ at[g] # "wait"
  BY <1>2, <1>3, <1>6 DEF WaitingWriters
<1>7. CASE l = "wait" /\ at[g] = "wait"
  BY <1>2, <1>3, <1>7
<1>. QED
  BY <1>4, <1>5, <1>6, <1>7

\* A goroutine that neither comes to wait for the write lock nor ceases to, and the locks
\* as they are.
LEMMA LockInvMove ==
    ASSUME LockInv, NEW g \in Goroutines, NEW l \in Locations \ {"wait"}, Goto(g, l),
           at[g] # "wait", readers' \subseteq Goroutines, UNCHANGED <<writer, leaked>>
    PROVE  LockInv'
BY WaitingGoto DEF LockInv

\* A write call ends: it had the lock, and no read lock was left over.
LEMMA LockInvWrite ==
    ASSUME LockInv, NEW g \in Goroutines, Locked(g), Unlock(g),
           NEW l \in Locations \ {"wait"}, Goto(g, l)
    PROVE  LockInv'
<1>1. /\ at[g] = "wait" /\ writer = g /\ leaked = 0
      /\ writer' = Nobody /\ UNCHANGED <<readers, leaked>>
  BY DEF Locked, Unlock
<1>2. g # Nobody
  BY CacheAssumption DEF Goroutines
<1>. QED
  BY <1>1, <1>2, WaitingGoto DEF LockInv

\* Where a goroutine goes when its call ends.
LEMMA ReturnGoto ==
    ASSUME NEW g, Return(g)
    PROVE  \E l \in Locations \ {"wait"} : Goto(g, l)
BY DEF Return, Locations

LEMMA LockInvProgress ==
    ASSUME LockInv, NEW g \in Goroutines, Progress(g)
    PROVE  LockInv'
<1>a. g # Nobody
  BY CacheAssumption DEF Goroutines
<1>1. CASE Announce(g)
  <2>1. /\ at[g] = "lock" /\ writer = Nobody /\ writer' = g /\ Goto(g, "wait")
        /\ UNCHANGED <<readers, leaked>> /\ "wait" \in Locations
    BY <1>1 DEF Announce, Locations
  <2>. QED
    BY <1>a, <2>1, WaitingGoto DEF LockInv
<1>2. CASE RLock(g)
  <2>1. /\ at[g] = "rlock" /\ readers' = readers \cup {g} /\ Goto(g, "read")
        /\ UNCHANGED <<writer, leaked>> /\ "read" \in Locations
    BY <1>2 DEF RLock, Locations
  <2>. QED
    BY <2>1, LockInvMove DEF LockInv
<1>3. CASE Write(g)
  <2>1. /\ Locked(g) /\ Unlock(g)
        /\ Return(g) \/ Goto(g, "report")
    BY <1>3 DEF Write, WriteSet, WriteAdd, WriteReplace, WriteDelete,
                WriteDeleteExpired, WriteOnEvicted, WriteFlush, Evict, Report
  <2>2. \E l \in Locations \ {"wait"} : Goto(g, l)
    BY <2>1, ReturnGoto DEF Locations
  <2>. QED
    BY <2>1, <2>2, LockInvWrite
<1>4. CASE ReadEnd(g)
  <2>1. /\ at[g] = "read" /\ readers' = readers \ {g} /\ UNCHANGED <<writer, leaked>>
        /\ Return(g) \/ Goto(g, "report")
    BY <1>4 DEF ReadEnd
  <2>2. \E l \in Locations \ {"wait"} : Goto(g, l)
    BY <2>1, ReturnGoto DEF Locations
  <2>. QED
    BY <2>1, <2>2, LockInvMove DEF LockInv
<1>5. CASE UnlockAfterRLock(g)
  <2>1. CASE writer = Nobody
    BY <1>5, <2>1 DEF UnlockAfterRLock, lock, LockInv, WaitingWriters
  <2>2. CASE writer # Nobody
    <3>1. /\ at[g] = "read" /\ writer' = Nobody /\ readers' = readers \ {g}
          /\ leaked' = leaked + 1 /\ Return(g)
      BY <1>5, <2>2 DEF UnlockAfterRLock
    <3>2. PICK l \in Locations \ {"wait"} : Goto(g, l)
      BY <3>1, ReturnGoto
    <3>. QED
      BY <2>2, <3>1, <3>2, WaitingGoto DEF LockInv
  <2>. QED
    BY <2>1, <2>2
<1>6. CASE RunCallback(g)
  <2>1. /\ at[g] = "report" /\ Goto(g, "rlock") /\ UNCHANGED <<writer, readers, leaked>>
        /\ "rlock" \in Locations
    BY <1>6 DEF RunCallback, lock, Locations
  <2>. QED
    BY <2>1, LockInvMove DEF LockInv
<1>7. CASE CallNil(g)
  BY <1>7 DEF CallNil, lock, LockInv, WaitingWriters
<1>. QED
  BY <1>1, <1>2, <1>3, <1>4, <1>5, <1>6, <1>7 DEF Progress

\* Every step keeps the count of the writers that wait.
LEMMA LockInvStep == LockInv /\ [Next]_vars => LockInv'
<1>. SUFFICES ASSUME LockInv, [Next]_vars
              PROVE  LockInv'
  OBVIOUS
<1>1. CASE \E g \in Goroutines : Progress(g)
  BY <1>1, LockInvProgress
<1>2. CASE \E g \in Users : BeginCall(g)
  <2>1. PICK g \in Users : BeginCall(g)
    BY <1>2
  <2>2. /\ at[g] = "out" /\ UNCHANGED <<writer, readers, leaked>>
        /\ Goto(g, "lock") \/ Goto(g, "rlock")
    BY <2>1 DEF lock, BeginCall, BeginSet, BeginAdd, BeginReplace, BeginDelete,
                BeginDeleteExpired, BeginOnEvicted, BeginFlush, BeginGet,
                BeginGetWithExpiration, Begin
  <2>3. g \in Goroutines /\ {"lock", "rlock"} \subseteq Locations \ {"wait"}
    BY DEF Goroutines, Locations
  <2>. QED
    BY <2>2, <2>3, LockInvMove DEF LockInv
<1>3. CASE JanitorTick \/ JanitorStop
  <2>1. /\ at[Janitor] = "select" /\ UNCHANGED <<writer, readers, leaked>>
        /\ Goto(Janitor, "lock") \/ Goto(Janitor, "ended")
    BY <1>3 DEF JanitorTick, JanitorStop, lock
  <2>2. Janitor \in Goroutines /\ {"lock", "ended"} \subseteq Locations \ {"wait"}
    BY DEF Goroutines, Locations
  <2>. QED
    BY <2>1, <2>2, LockInvMove DEF LockInv
<1>4. CASE Finalize \/ Tick \/ UNCHANGED vars
  BY <1>4 DEF Finalize, Tick, vars, lock, LockInv, WaitingWriters
<1>. QED
  BY <1>1, <1>2, <1>3, <1>4 DEF Next

LEMMA FlagInvStep == FlagInv /\ [Next]_vars => FlagInv'
<1>. SUFFICES ASSUME FlagInv, [Next]_vars
              PROVE  FlagInv'
  OBVIOUS
<1>1. ASSUME NEW g \in Goroutines, Progress(g)
      PROVE  FlagInv'
  BY <1>1 DEF FlagInv, Progress, Announce, RLock, Write, WriteSet, WriteAdd,
     WriteReplace, WriteDelete, WriteDeleteExpired, WriteOnEvicted, WriteFlush, Unlock,
     ReadEnd, UnlockAfterRLock, RunCallback, CallNil
<1>2. ASSUME NEW g \in Users, BeginCall(g)
      PROVE  FlagInv'
  BY <1>2 DEF FlagInv, BeginCall, BeginSet, BeginAdd, BeginReplace, BeginDelete,
     BeginDeleteExpired, BeginOnEvicted, BeginFlush, BeginGet, BeginGetWithExpiration,
     Begin
<1>3. CASE JanitorTick \/ JanitorStop \/ Finalize \/ Tick \/ UNCHANGED vars
  BY <1>3 DEF FlagInv, JanitorTick, JanitorStop, Finalize, Tick, vars
<1>. QED
  BY <1>1, <1>2, <1>3 DEF Next

\* A new cache is empty and nobody waits.
LEMMA TypesInit == Init => ExpiryInv /\ LockInv /\ FlagInv
<1>. SUFFICES ASSUME Init
              PROVE  ExpiryInv /\ LockInv /\ FlagInv
  OBVIOUS
<1>1. ExpiryInv
  BY CacheAssumption DEF Init, ExpiryInv, NoCall, Call, Doing
<1>2. LockInv
  <2>1. WaitingWriters = {}
    BY DEF Init, WaitingWriters
  <2>. QED
    BY <2>1, FS_EmptySet DEF Init, LockInv, Locations
<1>3. FlagInv
  BY DEF Init, FlagInv
<1>. QED
  BY <1>1, <1>2, <1>3

\* Every variable keeps its type.  Two parts of that are not obvious: an item never
\* expires before the clock begins or later than the longest duration after it ends,
\* however Set, Add and Replace computed the expiry; and no more read locks are left for
\* ever than there are goroutines that wait for them.
THEOREM TypeCorrect == Spec => []TypeOK
<1>1. Init => CallInv /\ ExpiryInv /\ LockInv /\ FlagInv
  BY CallInvInit, TypesInit
<1>2. CallInv /\ ExpiryInv /\ LockInv /\ FlagInv /\ [Next]_vars
         => (CallInv /\ ExpiryInv /\ LockInv /\ FlagInv)'
  BY CallInvStep, ExpiryInvStep, LockInvStep, FlagInvStep
<1>3. CallInv /\ ExpiryInv /\ LockInv /\ FlagInv => TypeOK
  <2>. SUFFICES ASSUME CallInv, ExpiryInv, LockInv, FlagInv
                PROVE  TypeOK
    OBVIOUS
  <2>1. leaked \in 0..Cardinality(Goroutines)
    <3>1. IsFiniteSet(Goroutines) /\ WaitingWriters \subseteq Goroutines
      BY CacheAssumption, FS_AddElement DEF Goroutines, WaitingWriters
    <3>2. /\ Cardinality(Goroutines) \in Nat /\ Cardinality(WaitingWriters) \in Nat
          /\ Cardinality(WaitingWriters) =< Cardinality(Goroutines)
      BY <3>1, FS_Subset, FS_CardinalityType
    <3>. QED
      BY <3>2 DEF LockInv
  <2>2. writer \in Goroutines \cup {Nobody}
    BY DEF LockInv, WaitingWriters
  <2>. QED
    BY <2>1, <2>2 DEF CallInv, ExpiryInv, LockInv, FlagInv, TypeOK
<1>. QED
  BY <1>1, <1>2, <1>3, PTL DEF Spec
=============================================================================
