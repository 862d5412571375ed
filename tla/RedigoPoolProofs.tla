-------------------------- MODULE RedigoPoolProofs --------------------------
(***************************************************************************)
(* Proofs about the redigo pool, for any number of goroutines and sockets  *)
(* and any setting of the pool.  The invariants are those RedigoPool       *)
(* states; what makes them inductive is ConnInv (which goroutines have a   *)
(* connection), ChannelInv (what p.ch, p.mu and the closed flag are at     *)
(* each place of the code) and SocketInv (where the open sockets are).     *)
(* Each step lemma has one step per action.                                *)
(***************************************************************************)
EXTENDS RedigoPool, FiniteSetTheorems, SequenceTheorems, TLAPS

\* What Front and Last return on a sequence that is not empty: the back of the idle
\* list, which is pruned and evicted.
LEMMA FrontLast ==
    ASSUME NEW S, NEW s \in Seq(S), s # <<>>
    PROVE  /\ Front(s) \in Seq(S)
           /\ Len(Front(s)) = Len(s) - 1
           /\ Last(s) \in S
           /\ \A i \in 1..Len(s) - 1 : Front(s)[i] = s[i]
<1>1. Len(s) \in Nat \ {0} /\ \A i \in 1..Len(s) : s[i] \in S
  BY EmptySeq, LenProperties
<1>2. PICK n \in Int : n = Len(s) - 1
  BY <1>1
<1>3. \A i \in 1..n : s[i] \in S
  BY <1>1, <1>2
<1>4. 1 \in Int /\ n \in Int
  OBVIOUS
<1>5. SubSeq(s, 1, n) \in Seq(S)
  BY <1>3, <1>4, SubSeqProperties
<1>6. Len(SubSeq(s, 1, n)) = IF 1 <= n THEN n - 1 + 1 ELSE 0
  BY <1>3, <1>4, SubSeqProperties
<1>7. \A i \in 1..n - 1 + 1 : SubSeq(s, 1, n)[i] = s[1 + i - 1]
  BY <1>3, <1>4, SubSeqProperties
<1>a. n - 1 + 1 = n /\ \A i \in 1..n : 1 + i - 1 = i
  BY <1>4
<1>b. \A i \in 1..n : SubSeq(s, 1, n)[i] = s[i]
  BY <1>7, <1>a, Zenon
<1>8. Last(s) \in S
  BY <1>1 DEF Last
<1>9. Front(s) = SubSeq(s, 1, n)
  BY <1>2 DEF Front
<1>. QED
  BY <1>1, <1>2, <1>5, <1>6, <1>b, <1>8, <1>9

\* An age stays within its cap.
LEMMA OlderType ==
    ASSUME NEW cap \in Nat, NEW n \in 0..cap
    PROVE  Older(n, cap) \in 0..cap
BY DEF Older

\* The cap on the time at rest is a number.
LEMMA IdleCapType == IdleCap \in Nat
BY PoolAssumption DEF IdleCap

-----------------------------------------------------------------------------
\* Taking the back of the idle list keeps the types.
LEMMA PruneBackType ==
    ASSUME TypeOK, NEW g \in Threads, NEW n \in Nat, PruneBack(g, n)
    PROVE  /\ idle' \in Seq(Conns)
           /\ conn' \in [Threads -> Conns \cup {NoConn}]
           /\ budget' \in [Threads -> Nat]
           /\ at' \in [Threads -> Locations]
<1>1. idle # <<>> /\ n > 0
  BY DEF PruneBack, MayPrune
<1>2. Front(idle) \in Seq(Conns) /\ Last(idle) \in Conns
  BY <1>1, FrontLast DEF TypeOK
<1>. QED
  BY <1>1, <1>2 DEF TypeOK, PruneBack, Hold, Goto, Locations

\* So does the end of get: a connection taken, an error, or a dial.
LEMMA TakeOrDialType ==
    ASSUME TypeOK, NEW g \in Threads, NEW act \in Int, TakeOrDial(g, act)
    PROVE  /\ idle' \in Seq(Conns)
           /\ conn' \in [Threads -> Conns \cup {NoConn}]
           /\ budget' \in [Threads -> Nat]
           /\ at' \in [Threads -> Locations]
           /\ active' \in Int
<1>1. budget' \in [Threads -> Nat]
  BY DEF TypeOK, TakeOrDial
<1>2. CASE TakeFront(g, act)
  <2>1. Head(idle) \in Conns /\ Tail(idle) \in Seq(Conns)
    BY <1>2, HeadTailProperties DEF TypeOK, TakeFront
  <2>. QED
    BY <1>1, <1>2, <2>1 DEF TypeOK, TakeFront, Hold, Goto, Locations
<1>3. CASE Refuse(g, act)
  BY <1>1, <1>3 DEF TypeOK, Refuse, Goto, Locations
<1>4. CASE Reserve(g, act)
  BY <1>1, <1>4 DEF TypeOK, Reserve, Goto, Locations
<1>. QED
  BY <1>2, <1>3, <1>4 DEF TakeOrDial

\* So does get as a whole, from the prune loop on.
LEMMA PruneOrTakeType ==
    ASSUME TypeOK, NEW g \in Threads, NEW act \in Int, NEW n \in Nat,
           PruneOrTake(g, act, n)
    PROVE  /\ idle' \in Seq(Conns)
           /\ conn' \in [Threads -> Conns \cup {NoConn}]
           /\ budget' \in [Threads -> Nat]
           /\ at' \in [Threads -> Locations]
           /\ active' \in Int
BY PruneBackType, TakeOrDialType DEF PruneOrTake

\* So does the close of a socket.
LEMMA CloseSocketType ==
    ASSUME TypeOK, NEW g \in Threads, CloseSocket(g)
    PROVE  /\ open' \in SUBSET Conns
           /\ conn' \in [Threads -> Conns \cup {NoConn}]
           /\ idleFor' \in [Conns -> 0..IdleCap]
           /\ age' \in [Conns -> 0..MaxConnLifetime]
<1>1. 0 \in 0..IdleCap /\ 0 \in 0..MaxConnLifetime
  BY IdleCapType, PoolAssumption
<1>. QED
  BY <1>1 DEF TypeOK, CloseSocket, Hold

\* So does giving back the value of p.ch.
LEMMA ReleaseType ==
    ASSUME TypeOK, NEW g \in Threads, Release(g)
    PROVE  /\ at' \in [Threads -> Locations]
           /\ mu' \in Threads \cup {NoThread}
BY DEF TypeOK, Release, Goto, Locations

\* So does put when it stores a connection.
LEMMA PutIdleType ==
    ASSUME TypeOK, NEW g \in Threads, conn[g] \in Conns, NEW force,
           PutIdle(g, force)
    PROVE  /\ idle' \in Seq(Conns)
           /\ conn' \in [Threads -> Conns \cup {NoConn}]
           /\ at' \in [Threads -> Locations]
           /\ mu' \in Threads \cup {NoThread}
           /\ idleFor' \in [Conns -> 0..IdleCap]
<1>. DEFINE pushed == <<conn[g]>> \o idle
<1>1. pushed \in Seq(Conns) /\ pushed # <<>>
  BY DEF TypeOK
<1>2. Front(pushed) \in Seq(Conns) /\ Last(pushed) \in Conns
  BY <1>1, FrontLast
<1>3. idleFor' \in [Conns -> 0..IdleCap]
  <2>1. 0 \in 0..IdleCap
    BY IdleCapType
  <2>. QED
    BY <2>1 DEF TypeOK, PutIdle
<1>4. CASE Len(pushed) > MaxIdle
  BY <1>1, <1>2, <1>3, <1>4 DEF TypeOK, PutIdle, Hold, Goto, Locations
<1>5. CASE ~(Len(pushed) > MaxIdle)
  BY <1>1, <1>3, <1>5, ReleaseType DEF TypeOK, PutIdle, Hold
<1>. QED
  BY <1>4, <1>5

-----------------------------------------------------------------------------
\* Types, and who has a connection.
TypeInv == TypeOK /\ ConnInv

\* What the moves of get do to at and conn.
LEMMA PruneOrTakeConn ==
    ASSUME TypeInv, NEW g \in Threads, NEW act \in Int, NEW n \in Nat,
           PruneOrTake(g, act, n), conn[g] = NoConn
    PROVE  ConnInv'
<1>1. CASE PruneBack(g, n)
  <2>1. Last(idle) \in Conns
    BY <1>1, FrontLast DEF PruneBack, MayPrune, TypeInv, TypeOK
  <2>. QED
    BY <1>1, <2>1 DEF PruneBack, TypeInv, TypeOK, ConnInv, Hold, Goto, HoldingAt
<1>2. CASE TakeFront(g, act)
  <2>1. Head(idle) \in Conns
    BY <1>2, HeadTailProperties DEF TakeFront, TypeInv, TypeOK
  <2>. QED
    BY <1>2, <2>1 DEF TakeFront, TypeInv, TypeOK, ConnInv, Hold, Goto, HoldingAt
<1>3. CASE Refuse(g, act) \/ Reserve(g, act)
  BY <1>3, PoolAssumption
     DEF Refuse, Reserve, TypeInv, TypeOK, ConnInv, Goto, HoldingAt
<1>. QED
  BY <1>1, <1>2, <1>3 DEF PruneOrTake, TakeOrDial

\* A goroutine at any other place has no connection.
LEMMA NoConnElsewhere ==
    ASSUME TypeInv, NEW g \in Threads, at[g] \notin HoldingAt
    PROVE  conn[g] = NoConn
BY DEF TypeInv, TypeOK, ConnInv

\* The end of put and of a failed dial.
LEMMA ReleaseConn ==
    ASSUME TypeInv, NEW g \in Threads, at[g] \notin HoldingAt, conn' = conn,
           Release(g)
    PROVE  ConnInv'
<1>1. at' = [at EXCEPT ![g] = "send"] \/ at' = [at EXCEPT ![g] = "out"]
  BY DEF Release, Goto
<1>. QED
  BY <1>1 DEF TypeInv, TypeOK, ConnInv, HoldingAt

\* Every step keeps the types, and keeps the goroutines with a connection at the
\* places where they have one.
LEMMA TypeInvStep == TypeInv /\ [Next]_vars => TypeInv'
<1>. SUFFICES ASSUME TypeInv, [Next]_vars
              PROVE  TypeInv'
  OBVIOUS
<1>. USE DEF TypeInv
<1>a. NoConn \notin Conns /\ MaxActive \in Nat /\ NoThread \notin Threads
  BY PoolAssumption
<1>1. ASSUME NEW g \in Threads, GetStart(g) PROVE TypeInv'
  BY <1>1 DEF GetStart, Goto, TypeOK, ConnInv, HoldingAt, Locations, limits,
              clocks
<1>2. ASSUME NEW g \in Threads, LazyInit(g) PROVE TypeInv'
  BY <1>2, <1>a DEF LazyInit, Goto, TypeOK, ConnInv, HoldingAt, Locations,
                    clocks
<1>3. ASSUME NEW g \in Threads, Acquire(g) PROVE TypeInv'
  <2>1. tokens' \in Nat
    BY <1>3 DEF Acquire, TypeOK
  <2>. QED
    BY <1>3, <2>1 DEF Acquire, Goto, TypeOK, ConnInv, HoldingAt, Locations,
                      clocks
<1>4. ASSUME NEW g \in Threads, GetLocked(g) PROVE TypeInv'
  <2>. DEFINE n == IF IdleTimeout > 0 THEN Len(idle) ELSE 0
  <2>1. n \in Nat /\ active \in Int /\ conn[g] = NoConn
    BY <1>4, <1>a, LenProperties, EmptySeq DEF GetLocked, TypeOK, ConnInv, HoldingAt
  <2>2. PruneOrTake(g, active, n)
    BY <1>4 DEF GetLocked
  <2>. HIDE DEF n
  <2>. QED
    BY <1>4, <2>1, <2>2, PruneOrTakeType, PruneOrTakeConn
    DEF GetLocked, TypeOK, limits, clocks
<1>5. ASSUME NEW g \in Threads, ClosePruned(g) PROVE TypeInv'
  BY <1>5, <1>a, CloseSocketType
  DEF ClosePruned, CloseSocket, Hold, Goto, TypeOK, ConnInv, HoldingAt,
      Locations, limits
<1>6. ASSUME NEW g \in Threads, Pruned(g) PROVE TypeInv'
  <2>1. budget[g] \in Nat /\ active - 1 \in Int
    BY DEF TypeOK
  <2>2. conn[g] = NoConn
    BY <1>6, NoConnElsewhere DEF Pruned, HoldingAt
  <2>. QED
    BY <1>6, <2>1, <2>2, PruneOrTakeType, PruneOrTakeConn
    DEF Pruned, TypeOK, limits, clocks
<1>7. ASSUME NEW g \in Threads, Borrow(g) PROVE TypeInv'
  BY <1>7 DEF Borrow, Goto, TypeOK, ConnInv, HoldingAt, Locations, limits,
              clocks
<1>8. ASSUME NEW g \in Threads, Reject(g) PROVE TypeInv'
  BY <1>8, <1>a, CloseSocketType
  DEF Reject, CloseSocket, Hold, Goto, TypeOK, ConnInv, HoldingAt, Locations,
      limits
<1>9. ASSUME NEW g \in Threads, Rejected(g) PROVE TypeInv'
  <2>1. active - 1 \in Int /\ 0 \in Nat
    BY DEF TypeOK
  <2>3. conn[g] = NoConn
    BY <1>9, NoConnElsewhere DEF Rejected, HoldingAt
  <2>2. PruneOrTake(g, active - 1, 0)
    BY <1>9 DEF Rejected, PruneOrTake, MayPrune
  <2>. QED
    BY <1>9, <2>1, <2>2, <2>3, PruneOrTakeType, PruneOrTakeConn
    DEF Rejected, TypeOK, limits, clocks
<1>10. ASSUME NEW g \in Threads, DialOk(g) PROVE TypeInv'
  BY <1>10 DEF DialOk, Hold, Goto, TypeOK, ConnInv, HoldingAt, Locations,
               limits, clocks
<1>11. ASSUME NEW g \in Threads, DialFail(g) PROVE TypeInv'
  <2>1. active' \in Int
    BY <1>11 DEF DialFail, TypeOK
  <2>2. ConnInv'
    BY <1>11, ReleaseConn DEF DialFail, HoldingAt
  <2>. QED
    BY <1>11, <2>1, <2>2, ReleaseType DEF DialFail, TypeOK, limits, clocks
<1>12. ASSUME NEW g \in Threads, Send(g) PROVE TypeInv'
  BY <1>12 DEF Send, Goto, TypeOK, ConnInv, HoldingAt, Locations, clocks
<1>13. ASSUME NEW g \in Threads, NEW force \in BOOLEAN, Put(g, force)
       PROVE  TypeInv'
  <2>1. conn[g] \in Conns
    BY <1>13 DEF Put, ConnInv, HoldingAt
  <2>2. CASE PutClose(g, force)
    BY <1>13, <2>2 DEF Put, PutClose, Goto, TypeOK, ConnInv, HoldingAt,
                       Locations, limits
  <2>3. CASE PutIdle(g, force)
    <3>1. TypeOK'
      BY <1>13, <2>1, <2>3, PutIdleType DEF Put, TypeOK, limits
    <3>2. <<conn[g]>> \o idle \in Seq(Conns) /\ <<conn[g]>> \o idle # <<>>
      BY <2>1 DEF TypeOK
    <3>3. Last(<<conn[g]>> \o idle) \in Conns
      BY <3>2, FrontLast
    <3>4. CASE Len(<<conn[g]>> \o idle) > MaxIdle
      <4>1. /\ conn' = [conn EXCEPT ![g] = Last(<<conn[g]>> \o idle)]
            /\ at' = [at EXCEPT ![g] = "evict"]
        BY <2>3, <3>4 DEF PutIdle, Hold, Goto
      <4>. QED
        BY <3>1, <3>3, <4>1 DEF TypeOK, ConnInv, HoldingAt
    <3>5. CASE ~(Len(<<conn[g]>> \o idle) > MaxIdle)
      <4>1. /\ conn' = [conn EXCEPT ![g] = NoConn]
            /\ at' = [at EXCEPT ![g] = "send"] \/ at' = [at EXCEPT ![g] = "out"]
        BY <2>3, <3>5 DEF PutIdle, Hold, Release, Goto
      <4>. QED
        BY <1>a, <3>1, <4>1 DEF TypeOK, ConnInv, HoldingAt
    <3>. QED
      BY <3>4, <3>5
  <2>. QED
    BY <1>13, <2>2, <2>3 DEF Put
<1>14. ASSUME NEW g \in Threads, CloseEvicted(g) PROVE TypeInv'
  BY <1>14, <1>a, CloseSocketType
  DEF CloseEvicted, CloseSocket, Hold, Goto, TypeOK, ConnInv, HoldingAt,
      Locations, limits
<1>15. ASSUME NEW g \in Threads, Evicted(g) PROVE TypeInv'
  <2>1. active' \in Int
    BY <1>15 DEF Evicted, TypeOK
  <2>2. ConnInv'
    BY <1>15, ReleaseConn DEF Evicted, HoldingAt
  <2>. QED
    BY <1>15, <2>1, <2>2, ReleaseType DEF Evicted, TypeOK, limits, clocks
<1>16. ASSUME NEW g \in Threads, PoolClose(g) PROVE TypeInv'
  BY <1>16, LenProperties, EmptySeq
  DEF PoolClose, Goto, TypeOK, ConnInv, HoldingAt, Locations, clocks
<1>17. ASSUME NEW g \in Threads, CloseDetached(g) PROVE TypeInv'
  <2>1. CASE detached = <<>>
    BY <1>17, <2>1 DEF CloseDetached, Goto, TypeOK, ConnInv, HoldingAt,
                       Locations, limits, clocks
  <2>2. CASE detached # <<>>
    <3>1. Tail(detached) \in Seq(Conns)
      BY <2>2, HeadTailProperties DEF TypeOK
    <3>2. 0 \in 0..IdleCap /\ 0 \in 0..MaxConnLifetime
      BY IdleCapType, PoolAssumption
    <3>. QED
      BY <1>17, <2>2, <3>1, <3>2 DEF CloseDetached, TypeOK, ConnInv, limits
  <2>. QED
    BY <2>1, <2>2
<1>18. CASE Tick
  <2>1. \A c \in Conns : /\ Older(idleFor[c], IdleCap) \in 0..IdleCap
                         /\ Older(age[c], MaxConnLifetime) \in 0..MaxConnLifetime
    BY OlderType, IdleCapType, PoolAssumption DEF TypeOK
  <2>. QED
    BY <1>18, <2>1 DEF Tick, TypeOK, ConnInv, limits
<1>19. CASE UNCHANGED vars
  BY <1>19 DEF vars, limits, clocks, TypeOK, ConnInv
<1>. QED
  BY <1>1, <1>2, <1>3, <1>4, <1>5, <1>6, <1>7, <1>8, <1>9, <1>10, <1>11, <1>12,
     <1>13, <1>14, <1>15, <1>16, <1>17, <1>18, <1>19 DEF Next, Progress

\* A new pool is well typed and nobody has a connection.
LEMMA TypeInvInit == Init => TypeInv
<1>1. 0 \in 0..IdleCap /\ 0 \in 0..MaxConnLifetime /\ NoConn \notin Conns
  BY PoolAssumption, IdleCapType
<1>. SUFFICES ASSUME Init PROVE TypeInv
  OBVIOUS
<1>2. ConnInv
  BY <1>1 DEF Init, ConnInv, HoldingAt
<1>3. idle \in Seq(Conns) /\ detached \in Seq(Conns)
  BY EmptySeq DEF Init
<1>4. /\ at \in [Threads -> Locations]
      /\ conn \in [Threads -> Conns \cup {NoConn}]
      /\ budget \in [Threads -> Nat]
  BY DEF Init, Locations
<1>5. /\ idleFor \in [Conns -> 0..IdleCap]
      /\ age \in [Conns -> 0..MaxConnLifetime]
  BY <1>1 DEF Init
<1>6. /\ closed \in BOOLEAN /\ chInitialized \in BOOLEAN
      /\ chClosed \in BOOLEAN
  BY Zenon DEF Init
<1>7. /\ active \in Int /\ tokens \in Nat
      /\ mu \in Threads \cup {NoThread}
  BY DEF Init
<1>8. open \in SUBSET Conns
  BY DEF Init
<1>. QED
  BY <1>2, <1>3, <1>4, <1>5, <1>6, <1>7, <1>8 DEF TypeInv, TypeOK

\* Every variable keeps its type, for any number of goroutines and sockets and any
\* setting of the pool.
THEOREM TypeCorrect == Spec => []TypeOK
<1>1. Init => TypeInv
  BY TypeInvInit
<1>2. TypeInv => TypeOK
  BY DEF TypeInv
<1>. QED
  BY <1>1, <1>2, TypeInvStep, PTL DEF Spec

-----------------------------------------------------------------------------
\* How many goroutines are in one of the places S, before and after one of them
\* moves.
LEMMA GotoCount ==
    ASSUME NEW S, NEW a \in [Threads -> Locations], NEW g \in Threads,
           NEW l \in Locations, NEW b, b = [a EXCEPT ![g] = l]
    PROVE  /\ Cardinality({h \in Threads : a[h] \in S}) \in Nat
           /\ Cardinality({h \in Threads : b[h] \in S})
                = Cardinality({h \in Threads : a[h] \in S})
                  + (IF l \in S THEN 1 ELSE 0) - (IF a[g] \in S THEN 1 ELSE 0)
<1>. DEFINE A == {h \in Threads : a[h] \in S}
            B == {h \in Threads : b[h] \in S}
            C == A \ {g}
<1>1. IsFiniteSet(A)
  BY PoolAssumption, FS_Subset
<1>2. /\ Cardinality(A) \in Nat
      /\ IsFiniteSet(C)
      /\ Cardinality(C) = IF g \in A THEN Cardinality(A) - 1 ELSE Cardinality(A)
  BY <1>1, FS_CardinalityType, FS_RemoveElement
<1>3. Cardinality(C \cup {g}) = Cardinality(C) + 1
  BY <1>2, FS_AddElement
<1>4. B = IF l \in S THEN C \cup {g} ELSE C
  OBVIOUS
<1>5. g \in A <=> a[g] \in S
  OBVIOUS
<1>. HIDE DEF A, B, C
<1>6. /\ Cardinality(A) \in Nat
      /\ Cardinality(B) = Cardinality(A)
                  + (IF l \in S THEN 1 ELSE 0) - (IF a[g] \in S THEN 1 ELSE 0)
  BY <1>2, <1>3, <1>4, <1>5
<1>. QED
  BY <1>6 DEF A, B

\* How a move of one goroutine changes the number of those p.active counts.
LEMMA CountedGoto ==
    ASSUME TypeOK, NEW g \in Threads, NEW l \in Locations, Goto(g, l)
    PROVE  /\ Cardinality(Counted) \in Nat
           /\ Cardinality(Counted') = Cardinality(Counted)
                + (IF l \in CountedAt THEN 1 ELSE 0)
                - (IF at[g] \in CountedAt THEN 1 ELSE 0)
<1>1. at \in [Threads -> Locations] /\ at' = [at EXCEPT ![g] = l]
  BY DEF Goto, TypeOK
<1>2. /\ Counted = {h \in Threads : at[h] \in CountedAt}
      /\ Counted' = {h \in Threads : at'[h] \in CountedAt}
  BY DEF Counted
<1>. QED
  BY <1>1, <1>2, GotoCount

\* What get counts, given the count act without the goroutine that runs it.
LEMMA PruneOrTakeCount ==
    ASSUME TypeOK, NEW g \in Threads, NEW act \in Int, NEW n \in Nat,
           PruneOrTake(g, act, n),
           act = Len(idle) + Cardinality(Counted)
                 - (IF at[g] \in CountedAt THEN 1 ELSE 0)
    PROVE  ActiveMatches'
<1>1. idle \in Seq(Conns) /\ Len(idle) \in Nat
  BY LenProperties DEF TypeOK
<1>2. CASE PruneBack(g, n)
  <2>1. active' = act /\ Len(idle') = Len(idle) - 1
    BY <1>1, <1>2, FrontLast DEF PruneOrTake, PruneBack, MayPrune
  <2>. QED
    BY <1>1, <1>2, <2>1, CountedGoto
    DEF PruneBack, ActiveMatches, CountedAt, Locations, HoldingAt
<1>3. CASE TakeFront(g, act)
  <2>1. active' = act /\ Len(idle') = Len(idle) - 1
    BY <1>1, <1>3, HeadTailProperties DEF TakeFront
  <2>. QED
    BY <1>1, <1>3, <2>1, CountedGoto
    DEF TakeFront, ActiveMatches, CountedAt, Locations, HoldingAt
<1>4. CASE Refuse(g, act)
  BY <1>1, <1>4, CountedGoto
  DEF Refuse, ActiveMatches, CountedAt, Locations, HoldingAt
<1>5. CASE Reserve(g, act)
  BY <1>1, <1>5, CountedGoto
  DEF Reserve, ActiveMatches, CountedAt, Locations, HoldingAt
<1>. QED
  BY <1>2, <1>3, <1>4, <1>5 DEF PruneOrTake, TakeOrDial

\* Where giving back the value of p.ch leaves the goroutine and the lock.
LEMMA ReleaseMoves ==
    ASSUME NEW g \in Threads, Release(g)
    PROVE  \/ Goto(g, "send") /\ chInitialized /\ ~closed /\ mu' = g
           \/ Goto(g, "out") /\ ~(chInitialized /\ ~closed) /\ mu' = mu
BY DEF Release

\* The idle list after put stored a connection, and after it dropped the oldest.
LEMMA PushedProperties ==
    ASSUME TypeOK, NEW c \in Conns
    PROVE  /\ <<c>> \o idle \in Seq(Conns) /\ <<c>> \o idle # <<>>
           /\ Len(<<c>> \o idle) = Len(idle) + 1
           /\ Len(Front(<<c>> \o idle)) = Len(idle)
<1>1. <<c>> \in Seq(Conns) /\ Len(<<c>>) = 1 /\ idle \in Seq(Conns)
  BY DEF TypeOK
<1>2. <<c>> \o idle \in Seq(Conns) /\ Len(<<c>> \o idle) = Len(idle) + 1
  BY <1>1, ConcatProperties
<1>3. Len(idle) \in Nat
  BY <1>1, LenProperties
<1>4. <<c>> \o idle # <<>>
  BY <1>2, <1>3, EmptySeq
<1>. DEFINE p == <<c>> \o idle
<1>5. p \in Seq(Conns) /\ p # <<>> /\ Len(p) = Len(idle) + 1
  BY <1>2, <1>4
<1>. HIDE DEF p
<1>6. Len(Front(p)) = Len(p) - 1
  BY <1>5, FrontLast
<1>7. Len(Front(p)) = Len(idle)
  BY <1>3, <1>5, <1>6
<1>. QED
  BY <1>5, <1>7 DEF p

\* The number of goroutines p.active counts is a number.
LEMMA CountedType == Cardinality(Counted) \in Nat
BY PoolAssumption, FS_Subset, FS_CardinalityType DEF Counted

\* Every step keeps p.active equal to what it counts.
LEMMA ActiveMatchesStep ==
    TypeInv /\ ActiveMatches /\ [Next]_vars => ActiveMatches'
<1>. SUFFICES ASSUME TypeInv, ActiveMatches, [Next]_vars
              PROVE  ActiveMatches'
  OBVIOUS
<1>a. TypeOK /\ ConnInv
  BY DEF TypeInv
<1>b. active = Len(idle) + Cardinality(Counted)
  BY DEF ActiveMatches
<1>c. /\ idle \in Seq(Conns) /\ Len(idle) \in Nat /\ active \in Int
      /\ Cardinality(Counted) \in Nat
  BY <1>a, LenProperties, CountedType DEF TypeOK
<1>d. ASSUME NEW g \in Threads, NEW l \in Locations, Goto(g, l),
             at[g] \in CountedAt <=> l \in CountedAt,
             active' = active, Len(idle') = Len(idle)
      PROVE  ActiveMatches'
  BY <1>a, <1>b, <1>d, CountedGoto DEF ActiveMatches
<1>e. ASSUME NEW g \in Threads, at[g] \in CountedAt, Release(g),
             active' = active - 1, Len(idle') = Len(idle)
      PROVE  ActiveMatches'
  <2>1. PICK l \in {"send", "out"} : Goto(g, l)
    BY <1>e, ReleaseMoves
  <2>2. l \in Locations /\ l \notin CountedAt
    BY DEF Locations, CountedAt, HoldingAt
  <2>. QED
    BY <1>a, <1>b, <1>c, <1>e, <2>1, <2>2, CountedGoto DEF ActiveMatches
<1>. USE <1>a DEF Locations, CountedAt, HoldingAt
<1>1. ASSUME NEW g \in Threads, GetStart(g) PROVE ActiveMatches'
  <2>1. PICK l \in {"lock", "recv", "lazy"} : Goto(g, l)
    BY <1>1 DEF GetStart
  <2>. QED
    BY <1>1, <1>d, <2>1 DEF GetStart
<1>2. ASSUME NEW g \in Threads, LazyInit(g) PROVE ActiveMatches'
  BY <1>2, <1>d DEF LazyInit
<1>3. ASSUME NEW g \in Threads, Acquire(g) PROVE ActiveMatches'
  BY <1>3, <1>d DEF Acquire
<1>4. ASSUME NEW g \in Threads, GetLocked(g) PROVE ActiveMatches'
  <2>. DEFINE n == IF IdleTimeout > 0 THEN Len(idle) ELSE 0
  <2>1. n \in Nat /\ PruneOrTake(g, active, n)
    BY <1>4, <1>c DEF GetLocked
  <2>2. active = Len(idle) + Cardinality(Counted)
                 - (IF at[g] \in CountedAt THEN 1 ELSE 0)
    BY <1>4, <1>b, <1>c DEF GetLocked
  <2>. QED
    BY <1>c, <2>1, <2>2, PruneOrTakeCount
<1>5. ASSUME NEW g \in Threads, ClosePruned(g) PROVE ActiveMatches'
  BY <1>5, <1>d DEF ClosePruned
<1>6. ASSUME NEW g \in Threads, Pruned(g) PROVE ActiveMatches'
  <2>1. active - 1 = Len(idle) + Cardinality(Counted)
                     - (IF at[g] \in CountedAt THEN 1 ELSE 0)
    BY <1>6, <1>b, <1>c DEF Pruned
  <2>2. budget[g] \in Nat /\ active - 1 \in Int
    BY DEF TypeOK
  <2>. QED
    BY <1>6, <2>1, <2>2, PruneOrTakeCount DEF Pruned
<1>7. ASSUME NEW g \in Threads, Borrow(g) PROVE ActiveMatches'
  BY <1>7, <1>d DEF Borrow
<1>8. ASSUME NEW g \in Threads, Reject(g) PROVE ActiveMatches'
  BY <1>8, <1>d DEF Reject
<1>9. ASSUME NEW g \in Threads, Rejected(g) PROVE ActiveMatches'
  <2>1. active - 1 = Len(idle) + Cardinality(Counted)
                     - (IF at[g] \in CountedAt THEN 1 ELSE 0)
    BY <1>9, <1>b, <1>c DEF Rejected
  <2>2. PruneOrTake(g, active - 1, 0) /\ 0 \in Nat /\ active - 1 \in Int
    BY <1>9, <1>c DEF Rejected, PruneOrTake, MayPrune
  <2>. QED
    BY <2>1, <2>2, PruneOrTakeCount
<1>10. ASSUME NEW g \in Threads, DialOk(g) PROVE ActiveMatches'
  BY <1>10, <1>d DEF DialOk
<1>11. ASSUME NEW g \in Threads, DialFail(g) PROVE ActiveMatches'
  BY <1>11, <1>e DEF DialFail
<1>12. ASSUME NEW g \in Threads, Send(g) PROVE ActiveMatches'
  BY <1>12, <1>d DEF Send
<1>13. ASSUME NEW g \in Threads, NEW force \in BOOLEAN, Put(g, force)
       PROVE  ActiveMatches'
  <2>1. conn[g] \in Conns /\ at[g] = "use" /\ active' = active
    BY <1>13 DEF Put, ConnInv
  <2>2. CASE PutClose(g, force)
    BY <1>d, <2>1, <2>2 DEF PutClose
  <2>3. CASE PutIdle(g, force) /\ Goto(g, "evict")
    <3>1. Len(idle') = Len(idle)
      <4>1. Len(<<conn[g]>> \o idle) > MaxIdle
        BY <2>3, <2>1, ReleaseMoves DEF PutIdle, Goto, TypeOK
      <4>. QED
        BY <2>1, <2>3, <4>1, PushedProperties DEF PutIdle
    <3>. QED
      BY <1>d, <2>1, <2>3, <3>1
  <2>4. CASE PutIdle(g, force) /\ ~Goto(g, "evict")
    <3>1. Release(g) /\ Len(idle') = Len(idle) + 1
      BY <2>1, <2>4, PushedProperties DEF PutIdle
    <3>2. PICK l \in {"send", "out"} : Goto(g, l)
      BY <3>1, ReleaseMoves
    <3>. QED
      BY <1>b, <1>c, <2>1, <3>1, <3>2, CountedGoto DEF ActiveMatches
  <2>. QED
    BY <1>13, <2>2, <2>3, <2>4 DEF Put
<1>14. ASSUME NEW g \in Threads, CloseEvicted(g) PROVE ActiveMatches'
  BY <1>14, <1>d DEF CloseEvicted
<1>15. ASSUME NEW g \in Threads, Evicted(g) PROVE ActiveMatches'
  BY <1>15, <1>e DEF Evicted
<1>16. ASSUME NEW g \in Threads, PoolClose(g) PROVE ActiveMatches'
  <2>1. Len(idle') = 0 /\ active' = active - Len(idle) /\ at[g] = "out"
    BY <1>16, EmptySeq DEF PoolClose
  <2>2. Cardinality(Counted) \in Nat /\ Cardinality(Counted') = Cardinality(Counted)
    BY <1>16, <2>1, CountedGoto DEF PoolClose
  <2>. QED
    BY <1>b, <1>c, <2>1, <2>2 DEF ActiveMatches
<1>17. ASSUME NEW g \in Threads, CloseDetached(g) PROVE ActiveMatches'
  <2>1. CASE detached = <<>>
    BY <1>17, <1>d, <2>1 DEF CloseDetached
  <2>2. CASE detached # <<>>
    BY <1>17, <2>2 DEF CloseDetached, ActiveMatches, Counted
  <2>. QED
    BY <2>1, <2>2
<1>18. CASE Tick
  BY <1>18 DEF Tick, ActiveMatches, Counted
<1>19. CASE UNCHANGED vars
  BY <1>19 DEF vars, ActiveMatches, Counted
<1>. QED
  BY <1>1, <1>2, <1>3, <1>4, <1>5, <1>6, <1>7, <1>8, <1>9, <1>10, <1>11, <1>12,
     <1>13, <1>14, <1>15, <1>16, <1>17, <1>18, <1>19 DEF Next, Progress

-----------------------------------------------------------------------------
\* Where get goes from the prune loop: under a limit kept by p.ch it fails only when
\* the pool is closed.
LEMMA PruneOrTakeMoves ==
    ASSUME NEW g \in Threads, NEW act, NEW n, PruneOrTake(g, act, n)
    PROVE  \/ Goto(g, "prune") \/ Goto(g, "test") \/ Goto(g, "dial")
           \/ Goto(g, "out") /\ (closed \/ ~Wait)
BY DEF PruneOrTake, PruneBack, TakeOrDial, TakeFront, Refuse, Reserve, Exhausted

\* The channel, the lock and the place of each goroutine agree.
LEMMA ChannelInvStep ==
    TypeInv /\ ChannelInv /\ [Next]_vars => ChannelInv'
<1>. SUFFICES ASSUME TypeInv, ChannelInv, [Next]_vars
              PROVE  ChannelInv'
  OBVIOUS
<1>a. TypeOK /\ NoThread \notin Threads
  BY PoolAssumption DEF TypeInv
<1>. DEFINE same == /\ mu' = mu /\ closed' = closed
                    /\ chInitialized' = chInitialized /\ chClosed' = chClosed
<1>d. ASSUME NEW g \in Threads, NEW l \in Locations, Goto(g, l), same,
             at[g] # "send", l # "send",
             l \in {"lazy", "recv"} => Limited,
             Limited /\ l \in TokenAt \cup {"recv"} => chInitialized
      PROVE  ChannelInv'
  BY <1>a, <1>d DEF ChannelInv, Goto, TypeOK, Limited
<1>e. ASSUME NEW g \in Threads, at[g] \in CountedAt, Free, Release(g),
             closed' = closed, chInitialized' = chInitialized,
             chClosed' = chClosed
      PROVE  ChannelInv'
  <2>1. at[g] # "send" /\ mu = NoThread
    BY <1>e DEF CountedAt, HoldingAt, Free
  <2>2. CASE Goto(g, "send") /\ chInitialized /\ ~closed /\ mu' = g
    BY <1>a, <1>e, <2>1, <2>2
    DEF ChannelInv, Goto, TypeOK, Limited
  <2>3. CASE Goto(g, "out") /\ mu' = mu
    BY <1>d, <1>e, <2>1, <2>3 DEF Locations, TokenAt, CountedAt, HoldingAt
  <2>. QED
    BY <1>e, <2>2, <2>3, ReleaseMoves
<1>f. ASSUME NEW g \in Threads, NEW act, NEW n, PruneOrTake(g, act, n), same,
             at[g] \in {"lock", "pruned", "failed"}
      PROVE  ChannelInv'
  <2>1. PICK l \in {"prune", "test", "dial", "out"} : Goto(g, l)
    BY <1>f, PruneOrTakeMoves
  <2>2. Limited => chInitialized
    BY <1>f DEF ChannelInv, TokenAt, CountedAt, HoldingAt
  <2>. QED
    BY <1>d, <1>f, <2>1, <2>2 DEF Locations
<1>g. ASSUME NEW g \in Threads, at[g] \in TokenAt
      PROVE  Limited => chInitialized
  BY <1>g DEF ChannelInv
<1>. USE DEF Locations, TokenAt, CountedAt, HoldingAt, limits
<1>1. ASSUME NEW g \in Threads, GetStart(g) PROVE ChannelInv'
  <2>1. CASE ~Limited
    BY <1>1, <1>d, <2>1 DEF GetStart
  <2>2. CASE Limited /\ chInitialized
    BY <1>1, <1>d, <2>2 DEF GetStart
  <2>3. CASE Limited /\ ~chInitialized
    BY <1>1, <1>d, <2>3 DEF GetStart
  <2>. QED
    BY <2>1, <2>2, <2>3
<1>2. ASSUME NEW g \in Threads, LazyInit(g) PROVE ChannelInv'
  <2>1. Limited /\ at[g] = "lazy"
    BY <1>2 DEF LazyInit, ChannelInv
  <2>2. chClosed' <=> chInitialized' /\ closed'
    BY <1>2 DEF LazyInit, ChannelInv
  <2>. QED
    BY <1>2, <1>a, <2>1, <2>2 DEF LazyInit, ChannelInv, Goto, TypeOK, Limited
<1>3. ASSUME NEW g \in Threads, Acquire(g) PROVE ChannelInv'
  <2>1. Limited => chInitialized
    BY <1>3 DEF Acquire, ChannelInv
  <2>. QED
    BY <1>3, <1>d, <2>1 DEF Acquire
<1>4. ASSUME NEW g \in Threads, GetLocked(g) PROVE ChannelInv'
  BY <1>4, <1>f DEF GetLocked
<1>5. ASSUME NEW g \in Threads, ClosePruned(g) PROVE ChannelInv'
  BY <1>5, <1>d, <1>g DEF ClosePruned
<1>6. ASSUME NEW g \in Threads, Pruned(g) PROVE ChannelInv'
  BY <1>6, <1>f DEF Pruned
<1>7. ASSUME NEW g \in Threads, Borrow(g) PROVE ChannelInv'
  BY <1>7, <1>d, <1>g DEF Borrow
<1>8. ASSUME NEW g \in Threads, Reject(g) PROVE ChannelInv'
  BY <1>8, <1>d, <1>g DEF Reject
<1>9. ASSUME NEW g \in Threads, Rejected(g) PROVE ChannelInv'
  <2>1. PruneOrTake(g, active - 1, 0)
    BY <1>9 DEF Rejected, PruneOrTake, MayPrune
  <2>. QED
    BY <1>9, <1>f, <2>1 DEF Rejected
<1>10. ASSUME NEW g \in Threads, DialOk(g) PROVE ChannelInv'
  BY <1>10, <1>d, <1>g DEF DialOk
<1>11. ASSUME NEW g \in Threads, DialFail(g) PROVE ChannelInv'
  BY <1>11, <1>e DEF DialFail
<1>12. ASSUME NEW g \in Threads, Send(g) PROVE ChannelInv'
  <2>1. \A h \in Threads : at[h] = "send" => h = g
    BY <1>12, <1>a DEF Send, ChannelInv
  <2>. QED
    BY <1>12, <1>a, <2>1 DEF Send, ChannelInv, Goto, TypeOK, Limited
<1>13. ASSUME NEW g \in Threads, NEW force \in BOOLEAN, Put(g, force)
       PROVE  ChannelInv'
  <2>1. CASE PutClose(g, force)
    BY <1>13, <1>d, <1>g, <2>1 DEF Put, PutClose
  <2>2. CASE PutIdle(g, force)
    <3>1. \/ Goto(g, "evict") /\ mu' = mu
          \/ Release(g)
      BY <2>2 DEF PutIdle
    <3>2. CASE Goto(g, "evict") /\ mu' = mu
      BY <1>13, <1>d, <1>g, <3>2 DEF Put
    <3>3. CASE Release(g)
      BY <1>13, <1>e, <3>3 DEF Put
    <3>. QED
      BY <3>1, <3>2, <3>3
  <2>. QED
    BY <1>13, <2>1, <2>2 DEF Put
<1>14. ASSUME NEW g \in Threads, CloseEvicted(g) PROVE ChannelInv'
  BY <1>14, <1>d, <1>g DEF CloseEvicted
<1>15. ASSUME NEW g \in Threads, Evicted(g) PROVE ChannelInv'
  BY <1>15, <1>e DEF Evicted
<1>16. ASSUME NEW g \in Threads, PoolClose(g) PROVE ChannelInv'
  <2>1. \A h \in Threads : at[h] # "send"
    BY <1>16, <1>a DEF PoolClose, Free, ChannelInv
  <2>2. chClosed' <=> chInitialized' /\ closed'
    BY <1>16 DEF PoolClose
  <2>. QED
    BY <1>16, <1>a, <2>1, <2>2 DEF PoolClose, ChannelInv, Goto, TypeOK, Limited
<1>17. ASSUME NEW g \in Threads, CloseDetached(g) PROVE ChannelInv'
  <2>1. CASE detached = <<>>
    BY <1>17, <1>d, <2>1 DEF CloseDetached
  <2>2. CASE detached # <<>>
    BY <1>17, <2>2 DEF CloseDetached, ChannelInv
  <2>. QED
    BY <2>1, <2>2
<1>18. CASE Tick
  BY <1>18 DEF Tick, ChannelInv
<1>19. CASE UNCHANGED vars
  BY <1>19 DEF vars, ChannelInv
<1>. QED
  BY <1>1, <1>2, <1>3, <1>4, <1>5, <1>6, <1>7, <1>8, <1>9, <1>10, <1>11, <1>12,
     <1>13, <1>14, <1>15, <1>16, <1>17, <1>18, <1>19 DEF Next, Progress

-----------------------------------------------------------------------------
\* How a move of one goroutine changes the number of those with a value of p.ch.
LEMMA TokensGoto ==
    ASSUME TypeOK, NEW g \in Threads, NEW l \in Locations, Goto(g, l)
    PROVE  /\ Cardinality(TokenHolders) \in Nat
           /\ Cardinality(TokenHolders') = Cardinality(TokenHolders)
                + (IF l \in TokenAt THEN 1 ELSE 0)
                - (IF at[g] \in TokenAt THEN 1 ELSE 0)
<1>1. at \in [Threads -> Locations] /\ at' = [at EXCEPT ![g] = l]
  BY DEF Goto, TypeOK
<1>2. /\ TokenHolders = {h \in Threads : at[h] \in TokenAt}
      /\ TokenHolders' = {h \in Threads : at'[h] \in TokenAt}
  BY DEF TokenHolders
<1>. QED
  BY <1>1, <1>2, GotoCount

\* Each value of p.ch is in its buffer or with one goroutine.
LEMMA TokenConservationStep ==
    TypeInv /\ ChannelInv /\ TokenConservation /\ [Next]_vars
        => TokenConservation'
<1>. SUFFICES ASSUME TypeInv, ChannelInv, TokenConservation, [Next]_vars,
                     Limited, chInitialized', ~closed'
              PROVE  tokens' + Cardinality(TokenHolders') = MaxActive
  BY DEF TokenConservation, Limited
<1>a. TypeOK /\ tokens \in Nat /\ MaxActive \in Nat
  BY PoolAssumption DEF TypeInv, TypeOK
<1>b. chInitialized /\ ~closed => tokens + Cardinality(TokenHolders) = MaxActive
  BY DEF TokenConservation
<1>d. ASSUME NEW g \in Threads, NEW l \in Locations, Goto(g, l),
             closed' = closed, chInitialized' = chInitialized, tokens' = tokens,
             at[g] \in TokenAt <=> l \in TokenAt
      PROVE  tokens' + Cardinality(TokenHolders') = MaxActive
  BY <1>a, <1>b, <1>d, TokensGoto
<1>. USE DEF Locations, TokenAt, CountedAt, HoldingAt, limits
<1>e. ASSUME NEW g \in Threads, at[g] \in CountedAt, Release(g),
             closed' = closed, chInitialized' = chInitialized, tokens' = tokens
      PROVE  tokens' + Cardinality(TokenHolders') = MaxActive
  BY <1>d, <1>e, ReleaseMoves
<1>f. ASSUME NEW g \in Threads, NEW act, NEW n, PruneOrTake(g, act, n),
             closed' = closed, chInitialized' = chInitialized, tokens' = tokens,
             at[g] \in {"lock", "pruned", "failed"}
      PROVE  tokens' + Cardinality(TokenHolders') = MaxActive
  <2>1. PICK l \in {"prune", "test", "dial"} : Goto(g, l)
    BY <1>f, PruneOrTakeMoves DEF Limited
  <2>. QED
    BY <1>d, <1>f, <2>1
<1>1. ASSUME NEW g \in Threads, GetStart(g)
      PROVE  tokens' + Cardinality(TokenHolders') = MaxActive
  <2>1. PICK l \in {"recv", "lazy"} : Goto(g, l)
    BY <1>1 DEF GetStart
  <2>. QED
    BY <1>1, <1>d, <2>1 DEF GetStart
<1>2. ASSUME NEW g \in Threads, LazyInit(g)
      PROVE  tokens' + Cardinality(TokenHolders') = MaxActive
  <2>1. CASE chInitialized
    BY <1>2, <1>d, <2>1 DEF LazyInit
  <2>2. CASE ~chInitialized
    <3>1. tokens' = MaxActive
      BY <1>2, <2>2 DEF LazyInit
    <3>2. TokenHolders = {}
      BY <2>2 DEF ChannelInv, TokenHolders
    <3>3. Cardinality(TokenHolders) = 0
      BY <3>2, FS_EmptySet
    <3>4. Cardinality(TokenHolders') = 0
      BY <1>2, <1>a, <3>3, TokensGoto DEF LazyInit
    <3>. QED
      BY <1>a, <3>1, <3>4
  <2>. QED
    BY <2>1, <2>2
<1>3. ASSUME NEW g \in Threads, Acquire(g)
      PROVE  tokens' + Cardinality(TokenHolders') = MaxActive
  <2>1. tokens > 0 /\ tokens' = tokens - 1
    BY <1>3 DEF Acquire, ChannelInv
  <2>2. Cardinality(TokenHolders) \in Nat
        /\ Cardinality(TokenHolders') = Cardinality(TokenHolders) + 1
    BY <1>3, <1>a, TokensGoto DEF Acquire
  <2>. QED
    BY <1>3, <1>a, <1>b, <2>1, <2>2 DEF Acquire
<1>4. ASSUME NEW g \in Threads, GetLocked(g)
      PROVE  tokens' + Cardinality(TokenHolders') = MaxActive
  BY <1>4, <1>f DEF GetLocked
<1>5. ASSUME NEW g \in Threads, ClosePruned(g)
      PROVE  tokens' + Cardinality(TokenHolders') = MaxActive
  BY <1>5, <1>d DEF ClosePruned
<1>6. ASSUME NEW g \in Threads, Pruned(g)
      PROVE  tokens' + Cardinality(TokenHolders') = MaxActive
  BY <1>6, <1>f DEF Pruned
<1>7. ASSUME NEW g \in Threads, Borrow(g)
      PROVE  tokens' + Cardinality(TokenHolders') = MaxActive
  BY <1>7, <1>d DEF Borrow
<1>8. ASSUME NEW g \in Threads, Reject(g)
      PROVE  tokens' + Cardinality(TokenHolders') = MaxActive
  BY <1>8, <1>d DEF Reject
<1>9. ASSUME NEW g \in Threads, Rejected(g)
      PROVE  tokens' + Cardinality(TokenHolders') = MaxActive
  <2>1. PruneOrTake(g, active - 1, 0)
    BY <1>9 DEF Rejected, PruneOrTake, MayPrune
  <2>. QED
    BY <1>9, <1>f, <2>1 DEF Rejected
<1>10. ASSUME NEW g \in Threads, DialOk(g)
       PROVE  tokens' + Cardinality(TokenHolders') = MaxActive
  BY <1>10, <1>d DEF DialOk
<1>11. ASSUME NEW g \in Threads, DialFail(g)
       PROVE  tokens' + Cardinality(TokenHolders') = MaxActive
  BY <1>11, <1>e DEF DialFail
<1>12. ASSUME NEW g \in Threads, Send(g)
       PROVE  tokens' + Cardinality(TokenHolders') = MaxActive
  <2>1. Cardinality(TokenHolders) \in Nat
        /\ Cardinality(TokenHolders') = Cardinality(TokenHolders) - 1
    BY <1>12, <1>a, TokensGoto DEF Send
  <2>. QED
    BY <1>12, <1>a, <1>b, <2>1 DEF Send
<1>13. ASSUME NEW g \in Threads, NEW force \in BOOLEAN, Put(g, force)
       PROVE  tokens' + Cardinality(TokenHolders') = MaxActive
  <2>1. Goto(g, "evict") \/ Release(g)
    BY <1>13 DEF Put, PutClose, PutIdle
  <2>. QED
    BY <1>13, <1>d, <1>e, <2>1 DEF Put
<1>14. ASSUME NEW g \in Threads, CloseEvicted(g)
       PROVE  tokens' + Cardinality(TokenHolders') = MaxActive
  BY <1>14, <1>d DEF CloseEvicted
<1>15. ASSUME NEW g \in Threads, Evicted(g)
       PROVE  tokens' + Cardinality(TokenHolders') = MaxActive
  BY <1>15, <1>e DEF Evicted
<1>16. ASSUME NEW g \in Threads, PoolClose(g) PROVE FALSE
  BY <1>16 DEF PoolClose
<1>17. ASSUME NEW g \in Threads, CloseDetached(g)
       PROVE  tokens' + Cardinality(TokenHolders') = MaxActive
  <2>1. CASE detached = <<>>
    BY <1>17, <1>d, <2>1 DEF CloseDetached
  <2>2. CASE detached # <<>>
    BY <1>17, <1>b, <2>2 DEF CloseDetached, TokenHolders
  <2>. QED
    BY <2>1, <2>2
<1>18. CASE Tick
  BY <1>18, <1>b DEF Tick, TokenHolders
<1>19. CASE UNCHANGED vars
  BY <1>19, <1>b DEF vars, TokenHolders
<1>. QED
  BY <1>1, <1>2, <1>3, <1>4, <1>5, <1>6, <1>7, <1>8, <1>9, <1>10, <1>11, <1>12,
     <1>13, <1>14, <1>15, <1>16, <1>17, <1>18, <1>19 DEF Next, Progress

-----------------------------------------------------------------------------
\* A new pool satisfies what the steps preserve.
LEMMA CountsInit ==
    Init => ActiveMatches /\ ChannelInv /\ TokenConservation
<1>. SUFFICES ASSUME Init PROVE ActiveMatches /\ ChannelInv /\ TokenConservation
  OBVIOUS
<1>1. \A g \in Threads : at[g] = "out"
  BY DEF Init
<1>2. ActiveMatches
  <2>1. Counted = {} /\ Len(idle) = 0
    BY <1>1, EmptySeq DEF Init, Counted, CountedAt, HoldingAt
  <2>. QED
    BY <2>1, FS_EmptySet DEF Init, ActiveMatches
<1>3. ChannelInv
  BY <1>1, PoolAssumption
  DEF Init, ChannelInv, TokenAt, CountedAt, HoldingAt
<1>4. TokenConservation
  BY DEF Init, TokenConservation
<1>. QED
  BY <1>2, <1>3, <1>4

\* What is invariant of the counters and of the channel.
CountInv == TypeInv /\ ActiveMatches /\ ChannelInv /\ TokenConservation

\* The counters and the channel agree with the goroutines in every state.
LEMMA CountInvariant == Spec => []CountInv
<1>1. Init => CountInv
  BY TypeInvInit, CountsInit DEF CountInv
<1>2. CountInv /\ [Next]_vars => CountInv'
  BY TypeInvStep, ActiveMatchesStep, ChannelInvStep, TokenConservationStep
  DEF CountInv
<1>. QED
  BY <1>1, <1>2, PTL DEF Spec

\* Pool.active, the number on which get decides whether it may dial, is always
\* the number of connections at rest and in the hands of a goroutine.
THEOREM ActiveCorrect == Spec => []ActiveMatches
<1>1. CountInv => ActiveMatches
  BY DEF CountInv
<1>. QED
  BY <1>1, CountInvariant, PTL

\* No call of Get or put loses a value of p.ch or makes one up, whichever way the
\* call ends.
THEOREM TokensConserved == Spec => []TokenConservation
<1>1. CountInv => TokenConservation
  BY DEF CountInv
<1>. QED
  BY <1>1, CountInvariant, PTL

\* The send on p.ch made while holding p.mu never blocks and never meets a closed
\* channel: the value the goroutine gives back is one it took.
THEOREM SendsNeverBlock == Spec => []SendNeverBlocks
<1>1. CountInv => SendNeverBlocks
  <2>. SUFFICES ASSUME CountInv, NEW g \in Threads, at[g] = "send"
                PROVE  tokens < MaxActive /\ ~chClosed
    BY DEF SendNeverBlocks
  <2>1. chInitialized /\ ~closed /\ Limited /\ ~chClosed
    BY DEF CountInv, ChannelInv
  <2>2. tokens + Cardinality(TokenHolders) = MaxActive
    BY <2>1 DEF CountInv, TokenConservation
  <2>3. IsFiniteSet(TokenHolders) /\ g \in TokenHolders
    BY PoolAssumption, FS_Subset DEF TokenHolders, TokenAt
  <2>4. Cardinality(TokenHolders) \in Nat /\ Cardinality(TokenHolders) # 0
    BY <2>3, FS_CardinalityType, FS_EmptySet
  <2>. QED
    BY <2>1, <2>2, <2>4, PoolAssumption DEF CountInv, TypeInv, TypeOK
<1>. QED
  BY <1>1, CountInvariant, PTL

-----------------------------------------------------------------------------
\* The limit on open sockets.  The counters above bound the goroutines with a connection
\* and the connections at rest; what follows adds where an open socket can be
\* (SocketInv): on a list or with a goroutine, so that the counters bound the sockets.

\* Where the elements of the idle list are after each of the list operations.

\* Front and Last take a list apart.
LEMMA RangeFrontLast ==
    ASSUME NEW S, NEW s \in Seq(S), s # <<>>
    PROVE  Range(s) = Range(Front(s)) \cup {Last(s)}
<1>1. Len(s) \in Nat \ {0} /\ DOMAIN s = 1..Len(s)
  BY EmptySeq, LenProperties
<1>2. /\ DOMAIN Front(s) = 1..Len(s) - 1
      /\ \A i \in 1..Len(s) - 1 : Front(s)[i] = s[i]
  BY FrontLast, LenProperties
<1>3. Last(s) = s[Len(s)]
  BY DEF Last
<1>. QED
  BY <1>1, <1>2, <1>3 DEF Range

\* Head and Tail take a list apart.
LEMMA RangeHeadTail ==
    ASSUME NEW S, NEW s \in Seq(S), s # <<>>
    PROVE  Range(s) = {Head(s)} \cup Range(Tail(s))
<1>1. Len(s) \in Nat \ {0} /\ DOMAIN s = 1..Len(s)
  BY EmptySeq, LenProperties
<1>2. /\ Head(s) = s[1]
      /\ DOMAIN Tail(s) = 1..Len(s) - 1
      /\ \A i \in 1..Len(s) - 1 : Tail(s)[i] = s[i + 1]
  BY HeadTailProperties, LenProperties
<1>3. Head(s) \in Range(s)
  BY <1>1, <1>2 DEF Range
<1>4. ASSUME NEW i \in 1..Len(s) - 1 PROVE Tail(s)[i] \in Range(s)
  <2>1. i + 1 \in 1..Len(s)
    BY <1>1
  <2>. QED
    BY <1>1, <1>2, <2>1 DEF Range
<1>5. ASSUME NEW i \in 1..Len(s), i # 1 PROVE s[i] \in Range(Tail(s))
  <2>1. PICK j \in Int : j = i - 1
    BY <1>1
  <2>2. j \in 1..Len(s) - 1 /\ j + 1 = i
    BY <1>1, <1>5, <2>1
  <2>. QED
    BY <1>2, <2>2 DEF Range
<1>6. /\ \A c : c \in Range(s) <=> \E i \in 1..Len(s) : c = s[i]
      /\ \A c : c \in Range(Tail(s)) <=> \E i \in 1..Len(s) - 1 : c = Tail(s)[i]
  BY <1>1, <1>2 DEF Range
<1>. QED
  BY <1>2, <1>3, <1>4, <1>5, <1>6

\* What put stores is in the list, with what was in it.
LEMMA RangePushed ==
    ASSUME TypeOK, NEW c \in Conns
    PROVE  Range(<<c>> \o idle) = {c} \cup Range(idle)
<1>. DEFINE u == <<c>>
<1>1. u \in Seq(Conns) /\ idle \in Seq(Conns)
  BY DEF TypeOK
<1>2. Range(u) = {c}
  BY DEF Range
<1>. HIDE DEF u
<1>3. Range(u \o idle) = Range(u) \cup Range(idle)
  BY <1>1, RangeConcatenation
<1>4. Range(u \o idle) = {c} \cup Range(idle)
  BY <1>2, <1>3
<1>. QED
  BY <1>4 DEF u

\* A list has no more elements than places.
LEMMA RangeBound ==
    ASSUME NEW S, NEW s \in Seq(S)
    PROVE  /\ IsFiniteSet(Range(s))
           /\ Cardinality(Range(s)) \in Nat
           /\ Cardinality(Range(s)) =< Len(s)
<1>1. Len(s) \in Nat /\ DOMAIN s = 1..Len(s) /\ s \in [1..Len(s) -> S]
  BY LenProperties
<1>2. s \in Surjection(1..Len(s), Range(s))
  BY <1>1 DEF Surjection, Range
<1>3. IsFiniteSet(1..Len(s)) /\ Cardinality(1..Len(s)) = Len(s)
  BY <1>1, FS_Interval
<1>. QED
  BY <1>1, <1>2, <1>3, FS_Surjection, FS_CardinalityType

-----------------------------------------------------------------------------
\* Where the open sockets are.

\* The places of the sockets, spelled out.
LEMMA OpenPlaces ==
    /\ SocketInv =>
          \A c \in open : \/ c \in Range(idle) \/ c \in Range(detached)
                        \/ \E g \in Threads : c = conn[g]
    /\ (\A c \in open : \/ c \in Range(idle) \/ c \in Range(detached)
                        \/ \E g \in Threads : c = conn[g])
       => open \subseteq Range(idle) \cup Range(detached)
                         \cup {conn[g] : g \in Threads}
BY DEF SocketInv

\* When get dials, the pool is below its limit: by the test of p.active, or
\* because the goroutine holds one of the values of p.ch.
LEMMA ReserveBound ==
    ASSUME TypeInv, SocketInv, ActiveMatches', TokenConservation', ChannelInv,
           NEW g \in Threads, NEW act \in Int, Reserve(g, act),
           at[g] \in TokenAt, MaxActive > 0,
           UNCHANGED <<closed, chInitialized, tokens, detached>>
    PROVE  active' + Len(detached') =< MaxActive
<1>1. ~closed /\ Len(detached') = 0
  BY EmptySeq DEF Reserve, SocketInv
<1>2. MaxActive \in Nat /\ active' \in Int /\ tokens \in Nat
  BY PoolAssumption DEF Reserve, TypeInv, TypeOK
<1>3. CASE Limited
  <2>1. chInitialized
    BY <1>3 DEF ChannelInv
  <2>2. tokens + Cardinality(TokenHolders') = MaxActive
    BY <1>1, <1>3, <2>1 DEF TokenConservation, Limited
  <2>3. IsFiniteSet(TokenHolders') /\ Counted' \subseteq TokenHolders'
    BY PoolAssumption, FS_Subset DEF TokenHolders, Counted, TokenAt
  <2>4. /\ Cardinality(Counted') \in Nat /\ Cardinality(TokenHolders') \in Nat
        /\ Cardinality(Counted') =< Cardinality(TokenHolders')
    BY <2>3, FS_Subset, FS_CardinalityType
  <2>5. Len(idle') = 0
    BY EmptySeq DEF Reserve
  <2>6. active' = Cardinality(Counted')
    BY <2>4, <2>5 DEF ActiveMatches
  <2>. QED
    BY <1>1, <1>2, <2>2, <2>4, <2>6
<1>4. CASE ~Limited
  BY <1>1, <1>2, <1>4 DEF Reserve, Exhausted, Limited
<1>. QED
  BY <1>3, <1>4

\* get takes connections from the idle list and keeps them, and dials within the
\* limit.
LEMMA PruneOrTakeSockets ==
    ASSUME CountInv, CountInv', SocketInv, NEW g \in Threads, NEW act \in Int,
           NEW n \in Nat, PruneOrTake(g, act, n), act =< active,
           at[g] \in {"lock", "pruned", "failed"},
           UNCHANGED <<closed, chInitialized, tokens, detached, open>>
    PROVE  SocketInv'
<1>a. /\ TypeInv /\ TypeOK /\ ChannelInv /\ ActiveMatches' /\ TokenConservation'
      /\ at[g] \in TokenAt /\ conn[g] = NoConn
  BY NoConnElsewhere DEF CountInv, TypeInv, TokenAt, CountedAt, HoldingAt
<1>b. /\ idle \in Seq(Conns) /\ open \subseteq Conns /\ NoConn \notin Conns
      /\ conn \in [Threads -> Conns \cup {NoConn}]
      /\ active \in Int /\ MaxActive \in Nat
      /\ Len(detached) \in Nat
  BY <1>a, PoolAssumption, LenProperties DEF TypeOK
<1>1. CASE idle # <<>> /\ active' = act /\ ~closed
           /\ \E c \in Conns : Hold(g, c) /\ Range(idle) = Range(idle') \cup {c}
  <2>1. PICK c \in Conns : Hold(g, c) /\ Range(idle) = Range(idle') \cup {c}
    BY <1>1
  <2>2. conn'[g] = c /\ \A h \in Threads \ {g} : conn'[h] = conn[h]
    BY <1>b, <2>1 DEF Hold
  <2>3. \A d \in open' : \/ d \in Range(idle') \/ d \in Range(detached')
                        \/ \E h \in Threads : d = conn'[h]
    BY <1>a, <1>b, <2>1, <2>2, OpenPlaces
  <2>4. open' \subseteq Range(idle') \cup Range(detached')
                        \cup {conn'[h] : h \in Threads}
    BY <2>3
  <2>5. MaxActive > 0 => active' + Len(detached') =< MaxActive
    BY <1>1, <1>b DEF SocketInv
  <2>. QED
    BY <1>1, <2>4, <2>5 DEF SocketInv
<1>2. CASE PruneBack(g, n)
  <2>1. Range(idle) = Range(idle') \cup {Last(idle)} /\ Last(idle) \in Conns
    BY <1>b, <1>2, RangeFrontLast, FrontLast DEF PruneBack, MayPrune
  <2>2. idle # <<>> /\ Hold(g, Last(idle)) /\ active' = act /\ ~closed
    BY <1>2 DEF PruneBack, MayPrune, PruneOrTake, SocketInv
  <2>. QED
    BY <1>1, <2>1, <2>2
<1>3. CASE TakeFront(g, act)
  <2>1. Range(idle) = Range(idle') \cup {Head(idle)} /\ Head(idle) \in Conns
    BY <1>b, <1>3, RangeHeadTail, HeadTailProperties DEF TakeFront
  <2>2. idle # <<>> /\ Hold(g, Head(idle)) /\ active' = act /\ ~closed
    BY <1>3 DEF TakeFront, SocketInv
  <2>. QED
    BY <1>1, <2>1, <2>2
<1>4. CASE Refuse(g, act)
  BY <1>b, <1>4 DEF Refuse, SocketInv
<1>5. CASE Reserve(g, act)
  <2>1. MaxActive > 0 => active' + Len(detached') =< MaxActive
    BY <1>5, <1>a, ReserveBound
  <2>. QED
    BY <1>5, <2>1 DEF Reserve, SocketInv
<1>. QED
  BY <1>2, <1>3, <1>4, <1>5 DEF PruneOrTake, TakeOrDial

\* A goroutine that closes the socket it holds leaves the others where they are.
LEMMA CloseSocketSockets ==
    ASSUME SocketInv, TypeOK, NEW g \in Threads, CloseSocket(g), active' \in Int,
           active' =< active, UNCHANGED <<closed, idle, detached>>
    PROVE  SocketInv'
<1>1. /\ open' = open \ {conn[g]}
      /\ \A h \in Threads \ {g} : conn'[h] = conn[h]
  BY DEF CloseSocket, Hold, TypeOK
<1>2. \A d \in open' : \/ d \in Range(idle') \/ d \in Range(detached')
                      \/ \E h \in Threads : d = conn'[h]
  BY <1>1, OpenPlaces
<1>3. open' \subseteq Range(idle') \cup Range(detached')
                      \cup {conn'[h] : h \in Threads}
  BY <1>2
<1>4. MaxActive > 0 => active' + Len(detached') =< MaxActive
  BY LenProperties, PoolAssumption DEF SocketInv, TypeOK
<1>. QED
  BY <1>3, <1>4 DEF SocketInv

\* put stores the connection, and takes the oldest one when there are too many.
LEMMA PutIdleSockets ==
    ASSUME SocketInv, TypeOK, NEW g \in Threads, conn[g] \in Conns, NEW force,
           PutIdle(g, force), UNCHANGED <<closed, active, detached, open>>
    PROVE  SocketInv'
<1>. DEFINE pushed == <<conn[g]>> \o idle
<1>1. /\ pushed \in Seq(Conns) /\ pushed # <<>>
      /\ Range(pushed) = {conn[g]} \cup Range(idle)
  BY PushedProperties, RangePushed
<1>2. Range(pushed) = Range(Front(pushed)) \cup {Last(pushed)}
  BY <1>1, RangeFrontLast
<1>3. \/ idle' = pushed
      \/ idle' = Front(pushed) /\ conn'[g] = Last(pushed)
  BY DEF PutIdle, Hold, TypeOK
<1>4. \A h \in Threads \ {g} : conn'[h] = conn[h]
  BY DEF PutIdle, Hold, TypeOK
<1>. HIDE DEF pushed
<1>5. \A d \in open' : \/ d \in Range(idle') \/ d \in Range(detached')
                      \/ \E h \in Threads : d = conn'[h]
  <2>. SUFFICES ASSUME NEW d \in open
                PROVE  \/ d \in Range(idle') \/ d \in Range(detached)
                       \/ \E h \in Threads : d = conn'[h]
    OBVIOUS
  <2>1. CASE d \in Range(detached)
    BY <2>1
  <2>2. CASE d \in Range(pushed)
    BY <1>2, <1>3, <2>2
  <2>3. CASE \E h \in Threads \ {g} : d = conn[h]
    BY <1>4, <2>3
  <2>. QED
    BY <1>1, <2>1, <2>2, <2>3, OpenPlaces
<1>6. open' \subseteq Range(idle') \cup Range(detached')
                      \cup {conn'[h] : h \in Threads}
  BY <1>5
<1>7. ~closed
  BY DEF PutIdle
<1>. QED
  BY <1>6, <1>7 DEF SocketInv

\* Every open socket stays on a list or with a goroutine, and p.active with the
\* connections Pool.Close has still to close stays within the limit.
LEMMA SocketInvStep ==
    CountInv /\ CountInv' /\ SocketInv /\ [Next]_vars => SocketInv'
<1>. SUFFICES ASSUME CountInv, CountInv', SocketInv, [Next]_vars
              PROVE  SocketInv'
  OBVIOUS
<1>a. TypeInv /\ TypeOK /\ ConnInv /\ ActiveMatches
  BY DEF CountInv, TypeInv
<1>b. /\ active \in Int /\ active' \in Int /\ Len(detached) \in Nat
      /\ idle \in Seq(Conns) /\ detached \in Seq(Conns) /\ Len(idle) \in Nat
      /\ MaxActive \in Nat
  BY <1>a, PoolAssumption, LenProperties DEF CountInv, TypeInv, TypeOK
<1>d. ASSUME UNCHANGED <<closed, idle, detached, open, conn>>, active' =< active
      PROVE  SocketInv'
  <2>1. MaxActive > 0 => active' + Len(detached') =< MaxActive
    BY <1>b, <1>d DEF SocketInv
  <2>. QED
    BY <1>d, <2>1 DEF SocketInv
<1>. USE DEF limits
<1>1. ASSUME NEW g \in Threads, GetStart(g) \/ LazyInit(g) \/ Acquire(g)
                                  \/ Borrow(g) \/ Send(g)
      PROVE  SocketInv'
  BY <1>1, <1>b, <1>d DEF GetStart, LazyInit, Acquire, Borrow, Send
<1>2. ASSUME NEW g \in Threads, GetLocked(g) PROVE SocketInv'
  <2>. DEFINE n == IF IdleTimeout > 0 THEN Len(idle) ELSE 0
  <2>1. n \in Nat /\ PruneOrTake(g, active, n)
    BY <1>2, <1>b DEF GetLocked
  <2>. HIDE DEF n
  <2>. QED
    BY <1>2, <1>b, <2>1, PruneOrTakeSockets DEF GetLocked
<1>3. ASSUME NEW g \in Threads, Pruned(g) PROVE SocketInv'
  <2>1. budget[g] \in Nat /\ active - 1 \in Int /\ active - 1 =< active
    BY <1>a, <1>b DEF TypeOK
  <2>. QED
    BY <1>3, <2>1, PruneOrTakeSockets DEF Pruned
<1>4. ASSUME NEW g \in Threads, Rejected(g) PROVE SocketInv'
  <2>1. /\ PruneOrTake(g, active - 1, 0)
        /\ active - 1 \in Int /\ active - 1 =< active /\ 0 \in Nat
    BY <1>4, <1>b DEF Rejected, PruneOrTake, MayPrune
  <2>. QED
    BY <1>4, <2>1, PruneOrTakeSockets DEF Rejected
<1>5. ASSUME NEW g \in Threads, ClosePruned(g) \/ Reject(g) \/ CloseEvicted(g)
      PROVE  SocketInv'
  BY <1>5, <1>a, <1>b, CloseSocketSockets DEF ClosePruned, Reject, CloseEvicted
<1>6. ASSUME NEW g \in Threads, DialOk(g) PROVE SocketInv'
  <2>1. /\ conn[g] \notin Conns /\ open \subseteq Conns
        /\ conn \in [Threads -> Conns \cup {NoConn}]
    BY <1>6, <1>a DEF DialOk, ConnInv, HoldingAt, TypeOK
  <2>2. PICK c \in Conns : open' = open \cup {c} /\ Hold(g, c)
    BY <1>6 DEF DialOk
  <2>3. conn'[g] = c /\ \A h \in Threads \ {g} : conn'[h] = conn[h]
    BY <2>1, <2>2 DEF Hold
  <2>4. UNCHANGED <<closed, active, idle, detached>>
    BY <1>6 DEF DialOk
  <2>5. \A d \in open' : \/ d \in Range(idle') \/ d \in Range(detached')
                        \/ \E h \in Threads : d = conn'[h]
    BY <2>1, <2>2, <2>3, <2>4, OpenPlaces
  <2>6. open' \subseteq Range(idle') \cup Range(detached')
                        \cup {conn'[h] : h \in Threads}
    BY <2>5
  <2>. QED
    BY <2>4, <2>6 DEF SocketInv
<1>7. ASSUME NEW g \in Threads, DialFail(g) \/ Evicted(g) PROVE SocketInv'
  BY <1>7, <1>b, <1>d DEF DialFail, Evicted
<1>8. ASSUME NEW g \in Threads, NEW force \in BOOLEAN, Put(g, force)
      PROVE  SocketInv'
  <2>1. CASE PutClose(g, force)
    BY <1>8, <1>b, <1>d, <2>1 DEF Put, PutClose
  <2>2. CASE PutIdle(g, force)
    BY <1>8, <1>a, <2>2, PutIdleSockets DEF Put, ConnInv, HoldingAt
  <2>. QED
    BY <1>8, <2>1, <2>2 DEF Put
<1>9. ASSUME NEW g \in Threads, PoolClose(g) PROVE SocketInv'
  <2>1. /\ Len(detached) = 0 /\ detached = <<>> /\ closed'
        /\ active' = active - Len(idle) /\ detached' = idle /\ idle' = <<>>
        /\ UNCHANGED <<open, conn>>
    BY <1>9, EmptySeq DEF PoolClose, SocketInv
  <2>2. MaxActive > 0 => active' + Len(detached') =< MaxActive
    BY <1>b, <2>1 DEF SocketInv
  <2>3. Range(detached) = {}
    BY <2>1 DEF Range
  <2>. QED
    BY <2>1, <2>2, <2>3 DEF SocketInv
<1>10. ASSUME NEW g \in Threads, CloseDetached(g) PROVE SocketInv'
  <2>1. CASE detached = <<>>
    BY <1>10, <1>b, <1>d, <2>1 DEF CloseDetached
  <2>2. CASE detached # <<>>
    <3>1. /\ Range(detached) = {Head(detached)} \cup Range(Tail(detached))
          /\ Len(Tail(detached)) = Len(detached) - 1
      BY <1>b, <2>2, RangeHeadTail, HeadTailProperties
    <3>2. /\ open' = open \ {Head(detached)} /\ detached' = Tail(detached)
          /\ UNCHANGED <<closed, active, idle, conn>>
      BY <1>10, <2>2 DEF CloseDetached
    <3>3. closed
      BY <2>2 DEF SocketInv
    <3>4. MaxActive > 0 => active' + Len(detached') =< MaxActive
      BY <1>b, <3>1, <3>2 DEF SocketInv
    <3>. QED
      BY <3>1, <3>2, <3>3, <3>4 DEF SocketInv
  <2>. QED
    BY <2>1, <2>2
<1>11. CASE Tick
  BY <1>11, <1>b, <1>d DEF Tick
<1>12. CASE UNCHANGED vars
  BY <1>12, <1>b, <1>d DEF vars
<1>. QED
  BY <1>1, <1>2, <1>3, <1>4, <1>5, <1>6, <1>7, <1>8, <1>9, <1>10, <1>11, <1>12
  DEF Next, Progress

\* PoolInv, in the parts proved above.
LEMMA PoolInvariant == Spec => []PoolInv
<1>1. Init => CountInv
  BY TypeInvInit, CountsInit DEF CountInv
<1>2. Init => SocketInv
  BY EmptySeq, PoolAssumption DEF Init, SocketInv
<1>3. CountInv /\ [Next]_vars => CountInv'
  BY TypeInvStep, ActiveMatchesStep, ChannelInvStep, TokenConservationStep
  DEF CountInv
<1>4. CountInv /\ SocketInv /\ [Next]_vars => SocketInv'
  BY <1>3, SocketInvStep
<1>5. CountInv /\ SocketInv => PoolInv
  BY DEF CountInv, TypeInv, PoolInv
<1>. QED
  BY <1>1, <1>2, <1>3, <1>4, <1>5, PTL DEF Spec

-----------------------------------------------------------------------------
\* A set has no fewer elements than what a function makes of it: the sockets the
\* goroutines at some places hold.
LEMMA HeldBound ==
    ASSUME NEW S \in SUBSET Threads
    PROVE  /\ IsFiniteSet({conn[g] : g \in S})
           /\ Cardinality({conn[g] : g \in S}) \in Nat
           /\ Cardinality({conn[g] : g \in S}) =< Cardinality(S)
<1>. DEFINE f == [g \in S |-> conn[g]]
            T == {conn[g] : g \in S}
<1>1. f \in Surjection(S, T)
  BY DEF Surjection
<1>2. IsFiniteSet(S)
  BY PoolAssumption, FS_Subset
<1>. QED
  BY <1>1, <1>2, FS_Surjection, FS_CardinalityType

\* The size of a union of two sets of bounded sizes.
LEMMA UnionBound ==
    ASSUME NEW A, NEW B, IsFiniteSet(A), IsFiniteSet(B), NEW m \in Nat, NEW n \in Nat,
           Cardinality(A) =< m, Cardinality(B) =< n
    PROVE  /\ IsFiniteSet(A \cup B)
           /\ Cardinality(A \cup B) \in Nat
           /\ Cardinality(A \cup B) =< m + n
<1>1. IsFiniteSet(A \cap B)
  BY FS_Subset
<1>2. /\ IsFiniteSet(A \cup B)
      /\ Cardinality(A \cup B) = Cardinality(A) + Cardinality(B) - Cardinality(A \cap B)
  BY FS_Union
<1>3. /\ Cardinality(A \cap B) \in Nat /\ Cardinality(A \cup B) \in Nat
      /\ Cardinality(A) \in Nat /\ Cardinality(B) \in Nat
  BY <1>1, <1>2, FS_CardinalityType
<1>. QED
  BY <1>2, <1>3

\* The bound on the sockets that follows from the invariant.
LEMMA LimitFollows == PoolInv => WithinMaxActive
<1>. SUFFICES ASSUME PoolInv, MaxActive > 0
              PROVE  Cardinality(open) + Cardinality({g \in Threads : at[g] = "dial"})
                        =< MaxActive
  BY DEF WithinMaxActive
<1>. DEFINE dialing == {g \in Threads : at[g] = "dial"}
            holding == {g \in Threads : at[g] \in HoldingAt}
            held == {conn[g] : g \in holding}
<1>1. /\ TypeOK /\ ConnInv /\ ActiveMatches /\ SocketInv
      /\ MaxActive \in Nat /\ active \in Int
      /\ Len(idle) \in Nat /\ Len(detached) \in Nat
  BY PoolAssumption, LenProperties DEF PoolInv, TypeOK
<1>2. open \subseteq (Range(idle) \cup Range(detached)) \cup held
  <2>. SUFFICES ASSUME NEW c \in open, NEW g \in Threads, c = conn[g]
                PROVE  g \in holding
    BY <1>1, OpenPlaces
  <2>. QED
    BY <1>1 DEF ConnInv, TypeOK
<1>3. /\ IsFiniteSet(Range(idle)) /\ IsFiniteSet(Range(detached))
      /\ Cardinality(Range(idle)) \in Nat /\ Cardinality(Range(detached)) \in Nat
      /\ Cardinality(Range(idle)) =< Len(idle)
      /\ Cardinality(Range(detached)) =< Len(detached)
  BY <1>1, RangeBound DEF TypeOK
<1>4. /\ IsFiniteSet(held) /\ Cardinality(held) \in Nat
      /\ Cardinality(held) =< Cardinality(holding)
  BY HeldBound
<1>5. /\ IsFiniteSet(dialing) /\ IsFiniteSet(holding) /\ IsFiniteSet(Counted)
      /\ Cardinality(dialing) \in Nat /\ Cardinality(holding) \in Nat
      /\ Cardinality(Counted) \in Nat
  BY PoolAssumption, FS_Subset, FS_CardinalityType DEF Counted
<1>6. Cardinality(holding) + Cardinality(dialing) =< Cardinality(Counted)
  <2>1. dialing \cap holding = {} /\ dialing \cup holding \subseteq Counted
    BY DEF Counted, CountedAt, HoldingAt
  <2>. HIDE DEF dialing, holding
  <2>2. Cardinality(holding \cup dialing)
           = Cardinality(holding) + Cardinality(dialing) - Cardinality({})
    BY <1>5, <2>1, FS_Union
  <2>3. Cardinality(holding \cup dialing) =< Cardinality(Counted)
    BY <1>5, <2>1, FS_Subset
  <2>. QED
    BY <1>5, <2>2, <2>3, FS_EmptySet
<1>. HIDE DEF dialing, holding, held
<1>7. /\ IsFiniteSet(Range(idle) \cup Range(detached))
      /\ Cardinality(Range(idle) \cup Range(detached)) =< Len(idle) + Len(detached)
  BY <1>1, <1>3, UnionBound
<1>8. /\ IsFiniteSet((Range(idle) \cup Range(detached)) \cup held)
      /\ Cardinality((Range(idle) \cup Range(detached)) \cup held) \in Nat
      /\ Cardinality((Range(idle) \cup Range(detached)) \cup held)
            =< (Len(idle) + Len(detached)) + Cardinality(holding)
  <2>1. Len(idle) + Len(detached) \in Nat
    BY <1>1
  <2>. QED
    BY <1>4, <1>5, <1>7, <2>1, UnionBound
<1>9. /\ Cardinality(open) \in Nat
      /\ Cardinality(open) =< Cardinality((Range(idle) \cup Range(detached)) \cup held)
  BY <1>2, <1>8, FS_Subset, FS_CardinalityType
<1>10. active + Len(detached) =< MaxActive
  BY <1>1 DEF SocketInv
<1>11. active = Len(idle) + Cardinality(Counted)
  BY <1>1 DEF ActiveMatches
<1>12. Cardinality(open) + Cardinality(dialing) =< MaxActive
  BY <1>1, <1>5, <1>6, <1>8, <1>9, <1>10, <1>11
<1>. QED
  BY <1>12 DEF dialing

\* With MaxActive set the pool never has more than MaxActive sockets open or being
\* dialled, whether the limit is enforced by p.active (Wait false) or by the
\* values in p.ch (Wait true), and however Get, put and Pool.Close interleave.
THEOREM LimitKept == Spec => []WithinMaxActive
BY PoolInvariant, LimitFollows, PTL

-----------------------------------------------------------------------------
\* What the parts say together of a pool that is waited for, and of one that was closed.

\* A Get that waits on p.ch finds a value or the closed channel, or somebody has a value
\* to give back: a wait that nobody could end does not arise.
SomebodyOwesAValue ==
    \A g \in Threads :
       at[g] = "recv" => chClosed \/ tokens > 0 \/ \E h \in Threads : at[h] \in TokenAt

THEOREM WaitsForSomebody == Spec => []SomebodyOwesAValue
<1>1. PoolInv => SomebodyOwesAValue
  <2>. SUFFICES ASSUME PoolInv, NEW g \in Threads, at[g] = "recv", ~chClosed,
                       \A h \in Threads : at[h] \notin TokenAt
                PROVE  tokens > 0
    BY DEF SomebodyOwesAValue
  <2>1. Limited /\ chInitialized /\ ~closed
    BY DEF PoolInv, ChannelInv
  <2>2. tokens + Cardinality(TokenHolders) = MaxActive /\ tokens \in Nat
    BY <2>1 DEF PoolInv, TokenConservation, TypeOK
  <2>3. TokenHolders = {}
    BY DEF TokenHolders
  <2>4. Cardinality(TokenHolders) = 0
    BY <2>3, FS_EmptySet
  <2>5. MaxActive > 0
    BY <2>1 DEF Limited
  <2>. QED
    BY <2>2, <2>4, <2>5
<1>. QED
  BY <1>1, PoolInvariant, PTL

\* A closed pool of which no goroutine has a connection or a dial under way, and whose
\* list Pool.Close has gone through, has no socket open and counts none.
ClosedLeavesNothing ==
    closed /\ detached = <<>> /\ Counted = {} => open = {} /\ active = 0

THEOREM NothingLeft == Spec => []ClosedLeavesNothing
<1>1. PoolInv => ClosedLeavesNothing
  <2>. SUFFICES ASSUME PoolInv, closed, detached = <<>>, Counted = {}
                PROVE  open = {} /\ active = 0
    BY DEF ClosedLeavesNothing
  <2>1. /\ idle = <<>> /\ open \subseteq Conns /\ active = Len(idle) + Cardinality(Counted)
        /\ open \subseteq Range(idle) \cup Range(detached) \cup {conn[g] : g \in Threads}
    BY DEF PoolInv, SocketInv, ActiveMatches, TypeOK
  <2>2. Len(idle) = 0 /\ Cardinality(Counted) = 0
    BY <2>1, FS_EmptySet
  <2>3. Range(idle) = {} /\ Range(detached) = {}
    BY <2>1, EmptySeq DEF Range
  <2>4. \A g \in Threads : conn[g] \notin Conns
    BY DEF PoolInv, ConnInv, Counted, CountedAt
  <2>5. open = {}
    BY <2>1, <2>3, <2>4
  <2>. QED
    BY <2>1, <2>2, <2>5
<1>. QED
  BY <1>1, PoolInvariant, PTL
=============================================================================
