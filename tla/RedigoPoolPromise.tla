-------------------------- MODULE RedigoPoolPromise --------------------------
(***************************************************************************)
(* Proof that the redigo pool implements the abstract pool ConnPool, and   *)
(* of what that rests on: a socket is in one place (ExclusiveConn), none   *)
(* is lost or dead (NoSocketLostOrDead), and the idle list is ordered by   *)
(* the time of return (IdleNewestFirst).  Each step moves at most one      *)
(* socket, between a list and a goroutine or to and from the closed ones,  *)
(* except Pool.Close, which takes the idle list as it is: the first part   *)
(* says what each move does to the lists, the second that it keeps         *)
(* PlaceInv, the last one which step of ConnPool it is.                    *)
(***************************************************************************)
EXTENDS RedigoPoolProofs

-----------------------------------------------------------------------------
\* What the list operations do to a list without repetitions, and to its order.
Ordered(s, f) == \A i, j \in DOMAIN s : i < j => f[s[i]] =< f[s[j]]

LEMMA TookLast ==
    ASSUME NEW s \in Seq(Conns), s # <<>>, IsInjective(s)
    PROVE  /\ Last(s) \in Conns /\ Last(s) \in Range(s)
           /\ Front(s) \in Seq(Conns) /\ IsInjective(Front(s))
           /\ Range(Front(s)) = Range(s) \ {Last(s)}
           /\ \A f : Ordered(s, f) => Ordered(Front(s), f)
<1>1. PICK n \in Nat : Len(s) = n + 1
  <2>1. Len(s) \in Nat \ {0}
    BY EmptySeq, LenProperties
  <2>. QED
    BY <2>1
<1>. DEFINE r == Front(s)
<1>2. /\ r \in Seq(Conns) /\ Last(s) \in Conns /\ Last(s) = s[n + 1]
      /\ DOMAIN s = 1..n + 1
      /\ Range(s) = Range(r) \cup {Last(s)}
  BY <1>1, FrontLast, LenProperties, RangeFrontLast DEF Last
<1>3. DOMAIN r = 1..n /\ \A i \in 1..n : r[i] = s[i]
  <2>1. Len(s) - 1 = n
    BY <1>1
  <2>. QED
    BY <2>1, FrontLast, LenProperties
<1>. HIDE DEF r
<1>4. \A i \in 1..n : i \in 1..n + 1 /\ i # n + 1
  OBVIOUS
<1>5. \A a, b \in 1..n + 1 : s[a] = s[b] => a = b
  BY <1>2 DEF IsInjective
<1>6. IsInjective(r)
  BY <1>3, <1>4, <1>5 DEF IsInjective
<1>7. Last(s) \notin Range(r)
  <2>1. n + 1 \in 1..n + 1
    OBVIOUS
  <2>2. \A i \in 1..n : s[i] # s[n + 1]
    BY <1>4, <1>5, <2>1
  <2>. QED
    BY <1>2, <1>3, <2>2 DEF Range
<1>8. ASSUME NEW f, Ordered(s, f) PROVE Ordered(r, f)
  BY <1>2, <1>3, <1>4, <1>8 DEF Ordered
<1>. QED
  BY <1>2, <1>6, <1>7, <1>8 DEF r

LEMMA TookHead ==
    ASSUME NEW s \in Seq(Conns), s # <<>>, IsInjective(s)
    PROVE  /\ Head(s) \in Conns /\ Head(s) \in Range(s)
           /\ Tail(s) \in Seq(Conns) /\ IsInjective(Tail(s))
           /\ Range(Tail(s)) = Range(s) \ {Head(s)}
           /\ \A f : Ordered(s, f) => Ordered(Tail(s), f)
<1>1. PICK n \in Nat : Len(s) = n + 1
  <2>1. Len(s) \in Nat \ {0}
    BY EmptySeq, LenProperties
  <2>. QED
    BY <2>1
<1>. DEFINE r == Tail(s)
<1>2. /\ r \in Seq(Conns) /\ Head(s) \in Conns /\ Head(s) = s[1]
      /\ DOMAIN s = 1..n + 1
      /\ Range(s) = {Head(s)} \cup Range(r)
  BY <1>1, HeadTailProperties, LenProperties, RangeHeadTail
<1>3. DOMAIN r = 1..n /\ \A i \in 1..n : r[i] = s[i + 1]
  <2>1. Len(s) - 1 = n
    BY <1>1
  <2>. QED
    BY <2>1, HeadTailProperties, LenProperties
<1>. HIDE DEF r
<1>4. \A i \in 1..n : i \in Int /\ i + 1 \in 1..n + 1 /\ i + 1 # 1
  OBVIOUS
<1>5. \A a, b \in 1..n + 1 : s[a] = s[b] => a = b
  BY <1>2 DEF IsInjective
<1>6. IsInjective(r)
  <2>1. ASSUME NEW a \in 1..n, NEW b \in 1..n, r[a] = r[b]
        PROVE  a = b
    <3>1. a + 1 = b + 1
      BY <1>3, <1>4, <1>5, <2>1
    <3>. QED
      BY <1>4, <3>1
  <2>. QED
    BY <1>3, <2>1 DEF IsInjective
<1>7. Head(s) \notin Range(r)
  <2>1. 1 \in 1..n + 1
    OBVIOUS
  <2>2. \A i \in 1..n : s[i + 1] # s[1]
    BY <1>4, <1>5, <2>1
  <2>. QED
    BY <1>2, <1>3, <2>2 DEF Range
<1>8. ASSUME NEW f, Ordered(s, f) PROVE Ordered(r, f)
  <2>1. \A i, j \in 1..n : i < j => i + 1 < j + 1
    OBVIOUS
  <2>2. \A i, j \in 1..n + 1 : i < j => f[s[i]] =< f[s[j]]
    BY <1>2, <1>8 DEF Ordered
  <2>3. \A i, j \in 1..n : i < j => f[r[i]] =< f[r[j]]
    BY <1>3, <1>4, <2>1, <2>2
  <2>. QED
    BY <1>3, <2>3 DEF Ordered
<1>. QED
  BY <1>2, <1>6, <1>7, <1>8 DEF r

LEMMA Pushed ==
    ASSUME TypeOK, IsInjective(idle), NEW c \in Conns, c \notin Range(idle)
    PROVE  /\ <<c>> \o idle \in Seq(Conns) /\ <<c>> \o idle # <<>>
           /\ IsInjective(<<c>> \o idle)
           /\ Range(<<c>> \o idle) = Range(idle) \cup {c}
           /\ \A f \in [Conns -> Int] :
                 Ordered(idle, f) /\ (\A d \in Range(idle) : f[c] =< f[d])
                    => Ordered(<<c>> \o idle, f)
<1>. DEFINE u == <<c>>
            p == u \o idle
<1>1. u \in Seq(Conns) /\ idle \in Seq(Conns) /\ Len(u) = 1 /\ u[1] = c
  BY DEF TypeOK
<1>2. /\ Len(idle) \in Nat /\ DOMAIN idle = 1..Len(idle)
      /\ \A i \in 1..Len(idle) : idle[i] \in Conns
  BY <1>1, LenProperties
<1>. HIDE DEF u
<1>3. p \in Seq(Conns) /\ Len(p) = 1 + Len(idle)
  BY <1>1, ConcatProperties
<1>4. \A i \in 1..1 + Len(idle) : p[i] = IF i <= 1 THEN u[i] ELSE idle[i - 1]
  <2>1. \A i \in 1..Len(u) + Len(idle) :
           p[i] = IF i <= Len(u) THEN u[i] ELSE idle[i - Len(u)]
    BY <1>1, ConcatProperties, Zenon
  <2>. QED
    BY <1>1, <2>1, Zenon
<1>. HIDE DEF p
<1>5. DOMAIN p = 1..1 + Len(idle) /\ p # <<>>
  BY <1>2, <1>3, LenProperties, EmptySeq
<1>6. \A i \in 1..1 + Len(idle) :
         /\ i \in Int
         /\ \/ i = 1 /\ p[i] = c
            \/ i > 1 /\ i - 1 \in 1..Len(idle) /\ p[i] = idle[i - 1]
  BY <1>1, <1>2, <1>4
<1>7. \A i \in 1..Len(idle) : idle[i] \in Range(idle)
  BY <1>2 DEF Range
<1>8. IsInjective(p)
  <2>1. ASSUME NEW a \in 1..1 + Len(idle), NEW b \in 1..1 + Len(idle), p[a] = p[b]
        PROVE  a = b
    <3>1. CASE a = 1 \/ b = 1
      BY <1>6, <1>7, <2>1, <3>1
    <3>2. CASE a # 1 /\ b # 1
      <4>1. a - 1 = b - 1
        BY <1>2, <1>6, <2>1, <3>2 DEF IsInjective
      <4>. QED
        BY <1>6, <4>1
    <3>. QED
      BY <3>1, <3>2
  <2>. QED
    BY <1>5, <2>1 DEF IsInjective
<1>9. ASSUME NEW f \in [Conns -> Int], Ordered(idle, f),
             \A d \in Range(idle) : f[c] =< f[d]
      PROVE  Ordered(p, f)
  <2>1. ASSUME NEW i \in 1..1 + Len(idle), NEW j \in 1..1 + Len(idle), i < j
        PROVE  f[p[i]] =< f[p[j]]
    <3>1. j > 1 /\ j - 1 \in 1..Len(idle) /\ p[j] = idle[j - 1]
      BY <1>6, <2>1
    <3>2. CASE i = 1
      BY <1>6, <1>7, <1>9, <3>1, <3>2
    <3>3. CASE i # 1
      <4>1. i - 1 \in 1..Len(idle) /\ p[i] = idle[i - 1] /\ i - 1 < j - 1
        BY <1>6, <2>1, <3>3
      <4>. QED
        BY <1>2, <1>9, <3>1, <4>1 DEF Ordered
    <3>. QED
      BY <3>2, <3>3
  <2>. QED
    BY <1>5, <2>1 DEF Ordered
<1>10. Range(p) = Range(idle) \cup {c}
  BY RangePushed DEF p, u
<1>. QED
  BY <1>3, <1>5, <1>8, <1>9, <1>10 DEF p, u

\* A list of one socket or none keeps its order whatever is measured, and so does a
\* list when nothing changes for the sockets in it.
LEMMA OrderedEmpty == \A f : Ordered(<<>>, f)
BY EmptySeq DEF Ordered

LEMMA OrderedSame ==
    ASSUME NEW s \in Seq(Conns), NEW f, NEW h, Ordered(s, f),
           \A c \in Range(s) : h[c] = f[c]
    PROVE  Ordered(s, h)
<1>1. \A i \in DOMAIN s : s[i] \in Range(s)
  BY DEF Range
<1>. QED
  BY <1>1 DEF Ordered

-----------------------------------------------------------------------------
\* The moves of get, as the proofs below need them: it takes a connection from the
\* idle list, or leaves the lists alone.
LEMMA PruneOrTakeLists ==
    ASSUME TypeOK, PlaceInv, NEW g \in Threads, NEW act \in Int, NEW n \in Nat,
           PruneOrTake(g, act, n)
    PROVE  \/ \E c \in Conns, l \in {"prune", "test"} :
                 /\ c \in Range(idle) /\ Hold(g, c) /\ Goto(g, l)
                 /\ IsInjective(idle') /\ Range(idle') = Range(idle) \ {c}
                 /\ \A f : Ordered(idle, f) => Ordered(idle', f)
           \/ UNCHANGED <<idle, conn>> /\ Goto(g, "out")
           \/ UNCHANGED <<idle, conn>> /\ Goto(g, "dial") /\ ~closed
<1>. idle \in Seq(Conns) /\ IsInjective(idle)
  BY DEF TypeOK, PlaceInv
<1>1. CASE PruneBack(g, n)
  BY <1>1, TookLast DEF PruneBack, MayPrune
<1>2. CASE TakeFront(g, act)
  BY <1>2, TookHead DEF TakeFront
<1>3. CASE Refuse(g, act) \/ Reserve(g, act)
  BY <1>3 DEF Refuse, Reserve
<1>. QED
  BY <1>1, <1>2, <1>3 DEF PruneOrTake, TakeOrDial

\* The three places where get goes on, as one.
LEMMA TurnsOfGet ==
    ASSUME TypeOK, NEW g \in Threads, GetLocked(g) \/ Pruned(g) \/ Rejected(g)
    PROVE  \E act \in Int, n \in Nat : PruneOrTake(g, act, n)
<1>a. active \in Int /\ active - 1 \in Int /\ Len(idle) \in Nat /\ budget[g] \in Nat
  BY LenProperties DEF TypeOK
<1>1. CASE GetLocked(g)
  <2>. DEFINE n == IF IdleTimeout > 0 THEN Len(idle) ELSE 0
  <2>1. n \in Nat
    BY <1>a
  <2>2. PruneOrTake(g, active, n)
    BY <1>1 DEF GetLocked
  <2>. HIDE DEF n
  <2>. QED
    BY <1>a, <2>1, <2>2
<1>2. CASE Pruned(g)
  BY <1>a, <1>2 DEF Pruned
<1>3. CASE Rejected(g)
  <2>1. PruneOrTake(g, active - 1, 0)
    BY <1>3 DEF Rejected, PruneOrTake, MayPrune
  <2>. QED
    BY <1>a, <2>1
<1>. QED
  BY <1>1, <1>2, <1>3

\* put stores the connection, and takes out the oldest one when there are too many:
\* the same one when none is kept.
LEMMA PutIdleLists ==
    ASSUME TypeOK, PlaceInv, NEW g \in Threads, conn[g] \in Conns, NEW force,
           PutIdle(g, force)
    PROVE  /\ ~closed /\ IsInjective(idle')
           /\ \/ /\ Hold(g, NoConn) /\ Release(g)
                 /\ Range(idle') = Range(idle) \cup {conn[g]}
              \/ \E d \in Conns :
                    /\ Hold(g, d) /\ Goto(g, "evict")
                    /\ d \in Range(idle) \cup {conn[g]}
                    /\ Range(idle') = (Range(idle) \cup {conn[g]}) \ {d}
           /\ \A f \in [Conns -> Int] :
                 Ordered(idle, f) /\ (\A d \in Range(idle) : f[conn[g]] =< f[d])
                    => Ordered(idle', f)
<1>. DEFINE p == <<conn[g]>> \o idle
<1>1. conn[g] \notin Range(idle) /\ IsInjective(idle)
  BY DEF PlaceInv
<1>2. /\ p \in Seq(Conns) /\ p # <<>> /\ IsInjective(p)
      /\ Range(p) = Range(idle) \cup {conn[g]}
      /\ \A f \in [Conns -> Int] :
            Ordered(idle, f) /\ (\A d \in Range(idle) : f[conn[g]] =< f[d])
               => Ordered(p, f)
  BY <1>1, Pushed
<1>3. /\ ~closed
      /\ \/ idle' = Front(p) /\ Hold(g, Last(p)) /\ Goto(g, "evict")
         \/ idle' = p /\ Hold(g, NoConn) /\ Release(g)
  BY DEF PutIdle
<1>. HIDE DEF p
<1>. QED
  BY <1>2, <1>3, TookLast

\* What is in the hands of goroutines, when one of them exchanges what it holds.
InHand == {conn[g] : g \in Threads} \ {NoConn}

LEMMA HandMoves ==
    ASSUME TypeOK, PlaceInv, NEW g \in Threads, NEW c \in Conns \cup {NoConn}, Hold(g, c)
    PROVE  /\ InHand' = (InHand \ {conn[g]}) \cup ({c} \ {NoConn})
           /\ conn'[g] = c /\ \A h \in Threads \ {g} : conn'[h] = conn[h]
<1>1. conn'[g] = c /\ \A h \in Threads \ {g} : conn'[h] = conn[h]
  BY DEF Hold, TypeOK
<1>2. \A h \in Threads \ {g} : conn[h] # NoConn => conn[h] # conn[g]
  BY DEF PlaceInv
<1>. QED
  BY <1>1, <1>2 DEF InHand

\* PlaceInv after a step that moves sockets between the lists and one goroutine.
LEMMA PlacesKept ==
    ASSUME TypeOK, PlaceInv, NEW g \in Threads, NEW c \in Conns \cup {NoConn}, Hold(g, c),
           IsInjective(idle'), detached' = detached,
           c \notin Range(idle') \cup Range(detached),
           \A h \in Threads \ {g} : conn[h] = NoConn \/ conn[h] # c,
           \A h \in Threads \ {g} : conn[h] \notin Range(idle'),
           open' = Range(idle') \cup Range(detached) \cup (InHand \ {conn[g]})
                     \cup ({c} \ {NoConn})
    PROVE  PlaceInv'
<1>1. /\ InHand' = (InHand \ {conn[g]}) \cup ({c} \ {NoConn})
      /\ conn'[g] = c /\ \A h \in Threads \ {g} : conn'[h] = conn[h]
  BY HandMoves
<1>2. open' = Range(idle') \cup Range(detached') \cup InHand'
  BY <1>1
<1>3. IsInjective(detached')
  BY DEF PlaceInv
<1>4. \A h \in Threads : conn'[h] \notin Range(idle') \cup Range(detached')
  BY <1>1 DEF PlaceInv
<1>5. ASSUME NEW h \in Threads, NEW i \in Threads \ {h}, conn'[h] = conn'[i]
      PROVE  conn'[h] = NoConn
  BY <1>1, <1>5 DEF PlaceInv
<1>. QED
  BY <1>2, <1>3, <1>4, <1>5 DEF PlaceInv, InHand

\* PlaceInv after a step that moves no socket.
LEMMA PlacesStay ==
    PlaceInv /\ UNCHANGED <<idle, detached, conn, open>> => PlaceInv'
BY DEF PlaceInv

LEMMA PruneOrTakePlaces ==
    ASSUME TypeOK, PlaceInv, NEW g \in Threads, NEW act \in Int, NEW n \in Nat,
           PruneOrTake(g, act, n), conn[g] = NoConn, UNCHANGED <<detached, open>>,
           closed => idle = <<>>, ~closed => detached = <<>>
    PROVE  PlaceInv'
<1>1. ASSUME NEW c \in Conns, c \in Range(idle), Hold(g, c), IsInjective(idle'),
             Range(idle') = Range(idle) \ {c}
      PROVE  PlaceInv'
  <2>1. c \notin Range(detached)
    <3>1. Range(<<>>) = {}
      BY EmptySeq DEF Range
    <3>. QED
      BY <1>1, <3>1
  <2>2. \A h \in Threads : conn[h] # c /\ conn[h] \notin Range(idle')
    BY <1>1 DEF PlaceInv
  <2>3. open = Range(idle) \cup Range(detached) \cup InHand /\ NoConn \notin InHand
    BY DEF PlaceInv, InHand
  <2>4. c # NoConn
    BY PoolAssumption
  <2>5. open' = Range(idle') \cup Range(detached) \cup (InHand \ {conn[g]})
                  \cup ({c} \ {NoConn})
    BY <1>1, <2>3, <2>4
  <2>. QED
    BY <1>1, <2>1, <2>2, <2>5, PlacesKept
<1>. QED
  BY <1>1, PruneOrTakeLists, PlacesStay

LEMMA PutIdlePlaces ==
    ASSUME TypeOK, PlaceInv, NEW g \in Threads, conn[g] \in Conns, NEW force,
           PutIdle(g, force), ~closed => detached = <<>>, UNCHANGED <<detached, open>>
    PROVE  PlaceInv'
<1>1. /\ IsInjective(idle') /\ ~closed
      /\ \E d \in Conns \cup {NoConn} :
            /\ Hold(g, d)
            /\ d \in Range(idle) \cup {conn[g], NoConn}
            /\ Range(idle') = (Range(idle) \cup {conn[g]}) \ {d}
  <2>1. NoConn \notin Range(idle) \cup {conn[g]}
    BY PoolAssumption DEF TypeOK, Range
  <2>. QED
    BY <2>1, PutIdleLists
<1>2. PICK d \in Conns \cup {NoConn} :
            /\ Hold(g, d)
            /\ d \in Range(idle) \cup {conn[g], NoConn}
            /\ Range(idle') = (Range(idle) \cup {conn[g]}) \ {d}
  BY <1>1
<1>3. Range(detached) = {}
  BY <1>1, EmptySeq DEF Range
<1>4. \A h \in Threads \ {g} : /\ conn[h] \notin Range(idle) \cup {conn[g]}
                               /\ conn[h] = NoConn \/ conn[h] # d
  BY <1>2, PoolAssumption DEF PlaceInv
<1>5. open = Range(idle) \cup Range(detached) \cup InHand /\ conn[g] \in InHand
  BY PoolAssumption DEF PlaceInv, InHand
<1>6. NoConn \notin Range(idle) \cup InHand
  BY PoolAssumption DEF TypeOK, Range, InHand
<1>7. d \notin Range(idle') \cup Range(detached)
  BY <1>2, <1>3
<1>8. open' = Range(idle') \cup Range(detached) \cup (InHand \ {conn[g]})
                \cup ({d} \ {NoConn})
  BY <1>2, <1>5, <1>6
<1>9. \A h \in Threads \ {g} : conn[h] \notin Range(idle')
  BY <1>2, <1>4
<1>. QED
  BY <1>1, <1>2, <1>4, <1>7, <1>8, <1>9, PlacesKept

\* A socket that is closed, by the goroutine that holds it or by Pool.Close, was in
\* one place only, and leaves it.
LEMMA CloseSocketPlaces ==
    ASSUME TypeOK, PlaceInv, NEW g \in Threads, CloseSocket(g),
           UNCHANGED <<idle, detached>>
    PROVE  PlaceInv'
<1>1. Hold(g, NoConn) /\ open' = open \ {conn[g]}
  BY DEF CloseSocket
<1>2. NoConn \notin Range(idle) \cup Range(detached)
  BY PoolAssumption DEF TypeOK, Range
<1>3. /\ open = Range(idle) \cup Range(detached) \cup InHand
      /\ conn[g] \notin Range(idle) \cup Range(detached)
      /\ \A h \in Threads \ {g} : conn[h] \notin Range(idle)
      /\ IsInjective(idle)
  BY DEF PlaceInv, InHand
<1>4. open' = Range(idle') \cup Range(detached) \cup (InHand \ {conn[g]})
                \cup ({NoConn} \ {NoConn})
  BY <1>1, <1>3
<1>. QED
  BY <1>1, <1>2, <1>3, <1>4, PlacesKept

LEMMA CloseDetachedPlaces ==
    ASSUME TypeOK, PlaceInv, closed => idle = <<>>, ~closed => detached = <<>>,
           NEW g \in Threads, CloseDetached(g)
    PROVE  PlaceInv'
<1>1. CASE detached = <<>>
  BY <1>1, PlacesStay DEF CloseDetached
<1>2. CASE detached # <<>>
  <2>1. /\ open' = open \ {Head(detached)} /\ detached' = Tail(detached)
        /\ UNCHANGED <<idle, conn>>
    BY <1>2 DEF CloseDetached
  <2>2. /\ Head(detached) \in Range(detached) /\ IsInjective(Tail(detached))
        /\ Head(detached) \in Conns
        /\ Range(Tail(detached)) = Range(detached) \ {Head(detached)}
    BY <1>2, TookHead DEF TypeOK, PlaceInv
  <2>3. Range(idle) = {}
    BY <1>2, EmptySeq DEF Range
  <2>4. Head(detached) \notin InHand
    BY <2>2 DEF PlaceInv, InHand
  <2>5. open' = Range(idle') \cup Range(detached') \cup InHand'
    BY <2>1, <2>2, <2>3, <2>4 DEF PlaceInv, InHand
  <2>6. \A h \in Threads : conn'[h] \notin Range(idle') \cup Range(detached')
    BY <2>1, <2>2 DEF PlaceInv
  <2>. QED
    BY <2>1, <2>2, <2>5, <2>6 DEF PlaceInv, InHand
<1>. QED
  BY <1>1, <1>2

\* Every step keeps each socket in one place.
LEMMA PlaceInvStep == PoolInv /\ PlaceInv /\ [Next]_vars => PlaceInv'
<1>. SUFFICES ASSUME PoolInv, PlaceInv, [Next]_vars
              PROVE  PlaceInv'
  OBVIOUS
<1>a. /\ TypeOK /\ ConnInv /\ TypeInv
      /\ closed => idle = <<>>
      /\ ~closed => detached = <<>>
  BY DEF PoolInv, TypeInv, SocketInv
<1>1. ASSUME NEW g \in Threads,
             \/ GetStart(g) \/ LazyInit(g) \/ Acquire(g) \/ Borrow(g) \/ Send(g)
             \/ DialFail(g) \/ Evicted(g)
      PROVE  PlaceInv'
  BY <1>1, PlacesStay DEF GetStart, LazyInit, Acquire, Borrow, Send, DialFail, Evicted
<1>2. ASSUME NEW g \in Threads, GetLocked(g) \/ Pruned(g) \/ Rejected(g)
      PROVE  PlaceInv'
  <2>1. conn[g] = NoConn /\ UNCHANGED <<detached, open>>
    BY <1>2, <1>a, NoConnElsewhere DEF GetLocked, Pruned, Rejected, HoldingAt
  <2>2. \E act \in Int, n \in Nat : PruneOrTake(g, act, n)
    BY <1>2, <1>a, TurnsOfGet
  <2>. QED
    BY <1>a, <2>1, <2>2, PruneOrTakePlaces
<1>3. ASSUME NEW g \in Threads, ClosePruned(g) \/ Reject(g) \/ CloseEvicted(g)
      PROVE  PlaceInv'
  BY <1>3, <1>a, CloseSocketPlaces DEF ClosePruned, Reject, CloseEvicted
<1>4. ASSUME NEW g \in Threads, DialOk(g)
      PROVE  PlaceInv'
  <2>1. PICK c \in Conns \ open : open' = open \cup {c} /\ Hold(g, c)
    BY <1>4 DEF DialOk
  <2>2. conn[g] = NoConn /\ UNCHANGED <<idle, detached>>
    BY <1>4, <1>a, NoConnElsewhere DEF DialOk, HoldingAt
  <2>3. /\ open = Range(idle) \cup Range(detached) \cup InHand
        /\ IsInjective(idle) /\ NoConn \notin InHand
        /\ \A h \in Threads : conn[h] \notin Range(idle)
    BY DEF PlaceInv, InHand
  <2>4. \A h \in Threads : conn[h] = NoConn \/ conn[h] # c
    BY <2>3 DEF InHand
  <2>5. open' = Range(idle') \cup Range(detached) \cup (InHand \ {conn[g]})
                  \cup ({c} \ {NoConn})
    BY <2>1, <2>2, <2>3, PoolAssumption
  <2>. QED
    BY <1>a, <2>1, <2>2, <2>3, <2>4, <2>5, PlacesKept
<1>5. ASSUME NEW g \in Threads, NEW force \in BOOLEAN, Put(g, force)
      PROVE  PlaceInv'
  <2>1. CASE PutClose(g, force)
    BY <1>5, <2>1, PlacesStay DEF Put, PutClose
  <2>2. CASE PutIdle(g, force)
    BY <1>5, <1>a, <2>2, PutIdlePlaces DEF Put, ConnInv, HoldingAt
  <2>. QED
    BY <1>5, <2>1, <2>2 DEF Put
<1>6. ASSUME NEW g \in Threads, PoolClose(g)
      PROVE  PlaceInv'
  <2>1. /\ detached = <<>> /\ detached' = idle /\ idle' = <<>>
        /\ UNCHANGED <<conn, open>>
    BY <1>6, <1>a DEF PoolClose
  <2>2. Range(<<>>) = {} /\ IsInjective(<<>>)
    BY EmptySeq DEF Range, IsInjective
  <2>. QED
    BY <2>1, <2>2 DEF PlaceInv
<1>7. ASSUME NEW g \in Threads, CloseDetached(g)
      PROVE  PlaceInv'
  BY <1>7, <1>a, CloseDetachedPlaces
<1>8. CASE Tick \/ UNCHANGED vars
  BY <1>8, PlacesStay DEF Tick, vars
<1>. QED
  BY <1>1, <1>2, <1>3, <1>4, <1>5, <1>6, <1>7, <1>8 DEF Next, Progress

\* One goroutine at most closes what Pool.Close took: the closed flag is set before.
LEMMA ShutInvStep == TypeOK /\ ShutInv /\ [Next]_vars => ShutInv'
<1>. SUFFICES ASSUME TypeOK, ShutInv, [Next]_vars
              PROVE  ShutInv'
  OBVIOUS
<1>1. ASSUME NEW g \in Threads, NEW l \in Locations \ {"shut"}, Goto(g, l),
             closed' = closed
      PROVE  ShutInv'
  BY <1>1 DEF TypeOK, ShutInv, Goto
<1>2. ASSUME NEW g \in Threads,
             \/ GetStart(g) \/ LazyInit(g) \/ Acquire(g) \/ Borrow(g) \/ Send(g)
             \/ ClosePruned(g) \/ Reject(g) \/ CloseEvicted(g) \/ DialOk(g)
      PROVE  ShutInv'
  BY <1>1, <1>2 DEF GetStart, LazyInit, Acquire, Borrow, Send, ClosePruned, Reject,
     CloseEvicted, DialOk, Locations
<1>3. ASSUME NEW g \in Threads, GetLocked(g) \/ Pruned(g) \/ Rejected(g)
      PROVE  ShutInv'
  <2>1. closed' = closed
    BY <1>3 DEF GetLocked, Pruned, Rejected
  <2>2. \E l \in {"prune", "test", "out", "dial"} : Goto(g, l)
    BY <1>3 DEF GetLocked, Pruned, Rejected, PruneOrTake, TakeOrDial, PruneBack,
       TakeFront, Refuse, Reserve
  <2>. QED
    BY <1>1, <2>1, <2>2 DEF Locations
<1>4. ASSUME NEW g \in Threads, DialFail(g) \/ Evicted(g)
      PROVE  ShutInv'
  BY <1>1, <1>4 DEF DialFail, Evicted, Release, Locations
<1>5. ASSUME NEW g \in Threads, NEW force \in BOOLEAN, Put(g, force)
      PROVE  ShutInv'
  <2>1. closed' = closed
    BY <1>5 DEF Put
  <2>2. \E l \in {"evict", "send", "out"} : Goto(g, l)
    BY <1>5 DEF Put, PutClose, PutIdle, Release
  <2>. QED
    BY <1>1, <2>1, <2>2 DEF Locations
<1>6. ASSUME NEW g \in Threads, PoolClose(g)
      PROVE  ShutInv'
  BY <1>6 DEF PoolClose, TypeOK, ShutInv, Goto
<1>7. ASSUME NEW g \in Threads, CloseDetached(g)
      PROVE  ShutInv'
  BY <1>7 DEF CloseDetached, TypeOK, ShutInv, Goto
<1>8. CASE Tick \/ UNCHANGED vars
  BY <1>8 DEF Tick, vars, ShutInv
<1>. QED
  BY <1>2, <1>3, <1>4, <1>5, <1>6, <1>7, <1>8 DEF Next, Progress

\* The two hold of a new pool, and always.
LEMMA PlaceInvariant == Spec => [](PoolInv /\ PlaceInv /\ ShutInv)
<1>1. Init => PlaceInv /\ ShutInv
  <2>. SUFFICES ASSUME Init PROVE PlaceInv /\ ShutInv
    OBVIOUS
  <2>1. idle = <<>> /\ detached = <<>> /\ Range(<<>>) = {} /\ IsInjective(<<>>)
    BY EmptySeq DEF Init, Range, IsInjective
  <2>2. /\ \A g \in Threads : conn[g] = NoConn /\ at[g] = "out"
        /\ open = {}
    BY DEF Init
  <2>. QED
    BY <2>1, <2>2 DEF PlaceInv, ShutInv
<1>2. PoolInv /\ PlaceInv /\ ShutInv /\ [Next]_vars => PlaceInv' /\ ShutInv'
  BY PlaceInvStep, ShutInvStep DEF PoolInv
<1>. QED
  BY <1>1, <1>2, PoolInvariant, PTL DEF Spec

\* One of the two lists is always empty, so that the two together are one of them.
LEMMA ListsTogether ==
    ASSUME PoolInv, PlaceInv
    PROVE  /\ IsInjective(idle \o detached)
           /\ ToSet(idle \o detached) = Range(idle) \cup Range(detached)
<1>1. /\ idle \in Seq(Conns) /\ detached \in Seq(Conns)
      /\ idle = <<>> \/ detached = <<>>
      /\ IsInjective(idle) /\ IsInjective(detached)
  BY DEF PoolInv, TypeOK, SocketInv, PlaceInv
<1>2. Range(<<>>) = {}
  BY EmptySeq DEF Range
<1>3. \A s : ToSet(s) = Range(s)
  BY DEF ToSet, Range
<1>4. CASE idle = <<>>
  <2>1. idle \o detached = detached
    BY <1>1, <1>4, ConcatEmptySeq
  <2>. QED
    BY <1>1, <1>2, <1>3, <1>4, <2>1
<1>5. CASE detached = <<>>
  <2>1. idle \o detached = idle
    BY <1>1, <1>5, ConcatEmptySeq
  <2>. QED
    BY <1>1, <1>2, <1>3, <1>5, <2>1
<1>. QED
  BY <1>1, <1>4, <1>5

\* No socket is in two places: twice on a list, on a list and with a goroutine, or
\* with two goroutines, which would read each other's replies.
THEOREM ConnExclusive == Spec => []ExclusiveConn
<1>1. PoolInv /\ PlaceInv => ExclusiveConn
  BY ListsTogether DEF ExclusiveConn, PlaceInv
<1>. QED
  BY <1>1, PlaceInvariant, PTL

\* The open sockets are the ones on the lists and in the hands of goroutines: Get
\* never returns a socket that was closed, and none is left open and unreachable.
THEOREM NoneLostOrDead == Spec => []NoSocketLostOrDead
<1>1. PoolInv /\ PlaceInv => NoSocketLostOrDead
  BY ListsTogether DEF NoSocketLostOrDead, PlaceInv
<1>. QED
  BY <1>1, PlaceInvariant, PTL

-----------------------------------------------------------------------------
\* The order of the idle list.  Time passes for all idle connections alike, the cap on
\* an age included.
LEMMA OlderMonotone ==
    ASSUME NEW cap \in Nat, NEW m \in 0..cap, NEW n \in 0..cap, m =< n
    PROVE  Older(m, cap) =< Older(n, cap)
BY DEF Older

LEMMA OrderStep ==
    PoolInv /\ PlaceInv /\ Ordered(idle, idleFor) /\ [Next]_vars => Ordered(idle', idleFor')
<1>. SUFFICES ASSUME PoolInv, PlaceInv, Ordered(idle, idleFor), [Next]_vars
              PROVE  Ordered(idle', idleFor')
  OBVIOUS
<1>a. /\ TypeOK /\ ConnInv
      /\ closed => idle = <<>>
      /\ ~closed => detached = <<>>
  BY DEF PoolInv, SocketInv
<1>b. /\ idle \in Seq(Conns) /\ idleFor \in [Conns -> 0..IdleCap]
      /\ Range(idle) \subseteq Conns
      /\ \A g \in Threads : conn[g] \notin Range(idle)
      /\ \A c \in Conns : idleFor[c] \in 0..IdleCap
  BY <1>a DEF TypeOK, PlaceInv, Range
<1>1. CASE UNCHANGED <<idle, idleFor>>
  BY <1>1
<1>2. ASSUME NEW g \in Threads,
             \/ GetStart(g) \/ LazyInit(g) \/ Acquire(g) \/ Borrow(g) \/ Send(g)
             \/ DialFail(g) \/ Evicted(g) \/ DialOk(g)
      PROVE  Ordered(idle', idleFor')
  BY <1>1, <1>2 DEF GetStart, LazyInit, Acquire, Borrow, Send, DialFail, Evicted,
     DialOk, clocks
<1>3. ASSUME NEW g \in Threads, GetLocked(g) \/ Pruned(g) \/ Rejected(g)
      PROVE  Ordered(idle', idleFor')
  <2>1. idleFor' = idleFor
    BY <1>3 DEF GetLocked, Pruned, Rejected, clocks
  <2>2. \E act \in Int, n \in Nat : PruneOrTake(g, act, n)
    BY <1>3, <1>a, TurnsOfGet
  <2>3. Ordered(idle', idleFor)
    BY <1>a, <2>2, PruneOrTakeLists
  <2>. QED
    BY <2>1, <2>3
<1>4. ASSUME NEW g \in Threads, ClosePruned(g) \/ Reject(g) \/ CloseEvicted(g)
      PROVE  Ordered(idle', idleFor')
  <2>1. idle' = idle /\ idleFor' = [idleFor EXCEPT ![conn[g]] = 0]
    BY <1>4 DEF ClosePruned, Reject, CloseEvicted, CloseSocket
  <2>2. \A c \in Range(idle) : idleFor'[c] = idleFor[c]
    BY <1>b, <2>1
  <2>. QED
    BY <1>b, <2>1, <2>2, OrderedSame
<1>5. ASSUME NEW g \in Threads, NEW force \in BOOLEAN, Put(g, force)
      PROVE  Ordered(idle', idleFor')
  <2>1. CASE PutClose(g, force)
    BY <1>1, <2>1 DEF PutClose
  <2>2. CASE PutIdle(g, force)
    <3>1. conn[g] \in Conns
      BY <1>5, <1>a DEF Put, ConnInv, HoldingAt
    <3>2. idleFor' = [idleFor EXCEPT ![conn[g]] = 0]
      BY <2>2 DEF PutIdle
    <3>3. /\ \A c \in Range(idle) : idleFor'[c] = idleFor[c]
          /\ idleFor'[conn[g]] = 0 /\ IdleCap \in Nat
      BY <1>b, <3>1, <3>2, IdleCapType
    <3>4. Ordered(idle, idleFor')
      BY <1>b, <3>3, OrderedSame
    <3>5. \A d \in Range(idle) : idleFor'[conn[g]] =< idleFor'[d]
      BY <1>b, <3>3
    <3>6. idleFor' \in [Conns -> Int]
      <4>1. 0..IdleCap \subseteq Int /\ 0 \in 0..IdleCap
        BY <3>3
      <4>2. idleFor' \in [Conns -> 0..IdleCap]
        BY <1>b, <3>2, <4>1
      <4>. QED
        BY <4>1, <4>2
    <3>. QED
      BY <1>a, <2>2, <3>1, <3>4, <3>5, <3>6, PutIdleLists
  <2>. QED
    BY <1>5, <2>1, <2>2 DEF Put
<1>6. ASSUME NEW g \in Threads, PoolClose(g)
      PROVE  Ordered(idle', idleFor')
  BY <1>6, OrderedEmpty DEF PoolClose
<1>7. ASSUME NEW g \in Threads, CloseDetached(g)
      PROVE  Ordered(idle', idleFor')
  <2>1. CASE detached = <<>>
    BY <1>1, <1>7, <2>1 DEF CloseDetached, clocks
  <2>2. CASE detached # <<>>
    <3>1. idle' = <<>>
      BY <1>7, <1>a, <2>2 DEF CloseDetached
    <3>. QED
      BY <3>1, OrderedEmpty
  <2>. QED
    BY <2>1, <2>2
<1>8. CASE Tick
  <2>1. /\ idle' = idle
        /\ \A c \in Range(idle) : idleFor'[c] = Older(idleFor[c], IdleCap)
    BY <1>8, <1>b DEF Tick, ToSet, Range
  <2>2. \A i \in DOMAIN idle : idle[i] \in Range(idle)
    BY DEF Range
  <2>3. ASSUME NEW i \in DOMAIN idle, NEW j \in DOMAIN idle, i < j
        PROVE  idleFor'[idle[i]] =< idleFor'[idle[j]]
    <3>1. /\ idleFor[idle[i]] \in 0..IdleCap /\ idleFor[idle[j]] \in 0..IdleCap
          /\ idleFor[idle[i]] =< idleFor[idle[j]]
      BY <1>b, <2>2, <2>3 DEF Ordered
    <3>. QED
      BY <2>1, <2>2, <3>1, OlderMonotone, IdleCapType
  <2>. QED
    BY <2>1, <2>3 DEF Ordered
<1>9. CASE UNCHANGED vars
  BY <1>1, <1>9 DEF vars, clocks
<1>. QED
  BY <1>2, <1>3, <1>4, <1>5, <1>6, <1>7, <1>8, <1>9 DEF Next, Progress

\* The idle list is ordered by the time of return, newest first: the connection that
\* was idle longest is at the back, the only place where get looks for stale ones.
THEOREM NewestFirst == Spec => []IdleNewestFirst
<1>1. Init => Ordered(idle, idleFor)
  BY OrderedEmpty DEF Init
<1>2. Ordered(idle, idleFor) <=> IdleNewestFirst
  BY DEF Ordered, IdleNewestFirst
<1>3. PoolInv /\ PlaceInv /\ ShutInv /\ IdleNewestFirst /\ [Next]_vars => IdleNewestFirst'
  <2>1. Ordered(idle', idleFor') <=> IdleNewestFirst'
    BY DEF Ordered, IdleNewestFirst
  <2>. QED
    BY <1>2, <2>1, OrderStep
<1>. QED
  BY <1>1, <1>2, <1>3, PlaceInvariant, PTL DEF Spec

-----------------------------------------------------------------------------
\* The refinement: what each goroutine answers for, and who is dialling.
HeldBy(g) ==
    ({conn[g]} \ {NoConn}) \cup (IF at[g] = "shut" THEN ToSet(detached) ELSE {})
Dialing == {g \in Threads : at[g] = "dial"}

\* The variables of ConnPool after a step of a goroutine outside Pool.Close that goes
\* to l with the connection c, the same as before or another.
LEMMA Moved ==
    ASSUME TypeOK, NEW g \in Threads, at[g] # "shut", NEW l \in Locations \ {"shut"},
           Goto(g, l), NEW c \in Conns \cup {NoConn}, Hold(g, c), detached' = detached
    PROVE  /\ HeldBy(g) = {conn[g]} \ {NoConn}
           /\ [h \in Threads |-> HeldBy(h)]' =
                 [[h \in Threads |-> HeldBy(h)] EXCEPT ![g] = {c} \ {NoConn}]
           /\ Dialing' = (Dialing \ {g}) \cup (IF l = "dial" THEN {g} ELSE {})
<1>1. /\ conn'[g] = c /\ at'[g] = l
      /\ \A h \in Threads \ {g} : conn'[h] = conn[h] /\ at'[h] = at[h]
  BY DEF TypeOK, Goto, Hold
<1>2. HeldBy(g) = {conn[g]} \ {NoConn}
  BY DEF HeldBy
<1>3. HeldBy(g)' = {c} \ {NoConn} /\ \A h \in Threads \ {g} : HeldBy(h)' = HeldBy(h)
  BY <1>1 DEF HeldBy
<1>4. Dialing' = (Dialing \ {g}) \cup (IF l = "dial" THEN {g} ELSE {})
  BY <1>1 DEF Dialing
<1>. QED
  BY <1>2, <1>3, <1>4

\* A goroutine whose conn is not assigned holds what it held.
LEMMA HoldsSame ==
    ASSUME TypeOK, NEW g \in Threads, conn' = conn
    PROVE  conn[g] \in Conns \cup {NoConn} /\ Hold(g, conn[g])
BY DEF TypeOK, Hold

LEMMA ListAsSet == \A s : ToSet(s) = Range(s)
BY DEF ToSet, Range

\* A step that moves no connection and is not the beginning or the end of a dial.
LEMMA Stutters ==
    ASSUME TypeOK, NEW g \in Threads, at[g] \notin {"shut", "dial"},
           NEW l \in Locations \ {"shut", "dial"}, Goto(g, l),
           UNCHANGED <<closed, detached, conn>>, Range(idle') = Range(idle)
    PROVE  UNCHANGED Promise!vars
<1>1. /\ [h \in Threads |-> HeldBy(h)]' =
            [[h \in Threads |-> HeldBy(h)] EXCEPT ![g] = {conn[g]} \ {NoConn}]
      /\ HeldBy(g) = {conn[g]} \ {NoConn}
      /\ Dialing' = Dialing \ {g}
  BY HoldsSame, Moved
<1>2. g \notin Dialing
  BY DEF Dialing
<1>3. [h \in Threads |-> HeldBy(h)]' = [h \in Threads |-> HeldBy(h)]
  BY <1>1
<1>. QED
  BY <1>1, <1>2, <1>3, ListAsSet DEF Promise!vars, HeldBy, Dialing

\* Taking a connection from the list.
LEMMA Takes ==
    ASSUME TypeOK, NEW g \in Threads, at[g] \notin {"shut", "dial"}, conn[g] = NoConn,
           NEW l \in {"prune", "test"}, Goto(g, l), NEW c \in Conns, Hold(g, c),
           UNCHANGED <<closed, detached>>,
           c \in Range(idle), Range(idle') = Range(idle) \ {c}
    PROVE  Promise!Take(g, c)
<1>1. /\ [h \in Threads |-> HeldBy(h)]' =
            [[h \in Threads |-> HeldBy(h)] EXCEPT ![g] = {c} \ {NoConn}]
      /\ HeldBy(g) = {conn[g]} \ {NoConn}
      /\ Dialing' = Dialing \ {g}
  BY Moved DEF Locations
<1>2. g \notin Dialing /\ HeldBy(g) \cup {c} = {c} \ {NoConn}
  BY <1>1, PoolAssumption DEF Dialing
<1>3. [h \in Threads |-> HeldBy(h)]' =
         [[h \in Threads |-> HeldBy(h)] EXCEPT ![g] = @ \cup {c}]
  BY <1>1, <1>2
<1>. QED
  BY <1>1, <1>2, <1>3, ListAsSet DEF Promise!Take, HeldBy, Dialing

\* The sockets ConnPool counts are open.
LEMMA LiveIsOpen ==
    ASSUME PoolInv, PlaceInv
    PROVE  /\ Promise!Live \subseteq open
           /\ IsFiniteSet(open)
<1>1. TypeOK /\ open = Range(idle) \cup Range(detached) \cup InHand
  BY DEF PoolInv, PlaceInv, InHand
<1>2. Promise!Live \subseteq open
  BY <1>1, ListAsSet DEF Promise!Live, InHand
<1>3. IsFiniteSet(Range(idle)) /\ IsFiniteSet(Range(detached))
  BY <1>1, RangeBound DEF TypeOK
<1>4. IsFiniteSet({conn[g] : g \in Threads})
  BY HeldBound
<1>5. IsFiniteSet(InHand)
  BY <1>4, FS_Subset DEF InHand
<1>6. IsFiniteSet(Range(idle) \cup Range(detached))
  BY <1>3, FS_Union
<1>7. IsFiniteSet(open)
  BY <1>1, <1>5, <1>6, FS_Union
<1>. QED
  BY <1>2, <1>7

LEMMA SameCardinality == \A S : Promise!Cardinality(S) = Cardinality(S)
BY DEF Promise!Cardinality, Cardinality

\* Beginning a dial: the limit of ConnPool is that of the pool one step later.
LEMMA Reserves ==
    ASSUME PoolInv, PlaceInv, WithinMaxActive', NEW g \in Threads,
           at[g] \notin {"shut", "dial"}, Goto(g, "dial"), ~closed,
           UNCHANGED <<closed, detached, conn, idle, open>>
    PROVE  Promise!Reserve(g)
<1>a. TypeOK
  BY DEF PoolInv
<1>1. /\ [h \in Threads |-> HeldBy(h)]' =
            [[h \in Threads |-> HeldBy(h)] EXCEPT ![g] = {conn[g]} \ {NoConn}]
      /\ HeldBy(g) = {conn[g]} \ {NoConn}
      /\ Dialing' = (Dialing \ {g}) \cup {g}
  BY <1>a, HoldsSame, Moved DEF Locations
<1>2. g \notin Dialing /\ Dialing' = Dialing \cup {g}
  BY <1>1 DEF Dialing
<1>3. [h \in Threads |-> HeldBy(h)]' = [h \in Threads |-> HeldBy(h)]
  BY <1>1
<1>4. ASSUME MaxActive > 0
      PROVE  Cardinality(Promise!Live) + Cardinality(Dialing) < MaxActive
  <2>1. IsFiniteSet(Dialing)
    BY PoolAssumption, FS_Subset DEF Dialing
  <2>2. /\ Cardinality(Dialing) \in Nat
        /\ Cardinality(Dialing') = Cardinality(Dialing) + 1
    BY <1>2, <2>1, FS_AddElement, FS_CardinalityType
  <2>3. /\ IsFiniteSet(open) /\ Cardinality(open) \in Nat
        /\ Cardinality(Promise!Live) \in Nat
        /\ Cardinality(Promise!Live) =< Cardinality(open)
    BY LiveIsOpen, FS_Subset, FS_CardinalityType
  <2>4. Cardinality(open) + Cardinality(Dialing') =< MaxActive
    BY <1>4 DEF WithinMaxActive, Dialing
  <2>. QED
    BY <2>2, <2>3, <2>4, PoolAssumption
<1>5. UNCHANGED <<ToSet(idle), closed>>
  OBVIOUS
<1>6. ~closed
  OBVIOUS
<1>7. MaxActive > 0 =>
         Promise!Cardinality(Promise!Live) + Promise!Cardinality(Dialing) < MaxActive
  BY <1>4, SameCardinality
<1>. QED
  BY <1>2, <1>3, <1>5, <1>6, <1>7 DEF Promise!Reserve, HeldBy, Dialing

\* Closing the socket the goroutine holds.
LEMMA Drops ==
    ASSUME TypeOK, NEW g \in Threads, at[g] \notin {"shut", "dial"},
           NEW c \in Conns, conn[g] = c,
           NEW l \in Locations \ {"shut", "dial"}, Goto(g, l), Hold(g, NoConn),
           UNCHANGED <<closed, detached, idle>>
    PROVE  Promise!Drop(g, c)
<1>1. /\ [h \in Threads |-> HeldBy(h)]' =
            [[h \in Threads |-> HeldBy(h)] EXCEPT ![g] = {NoConn} \ {NoConn}]
      /\ HeldBy(g) = {conn[g]} \ {NoConn}
      /\ Dialing' = Dialing \ {g}
  BY Moved
<1>2. /\ g \notin Dialing /\ HeldBy(g) \ {c} = {NoConn} \ {NoConn}
      /\ c \in HeldBy(g)
  BY <1>1, PoolAssumption DEF Dialing
<1>3. [h \in Threads |-> HeldBy(h)]' =
         [[h \in Threads |-> HeldBy(h)] EXCEPT ![g] = @ \ {c}]
  BY <1>1, <1>2
<1>. QED
  BY <1>1, <1>2, <1>3 DEF Promise!Drop, HeldBy, Dialing

\* The two ends of a dial.
LEMMA Opens ==
    ASSUME PoolInv, PlaceInv, NEW g \in Threads, DialOk(g)
    PROVE  \E c \in Conns : Promise!Open(g, c)
<1>a. TypeOK /\ at[g] = "dial" /\ conn[g] = NoConn
  BY NoConnElsewhere DEF PoolInv, DialOk, TypeInv, HoldingAt
<1>1. PICK c \in Conns \ open : Hold(g, c)
  BY DEF DialOk
<1>2. Goto(g, "use") /\ UNCHANGED <<closed, detached, idle>>
  BY DEF DialOk
<1>3. /\ [h \in Threads |-> HeldBy(h)]' =
            [[h \in Threads |-> HeldBy(h)] EXCEPT ![g] = {c} \ {NoConn}]
      /\ HeldBy(g) = {conn[g]} \ {NoConn}
      /\ Dialing' = Dialing \ {g}
  BY <1>a, <1>1, <1>2, Moved DEF Locations
<1>4. g \in Dialing /\ HeldBy(g) \cup {c} = {c} \ {NoConn}
  BY <1>a, <1>3, PoolAssumption DEF Dialing
<1>5. [h \in Threads |-> HeldBy(h)]' =
         [[h \in Threads |-> HeldBy(h)] EXCEPT ![g] = @ \cup {c}]
  BY <1>3, <1>4
<1>6. c \notin Promise!Live
  BY LiveIsOpen
<1>. QED
  BY <1>2, <1>3, <1>4, <1>5, <1>6 DEF Promise!Open, HeldBy, Dialing

LEMMA Fails ==
    ASSUME TypeOK, NEW g \in Threads, DialFail(g)
    PROVE  Promise!Fail(g)
<1>1. /\ at[g] = "dial" /\ UNCHANGED <<closed, detached, idle, conn>>
      /\ \E l \in {"send", "out"} : Goto(g, l)
  BY DEF DialFail, Release
<1>2. /\ [h \in Threads |-> HeldBy(h)]' =
            [[h \in Threads |-> HeldBy(h)] EXCEPT ![g] = {conn[g]} \ {NoConn}]
      /\ HeldBy(g) = {conn[g]} \ {NoConn}
      /\ Dialing' = Dialing \ {g}
  BY <1>1, HoldsSame, Moved DEF Locations
<1>3. g \in Dialing /\ [h \in Threads |-> HeldBy(h)]' = [h \in Threads |-> HeldBy(h)]
  BY <1>1, <1>2 DEF Dialing
<1>. QED
  BY <1>1, <1>2, <1>3 DEF Promise!Fail, HeldBy, Dialing

\* put when it stores: the pool keeps the connection, or keeps it and gives another, or
\* gives the same back.
LEMMA Gives ==
    ASSUME PoolInv, PlaceInv, NEW g \in Threads, NEW force, Put(g, force),
           PutIdle(g, force), NEW c \in Conns, conn[g] = c
    PROVE  \/ Promise!Give(g, c)
           \/ \E d \in Conns : Promise!Swap(g, c, d)
           \/ UNCHANGED Promise!vars
<1>a. /\ TypeOK /\ at[g] = "use" /\ conn[g] \in Conns
      /\ UNCHANGED <<closed, detached>>
  BY DEF PoolInv, Put, ConnInv, HoldingAt
<1>b. ~closed /\ conn[g] \notin Range(idle) /\ conn[g] # NoConn
  BY <1>a, PoolAssumption DEF PutIdle, PlaceInv
<1>1. CASE Hold(g, NoConn) /\ Release(g) /\ Range(idle') = Range(idle) \cup {conn[g]}
  <2>1. \E l \in {"send", "out"} : Goto(g, l)
    BY <1>1 DEF Release
  <2>2. /\ [h \in Threads |-> HeldBy(h)]' =
              [[h \in Threads |-> HeldBy(h)] EXCEPT ![g] = {NoConn} \ {NoConn}]
        /\ HeldBy(g) = {conn[g]} \ {NoConn}
        /\ Dialing' = Dialing \ {g}
    BY <1>a, <1>1, <2>1, Moved DEF Locations
  <2>3. /\ g \notin Dialing /\ HeldBy(g) \ {c} = {NoConn} \ {NoConn}
        /\ c \in HeldBy(g)
    BY <1>a, <1>b, <2>2 DEF Dialing
  <2>4. [h \in Threads |-> HeldBy(h)]' =
           [[h \in Threads |-> HeldBy(h)] EXCEPT ![g] = @ \ {c}]
    BY <2>2, <2>3
  <2>5. Promise!Give(g, c)
    BY <1>a, <1>b, <1>1, <2>2, <2>3, <2>4, ListAsSet DEF Promise!Give, HeldBy, Dialing
  <2>. QED
    BY <2>5
<1>2. ASSUME NEW d \in Conns, Hold(g, d), Goto(g, "evict"), d \in Range(idle), d # conn[g],
             Range(idle') = (Range(idle) \cup {conn[g]}) \ {d}
      PROVE  Promise!Swap(g, c, d)
  <2>1. /\ [h \in Threads |-> HeldBy(h)]' =
              [[h \in Threads |-> HeldBy(h)] EXCEPT ![g] = {d} \ {NoConn}]
        /\ HeldBy(g) = {conn[g]} \ {NoConn}
        /\ Dialing' = Dialing \ {g}
    BY <1>a, <1>2, Moved DEF Locations
  <2>2. /\ g \notin Dialing /\ (HeldBy(g) \ {c}) \cup {d} = {d} \ {NoConn}
        /\ c \in HeldBy(g)
    BY <1>a, <1>b, <2>1, PoolAssumption DEF Dialing
  <2>3. [h \in Threads |-> HeldBy(h)]' =
           [[h \in Threads |-> HeldBy(h)] EXCEPT ![g] = (@ \ {c}) \cup {d}]
    BY <2>1, <2>2
  <2>. QED
    BY <1>a, <1>b, <1>2, <2>1, <2>2, <2>3, ListAsSet DEF Promise!Swap, HeldBy, Dialing
<1>3. CASE Hold(g, conn[g]) /\ Goto(g, "evict")
           /\ Range(idle') = (Range(idle) \cup {conn[g]}) \ {conn[g]}
  <2>1. conn' = conn /\ Range(idle') = Range(idle)
    BY <1>a, <1>b, <1>3 DEF Hold, TypeOK
  <2>. QED
    BY <1>a, <1>3, <2>1, Stutters DEF Locations
<1>. QED
  BY <1>a, <1>1, <1>2, <1>3, PutIdleLists

\* Pool.Close, and the closes that follow it.
LEMMA Shuts ==
    ASSUME PoolInv, PlaceInv, ShutInv, NEW g \in Threads, PoolClose(g)
    PROVE  Promise!Shut(g)
<1>1. /\ TypeOK /\ at[g] = "out" /\ ~closed /\ closed' /\ idle' = <<>>
      /\ detached' = idle /\ Goto(g, "shut") /\ conn' = conn /\ conn[g] = NoConn
  BY NoConnElsewhere DEF PoolInv, PoolClose, TypeInv, HoldingAt
<1>2. /\ at'[g] = "shut" /\ \A h \in Threads \ {g} : at'[h] = at[h] /\ at[h] # "shut"
  BY <1>1 DEF TypeOK, Goto, ShutInv
<1>3. /\ HeldBy(g) = {} /\ HeldBy(g)' = ToSet(idle)
      /\ \A h \in Threads \ {g} : HeldBy(h)' = HeldBy(h)
  BY <1>1, <1>2 DEF HeldBy
<1>4. [h \in Threads |-> HeldBy(h)]' =
         [[h \in Threads |-> HeldBy(h)] EXCEPT ![g] = @ \cup ToSet(idle)]
  BY <1>3
<1>5. Dialing' = Dialing /\ ToSet(idle') = {}
  BY <1>1, <1>2, EmptySeq DEF Dialing, ToSet
<1>6. closed' = TRUE
  BY <1>1 DEF PoolClose
<1>. QED
  BY <1>1, <1>4, <1>5, <1>6 DEF Promise!Shut, HeldBy, Dialing

LEMMA ClosesDetached ==
    ASSUME PoolInv, PlaceInv, ShutInv, NEW g \in Threads, CloseDetached(g)
    PROVE  (\E c \in Conns : Promise!Drop(g, c)) \/ UNCHANGED Promise!vars
<1>1. /\ TypeOK /\ at[g] = "shut" /\ conn[g] = NoConn
      /\ UNCHANGED <<closed, idle, conn>>
      /\ \A h \in Threads \ {g} : at[h] # "shut"
  BY NoConnElsewhere DEF PoolInv, CloseDetached, TypeInv, HoldingAt, ShutInv
<1>2. CASE detached = <<>>
  <2>1. /\ detached' = detached /\ at'[g] = "out"
        /\ \A h \in Threads \ {g} : at'[h] = at[h]
    BY <1>1, <1>2 DEF CloseDetached, Goto, TypeOK
  <2>2. ToSet(detached) = {}
    BY <1>2, EmptySeq DEF ToSet
  <2>3. \A h \in Threads : HeldBy(h)' = HeldBy(h)
    BY <1>1, <2>1, <2>2 DEF HeldBy
  <2>4. Dialing' = Dialing
    BY <1>1, <2>1 DEF Dialing
  <2>. QED
    BY <1>1, <2>3, <2>4 DEF Promise!vars, HeldBy, Dialing
<1>3. CASE detached # <<>>
  <2>1. detached' = Tail(detached) /\ at' = at
    BY <1>3 DEF CloseDetached
  <2>2. /\ Head(detached) \in Conns /\ Head(detached) \in Range(detached)
        /\ Range(Tail(detached)) = Range(detached) \ {Head(detached)}
    BY <1>1, <1>3, TookHead DEF TypeOK, PlaceInv
  <2>3. /\ HeldBy(g) = Range(detached) /\ HeldBy(g)' = HeldBy(g) \ {Head(detached)}
        /\ \A h \in Threads \ {g} : HeldBy(h)' = HeldBy(h)
    BY <1>1, <2>1, <2>2, ListAsSet DEF HeldBy
  <2>4. [h \in Threads |-> HeldBy(h)]' =
           [[h \in Threads |-> HeldBy(h)] EXCEPT ![g] = @ \ {Head(detached)}]
    BY <2>3
  <2>5. Dialing' = Dialing
    BY <2>1 DEF Dialing
  <2>6. PICK c \in Conns : c = Head(detached)
    BY <2>2
  <2>7. Promise!Drop(g, c)
    BY <1>1, <2>2, <2>3, <2>4, <2>5, <2>6 DEF Promise!Drop, HeldBy, Dialing
  <2>. QED
    BY <2>7
<1>. QED
  BY <1>2, <1>3

\* Every step of the pool is a step of ConnPool, or changes nothing there.
LEMMA PromiseStep ==
    ASSUME PoolInv, PlaceInv, ShutInv, WithinMaxActive', [Next]_vars
    PROVE  [Promise!Next]_(Promise!vars)
<1>a. TypeOK /\ TypeInv /\ ConnInv
  BY DEF PoolInv, TypeInv
<1>1. ASSUME NEW g \in Threads,
             \/ GetStart(g) \/ LazyInit(g) \/ Acquire(g) \/ Borrow(g) \/ Send(g)
             \/ Evicted(g)
      PROVE  UNCHANGED Promise!vars
  <2>1. UNCHANGED <<closed, detached, conn, idle>> /\ at[g] \notin {"shut", "dial"}
    BY <1>1 DEF GetStart, LazyInit, Acquire, Borrow, Send, Evicted
  <2>2. \E l \in Locations \ {"shut", "dial"} : Goto(g, l)
    BY <1>1 DEF GetStart, LazyInit, Acquire, Borrow, Send, Evicted, Release, Locations
  <2>. QED
    BY <1>a, <2>1, <2>2, Stutters
<1>2. ASSUME NEW g \in Threads, GetLocked(g) \/ Pruned(g) \/ Rejected(g)
      PROVE  [Promise!Next]_(Promise!vars)
  <2>1. /\ conn[g] = NoConn /\ UNCHANGED <<closed, detached, open>>
        /\ at[g] \notin {"shut", "dial"}
    BY <1>2, <1>a, NoConnElsewhere DEF GetLocked, Pruned, Rejected, HoldingAt
  <2>2. \E act \in Int, n \in Nat : PruneOrTake(g, act, n)
    BY <1>2, <1>a, TurnsOfGet
  <2>3. \/ \E c \in Conns, l \in {"prune", "test"} :
              /\ c \in Range(idle) /\ Hold(g, c) /\ Goto(g, l)
              /\ Range(idle') = Range(idle) \ {c}
        \/ UNCHANGED <<idle, conn>> /\ Goto(g, "out")
        \/ UNCHANGED <<idle, conn>> /\ Goto(g, "dial") /\ ~closed
    BY <1>a, <2>2, PruneOrTakeLists
  <2>4. ASSUME NEW c \in Conns, NEW l \in {"prune", "test"},
               c \in Range(idle), Hold(g, c), Goto(g, l),
               Range(idle') = Range(idle) \ {c}
        PROVE  Promise!Next
    BY <1>a, <2>1, <2>4, Takes DEF Promise!Next
  <2>5. CASE UNCHANGED <<idle, conn>> /\ Goto(g, "out")
    BY <1>a, <2>1, <2>5, Stutters DEF Locations
  <2>6. CASE UNCHANGED <<idle, conn>> /\ Goto(g, "dial") /\ ~closed
    BY <2>1, <2>6, Reserves DEF Promise!Next
  <2>. QED
    BY <2>3, <2>4, <2>5, <2>6
<1>3. ASSUME NEW g \in Threads, ClosePruned(g) \/ Reject(g) \/ CloseEvicted(g)
      PROVE  Promise!Next
  <2>1. /\ UNCHANGED <<closed, detached, idle>> /\ Hold(g, NoConn)
        /\ at[g] \in {"prune", "test", "evict"} /\ conn[g] \in Conns
        /\ \E l \in Locations \ {"shut", "dial"} : Goto(g, l)
    BY <1>3, <1>a DEF ClosePruned, Reject, CloseEvicted, CloseSocket, ConnInv, HoldingAt,
       Locations
  <2>2. PICK c \in Conns : conn[g] = c
    BY <2>1
  <2>3. Promise!Drop(g, c)
    BY <1>a, <2>1, <2>2, Drops
  <2>. QED
    BY <2>3 DEF Promise!Next
<1>4. ASSUME NEW g \in Threads, DialOk(g) \/ DialFail(g) \/ PoolClose(g)
      PROVE  Promise!Next
  <2>1. \/ \E c \in Conns : Promise!Open(g, c)
        \/ Promise!Fail(g) \/ Promise!Shut(g)
    BY <1>4, <1>a, Opens, Fails, Shuts, Zenon
  <2>. QED
    BY <2>1, Zenon DEF Promise!Next
<1>5. ASSUME NEW g \in Threads, NEW force \in BOOLEAN, Put(g, force)
      PROVE  [Promise!Next]_(Promise!vars)
  <2>1. at[g] = "use" /\ conn[g] \in Conns /\ UNCHANGED <<closed, detached>>
    BY <1>5, <1>a DEF Put, ConnInv, HoldingAt
  <2>2. CASE PutClose(g, force)
    BY <1>a, <2>1, <2>2, Stutters DEF PutClose, Locations
  <2>3. CASE PutIdle(g, force)
    <3>1. PICK c \in Conns : conn[g] = c
      BY <2>1
    <3>2. \/ Promise!Give(g, c) \/ \E d \in Conns : Promise!Swap(g, c, d)
          \/ UNCHANGED Promise!vars
      BY <1>5, <2>3, <3>1, Gives
    <3>. QED
      BY <3>2 DEF Promise!Next
  <2>. QED
    BY <1>5, <2>2, <2>3 DEF Put
<1>6. ASSUME NEW g \in Threads, CloseDetached(g)
      PROVE  [Promise!Next]_(Promise!vars)
  BY <1>6, ClosesDetached DEF Promise!Next
<1>7. CASE Tick \/ UNCHANGED vars
  BY <1>7 DEF Tick, vars, Promise!vars
<1>. QED
  BY <1>1, <1>2, <1>3, <1>4, <1>5, <1>6, <1>7 DEF Next, Progress

\* redigo's pool keeps the promise of ConnPool, for any number of goroutines and sockets
\* and any setting: a connection is with one client or in the pool, a dial begins only
\* below the limit, and after Pool.Close nothing is kept or dialled any more.
THEOREM KeepsPromise == Spec => ImplementsConnPool
<1>1. Init => Promise!Init
  <2>. SUFFICES ASSUME Init PROVE Promise!Init
    OBVIOUS
  <2>1. ToSet(idle) = {} /\ Dialing = {} /\ closed = FALSE
    BY EmptySeq DEF Init, ToSet, Dialing
  <2>2. \A g \in Threads : HeldBy(g) = {}
    BY DEF Init, HeldBy
  <2>. QED
    BY <2>1, <2>2 DEF Promise!Init, HeldBy, Dialing
<1>2. PoolInv /\ PlaceInv /\ ShutInv /\ WithinMaxActive' /\ [Next]_vars
         => [Promise!Next]_(Promise!vars)
  BY PromiseStep
<1>. QED
  BY <1>1, <1>2, PlaceInvariant, LimitKept, PTL DEF Spec, ImplementsConnPool, Promise!Spec
=============================================================================
