-------------------------- MODULE FatihPoolProofs --------------------------
(***************************************************************************)
(* The channel pool implements ConnPool, for any goroutines, connections   *)
(* and capacities.                                                         *)
(***************************************************************************)
EXTENDS FatihPool, SequenceTheorems, TLAPS

Distinct(s) == \A i, j \in DOMAIN s : s[i] = s[j] => i = j

\* A connection that is not in the channel goes in at the end.
LEMMA Sent ==
    ASSUME NEW s \in Seq(Conns), NEW c \in Conns
    PROVE  /\ Append(s, c) \in Seq(Conns) /\ Len(Append(s, c)) = Len(s) + 1
           /\ Range(Append(s, c)) = Range(s) \cup {c}
           /\ Distinct(s) /\ c \notin Range(s) => Distinct(Append(s, c))
<1>. DEFINE r == Append(s, c)
<1>1. /\ r \in Seq(Conns) /\ Len(r) = Len(s) + 1 /\ Len(s) \in Nat
      /\ DOMAIN s = 1..Len(s) /\ DOMAIN r = 1..Len(s) + 1
      /\ r[Len(s) + 1] = c /\ \A i \in 1..Len(s) : r[i] = s[i]
  BY AppendProperties, LenProperties
<1>. HIDE DEF r
<1>2. /\ \A d : d \in Range(s) <=> \E i \in 1..Len(s) : d = s[i]
      /\ \A d : d \in Range(r) <=> \E i \in 1..Len(s) + 1 : d = r[i]
  BY <1>1 DEF Range
<1>3. Range(r) = Range(s) \cup {c}
  BY <1>1, <1>2
<1>4. ASSUME Distinct(s), c \notin Range(s)
      PROVE  Distinct(r)
  BY <1>1, <1>2, <1>4 DEF Distinct
<1>. QED
  BY <1>1, <1>3, <1>4 DEF r

\* The first connection comes out of the channel.
LEMMA Received ==
    ASSUME NEW s \in Seq(Conns), s # << >>, Distinct(s)
    PROVE  /\ Head(s) \in Conns /\ Head(s) \in Range(s)
           /\ Tail(s) \in Seq(Conns) /\ Len(Tail(s)) =< Len(s)
           /\ Range(Tail(s)) = Range(s) \ {Head(s)}
           /\ Distinct(Tail(s))
<1>. DEFINE r == Tail(s)
<1>1. /\ Len(s) \in Nat \ {0} /\ DOMAIN s = 1..Len(s) /\ Head(s) = s[1]
      /\ Head(s) \in Conns /\ r \in Seq(Conns) /\ Len(r) = Len(s) - 1
      /\ DOMAIN r = 1..Len(s) - 1
      /\ \A i \in 1..Len(s) - 1 : r[i] = s[i + 1]
  BY HeadTailProperties, LenProperties, EmptySeq
<1>. HIDE DEF r
<1>2. /\ \A d : d \in Range(s) <=> \E i \in 1..Len(s) : d = s[i]
      /\ \A d : d \in Range(r) <=> \E i \in 1..Len(s) - 1 : d = r[i]
  BY <1>1 DEF Range
<1>3. \A i, j \in 1..Len(s) : s[i] = s[j] => i = j
  BY <1>1 DEF Distinct
<1>4. ASSUME NEW d \in Range(s), d # Head(s)
      PROVE  d \in Range(r)
  <2>1. PICK i \in 1..Len(s) : d = s[i]
    BY <1>2
  <2>2. i # 1 /\ i - 1 \in 1..Len(s) - 1 /\ r[i - 1] = s[i]
    BY <1>1, <1>4, <2>1
  <2>. QED
    BY <1>2, <2>1, <2>2
<1>5. ASSUME NEW d \in Range(r)
      PROVE  d \in Range(s) /\ d # Head(s)
  <2>1. PICK i \in 1..Len(s) - 1 : d = r[i]
    BY <1>2
  <2>2. i + 1 \in 1..Len(s) /\ i + 1 # 1 /\ d = s[i + 1] /\ 1 \in 1..Len(s)
    BY <1>1, <2>1
  <2>. QED
    BY <1>1, <1>2, <1>3, <2>2
<1>6. Distinct(r)
  BY <1>1, <1>3 DEF Distinct
<1>7. Head(s) \in Range(s)
  BY <1>1, <1>2
<1>. QED
  BY <1>1, <1>4, <1>5, <1>6, <1>7 DEF r

-----------------------------------------------------------------------------
LEMMA TypeStep ==
    ASSUME FatihInv, [Next]_vars
    PROVE  TypeOK'
<1>1. TypeOK /\ ConnInv /\ NewInv
  BY DEF FatihInv
<1>2. ASSUME NEW t \in Threads, New(t) \/ GetStart(t) \/ Close(t)
      PROVE  TypeOK'
  BY <1>1, <1>2 DEF TypeOK, New, GetStart, Close, Move, pool, Places, Stages
<1>3. ASSUME NEW t \in Threads, Fill(t) \/ Filled(t) \/ NewFails(t)
      PROVE  TypeOK'
  BY <1>1, <1>3 DEF TypeOK, Fill, Filled, NewFails, Move, pool, Places, Stages
<1>4. ASSUME NEW t \in Threads, NEW from, NEW to \in Places, Dialled(t, from, to)
      PROVE  TypeOK'
  BY <1>1, <1>4 DEF TypeOK, Dialled, Move, Hold, pool
<1>5. ASSUME NEW t \in Threads, NewSend(t) \/ Put(t)
      PROVE  TypeOK'
  <2>1. at[t] \in {"newSend", "use"} /\ conns' = Append(conns, conn[t])
    BY <1>5 DEF NewSend, Put, Move
  <2>2. conn[t] \in Conns
    BY <1>1, <2>1 DEF TypeOK, ConnInv, Using
  <2>3. conns' \in Seq(Conns) /\ Len(conns') = Len(conns) + 1 /\ Len(conns) \in Nat
    BY <1>1, <2>1, <2>2, Sent, LenProperties DEF TypeOK
  <2>4. Len(conns) < MaxCap
    BY <1>1, <1>5, <2>3, PoolAssumption DEF NewInv, NewSend, Put, Move
  <2>5. Len(conns') =< MaxCap
    BY <2>3, <2>4, PoolAssumption
  <2>. QED
    BY <1>1, <1>5, <2>3, <2>5 DEF TypeOK, NewSend, Put, Move, Hold, Places
<1>6. ASSUME NEW t \in Threads, Receive(t) \/ Drain(t)
      PROVE  TypeOK'
  <2>1. conns # << >> /\ conns' = Tail(conns)
    BY <1>6 DEF Receive, Drain
  <2>2. Head(conns) \in Conns /\ conns' \in Seq(Conns) /\ Len(conns') =< MaxCap
    BY <1>1, <2>1, Received, LenProperties, PoolAssumption
    DEF TypeOK, ConnInv, Distinct
  <2>. QED
    BY <1>1, <1>6, <2>2 DEF TypeOK, Receive, Drain, Move, Hold, Places
<1>7. ASSUME NEW t \in Threads,
             ReceiveNil(t) \/ Default(t) \/ DialFails(t) \/ MarkUnusable(t) \/ PutFull(t)
      PROVE  TypeOK'
  BY <1>1, <1>7
  DEF TypeOK, ReceiveNil, Default, DialFails, MarkUnusable, PutFull, Move, pool, Places
<1>8. ASSUME NEW t \in Threads, CloseConn(t) \/ DrainClose(t)
      PROVE  TypeOK'
  BY <1>1, <1>8
  DEF TypeOK, CloseConn, DrainClose, CloseSocket, Move, Hold, pool, Places
<1>9. ASSUME NEW t \in Threads, CloseChan(t) \/ Drained(t)
      PROVE  TypeOK'
  BY <1>1, <1>9 DEF TypeOK, CloseChan, Drained, Move, Places
<1>10. CASE UNCHANGED vars
  BY <1>1, <1>10 DEF TypeOK, vars
<1>11. "newSend" \in Places /\ "use" \in Places
  BY DEF Places
<1>. QED
  BY <1>2, <1>3, <1>4, <1>5, <1>6, <1>7, <1>8, <1>9, <1>10, <1>11 DEF Next, Progress

-----------------------------------------------------------------------------
\* What a step does to the places and the pool, for the invariants about them.
LEMMA NewStep ==
    ASSUME FatihInv, [Next]_vars
    PROVE  NewInv'
<1>1. TypeOK /\ ConnInv /\ NewInv
  BY DEF FatihInv
<1>2. ASSUME NEW t \in Threads, New(t)
      PROVE  NewInv'
  BY <1>1, <1>2 DEF TypeOK, NewInv, New, Move
<1>3. ASSUME NEW t \in Threads, Fill(t)
      PROVE  NewInv'
  <2>. Len(conns) \in Nat /\ InitialCap \in Nat
    BY <1>1, PoolAssumption, LenProperties DEF TypeOK
  <2>. QED
    BY <1>1, <1>3 DEF TypeOK, NewInv, Fill, Move, pool
<1>4. ASSUME NEW t \in Threads, Filled(t)
      PROVE  NewInv'
  BY <1>1, <1>4 DEF TypeOK, NewInv, Filled, Move
<1>5. ASSUME NEW t \in Threads, NewSend(t)
      PROVE  NewInv'
  <2>1. conn[t] \in Conns
    BY <1>1, <1>5 DEF TypeOK, ConnInv, Using, NewSend, Move
  <2>2. Len(conns') = Len(conns) + 1 /\ Len(conns) \in Nat /\ InitialCap \in Nat
    BY <1>1, <1>5, <2>1, Sent, LenProperties, PoolAssumption DEF TypeOK, NewSend
  <2>. QED
    BY <1>1, <1>5, <2>2 DEF TypeOK, NewInv, NewSend, Move
<1>6. ASSUME NEW t \in Threads, Dialled(t, "newDial", "newSend") \/ NewFails(t)
      PROVE  NewInv'
  BY <1>1, <1>6 DEF TypeOK, NewInv, Dialled, NewFails, Move, pool
<1>7. ASSUME NEW t \in Threads, GetStart(t) \/ Close(t)
      PROVE  NewInv'
  BY <1>1, <1>7 DEF TypeOK, NewInv, GetStart, Close, Move, pool
<1>8. ASSUME NEW t \in Threads,
             \/ Dialled(t, "dial", "use") \/ Receive(t) \/ ReceiveNil(t) \/ Default(t)
             \/ DialFails(t) \/ MarkUnusable(t) \/ CloseConn(t) \/ Put(t) \/ PutFull(t)
      PROVE  NewInv'
  <2>1. /\ UNCHANGED ready
        /\ at[t] \in {"select", "dial", "use", "unusable", "full"}
        /\ \E to \in {"idle", "dial", "use", "unusable", "full"} :
              at' = [at EXCEPT ![t] = to]
    BY <1>8 DEF Dialled, Receive, ReceiveNil, Default, DialFails, MarkUnusable,
       CloseConn, Put, PutFull, Move, pool
  <2>2. /\ ready = "yes"
        /\ \A u \in Threads : at[u] \notin {"fill", "newDial", "newSend", "close"}
    BY <1>1, <2>1 DEF NewInv
  <2>. QED
    BY <1>1, <2>1, <2>2 DEF TypeOK, NewInv
<1>a. ASSUME NEW t \in Threads,
             CloseChan(t) \/ Drain(t) \/ DrainClose(t) \/ Drained(t)
      PROVE  NewInv'
  <2>1. /\ UNCHANGED <<ready, closed>>
        /\ at[t] \in {"closeChan", "drain", "drainClose"}
        /\ \E to \in {"idle", "drain", "drainClose"} : at' = [at EXCEPT ![t] = to]
    BY <1>a DEF CloseChan, Drain, DrainClose, Drained, Move, pool
  <2>2. \A u \in Threads : at[u] \notin {"fill", "newDial", "newSend", "close"}
    BY <1>1, <2>1 DEF NewInv
  <2>3. ready # "no" /\ (ready # "yes" => Len(conns) =< InitialCap)
    BY <1>1, <2>1 DEF NewInv
  <2>4. ready # "yes" => Len(conns') =< InitialCap
    <3>1. CASE conns' = conns
      BY <2>3, <3>1
    <3>2. CASE conns # << >> /\ conns' = Tail(conns)
      BY <1>1, <2>3, <3>2, Received, LenProperties, PoolAssumption
      DEF TypeOK, ConnInv, Distinct
    <3>. QED
      BY <1>a, <3>1, <3>2 DEF CloseChan, Drain, DrainClose, Drained, pool
  <2>. QED
    BY <1>1, <2>1, <2>2, <2>3, <2>4 DEF TypeOK, NewInv
<1>9. CASE UNCHANGED vars
  BY <1>1, <1>9 DEF NewInv, vars
<1>. QED
  BY <1>2, <1>3, <1>4, <1>5, <1>6, <1>7, <1>8, <1>9, <1>a DEF Next, Progress

LEMMA CloseStep ==
    ASSUME FatihInv, [Next]_vars
    PROVE  CloseInv'
<1>1. TypeOK /\ NewInv /\ CloseInv
  BY DEF FatihInv
\* A step that neither begins nor goes on with Pool.Close.
<1>2. ASSUME NEW t \in Threads, at[t] \notin Closing,
             \E to \in Places \ Closing : at' = [at EXCEPT ![t] = to],
             UNCHANGED <<closed, chClosed, drained>>, drained => conns' = << >>
      PROVE  CloseInv'
  BY <1>1, <1>2 DEF TypeOK, CloseInv, Closing
<1>3. ASSUME NEW t \in Threads,
             \/ New(t) \/ Fill(t) \/ Filled(t) \/ NewFails(t) \/ GetStart(t)
             \/ Dialled(t, "newDial", "newSend") \/ Dialled(t, "dial", "use")
             \/ ReceiveNil(t) \/ Default(t) \/ DialFails(t) \/ MarkUnusable(t)
             \/ CloseConn(t) \/ PutFull(t)
      PROVE  CloseInv'
  <2>1. /\ at[t] \notin Closing
        /\ \E to \in Places \ Closing : at' = [at EXCEPT ![t] = to]
        /\ UNCHANGED <<closed, chClosed, drained, conns>>
    BY <1>3 DEF New, Fill, Filled, NewFails, GetStart, Dialled, ReceiveNil, Default,
       DialFails, MarkUnusable, CloseConn, PutFull, Move, pool, Places, Closing
  <2>. QED
    BY <1>1, <1>2, <2>1 DEF CloseInv
<1>4. ASSUME NEW t \in Threads, NewSend(t) \/ Put(t) \/ Receive(t)
      PROVE  CloseInv'
  <2>1. /\ at[t] \notin Closing
        /\ \E to \in Places \ Closing : at' = [at EXCEPT ![t] = to]
        /\ UNCHANGED <<closed, chClosed, drained>>
    BY <1>4 DEF NewSend, Put, Receive, Move, Places, Closing
  <2>2. ~drained
    BY <1>1, <1>4 DEF NewInv, CloseInv, NewSend, Put, Receive, Move
  <2>. QED
    BY <1>2, <2>1, <2>2
<1>5. ASSUME NEW t \in Threads, Close(t)
      PROVE  CloseInv'
  BY <1>1, <1>5 DEF TypeOK, CloseInv, Closing, Close, Move
<1>6. ASSUME NEW t \in Threads, CloseChan(t)
      PROVE  CloseInv'
  BY <1>1, <1>6 DEF TypeOK, CloseInv, Closing, CloseChan, Move
<1>7. ASSUME NEW t \in Threads, Drain(t) \/ DrainClose(t)
      PROVE  CloseInv'
  BY <1>1, <1>7 DEF TypeOK, CloseInv, Closing, Drain, DrainClose, Move, pool
<1>8. ASSUME NEW t \in Threads, Drained(t)
      PROVE  CloseInv'
  BY <1>1, <1>8 DEF TypeOK, CloseInv, Closing, Drained, Move
<1>9. CASE UNCHANGED vars
  BY <1>1, <1>9 DEF CloseInv, vars
<1>. QED
  BY <1>3, <1>4, <1>5, <1>6, <1>7, <1>8, <1>9 DEF Next, Progress

\* Connections: each step moves at most one, from one place to another.
LEMMA ConnStep ==
    ASSUME FatihInv, [Next]_vars
    PROVE  ConnInv'
<1>1. TypeOK /\ ConnInv
  BY DEF FatihInv
<1>2. ASSUME NEW t \in Threads,
             \/ New(t) \/ Fill(t) \/ Filled(t) \/ NewFails(t) \/ GetStart(t) \/ Close(t)
             \/ ReceiveNil(t) \/ Default(t) \/ DialFails(t) \/ MarkUnusable(t)
             \/ PutFull(t) \/ CloseChan(t) \/ Drained(t)
      PROVE  ConnInv'
  <2>1. /\ UNCHANGED <<conns, open, conn>>
        /\ \E to \in Places :
              at' = [at EXCEPT ![t] = to] /\ (at[t] \in Using <=> to \in Using)
    BY <1>2 DEF New, Fill, Filled, NewFails, GetStart, Close, ReceiveNil, Default,
       DialFails, MarkUnusable, PutFull, CloseChan, Drained, Move, pool, Places, Using
  <2>. QED
    BY <1>1, <2>1 DEF TypeOK, ConnInv
<1>3. ASSUME NEW t \in Threads, NEW from \in {"newDial", "dial"},
             NEW to \in {"newSend", "use"}, Dialled(t, from, to)
      PROVE  ConnInv'
  <2>1. PICK c \in Conns \ open : Hold(t, c) /\ open' = open \cup {c}
    BY <1>3 DEF Dialled
  <2>2. at' = [at EXCEPT ![t] = to] /\ conns' = conns /\ to \in Using
    BY <1>3 DEF Dialled, Move, pool, Using
  <2>. QED
    BY <1>1, <2>1, <2>2, PoolAssumption DEF TypeOK, ConnInv, Hold
<1>4. ASSUME NEW t \in Threads, NewSend(t) \/ Put(t)
      PROVE  ConnInv'
  <2>1. /\ at[t] \in Using /\ conns' = Append(conns, conn[t]) /\ Hold(t, NoConn)
        /\ open' = open
        /\ \E to \in Places \ Using : at' = [at EXCEPT ![t] = to]
    BY <1>4 DEF NewSend, Put, Move, Using, Places
  <2>2. conn[t] \in Conns /\ conn[t] \in open \ Range(conns)
    BY <1>1, <2>1 DEF TypeOK, ConnInv
  <2>3. Range(conns') = Range(conns) \cup {conn[t]} /\ Distinct(conns')
    BY <1>1, <2>1, <2>2, Sent DEF TypeOK, ConnInv, Distinct
  <2>. QED
    BY <1>1, <2>1, <2>2, <2>3 DEF TypeOK, ConnInv, Distinct, Hold
<1>5. ASSUME NEW t \in Threads, Receive(t) \/ Drain(t)
      PROVE  ConnInv'
  <2>1. /\ conns # << >> /\ conns' = Tail(conns) /\ Hold(t, Head(conns))
        /\ open' = open
        /\ \E to \in Using : at' = [at EXCEPT ![t] = to]
    BY <1>5 DEF Receive, Drain, Move, Using
  <2>2. /\ Head(conns) \in Conns /\ Head(conns) \in Range(conns)
        /\ Range(conns') = Range(conns) \ {Head(conns)} /\ Distinct(conns')
    BY <1>1, <2>1, Received DEF TypeOK, ConnInv, Distinct
  <2>. QED
    BY <1>1, <2>1, <2>2, PoolAssumption DEF TypeOK, ConnInv, Distinct, Hold
<1>6. ASSUME NEW t \in Threads, CloseConn(t) \/ DrainClose(t)
      PROVE  ConnInv'
  <2>1. /\ at[t] \in Using /\ CloseSocket(t) /\ conns' = conns
        /\ \E to \in Places \ Using : at' = [at EXCEPT ![t] = to]
    BY <1>6 DEF CloseConn, DrainClose, Move, Using, Places, pool
  <2>. QED
    BY <1>1, <2>1 DEF TypeOK, ConnInv, CloseSocket, Hold
<1>7. CASE UNCHANGED vars
  BY <1>1, <1>7 DEF ConnInv, vars
<1>. QED
  BY <1>2, <1>3, <1>4, <1>5, <1>6, <1>7 DEF Next, Progress

LEMMA Inductive == Spec => []FatihInv
<1>1. Init => FatihInv
  <2>. SUFFICES ASSUME Init PROVE FatihInv
    OBVIOUS
  <2>1. conns = << >> /\ << >> \in Seq(Conns) /\ Len(conns) = 0 /\ DOMAIN conns = {}
    BY EmptySeq DEF Init
  <2>2. TypeOK
    <3>1. conns \in Seq(Conns) /\ Len(conns) =< MaxCap
      BY <2>1, PoolAssumption DEF Init
    <3>. QED
      BY <3>1 DEF Init, TypeOK, Places, Stages
  <2>3. NewInv /\ CloseInv
    BY <2>1, PoolAssumption DEF Init, NewInv, CloseInv, Closing
  <2>4. ConnInv
    <3>1. Range(conns) = {}
      BY <2>1 DEF Range
    <3>2. \A t \in Threads : at[t] = "idle" /\ conn[t] = NoConn
      BY DEF Init
    <3>. QED
      BY <2>1, <3>1, <3>2 DEF ConnInv, Using
  <2>. QED
    BY <2>2, <2>3, <2>4 DEF FatihInv
<1>2. FatihInv /\ [Next]_vars => FatihInv'
  BY TypeStep, NewStep, CloseStep, ConnStep DEF FatihInv
<1>. QED
  BY <1>1, <1>2, PTL DEF Spec

\* Every variable keeps its type; the channel never holds more than MaxCap.
THEOREM TypeCorrect == Spec => []TypeOK
<1>1. FatihInv => TypeOK
  BY DEF FatihInv
<1>. QED
  BY <1>1, Inductive, PTL

-----------------------------------------------------------------------------
\* The open sockets: a socket that is opened is in hand, one that leaves a hand is in the
\* channel or closed.
Hands == {conn[t] : t \in Threads} \ {NoConn}

LEMMA HandGets ==
    ASSUME TypeOK, NEW t \in Threads, NEW c \in Conns, conn[t] = NoConn, Hold(t, c)
    PROVE  Hands' = Hands \cup {c}
<1>1. conn' = [conn EXCEPT ![t] = c] /\ conn \in [Threads -> Conns \cup {NoConn}]
  BY DEF Hold, TypeOK
<1>2. conn'[t] = c /\ \A u \in Threads \ {t} : conn'[u] = conn[u]
  BY <1>1
<1>3. c # NoConn
  BY PoolAssumption
<1>. QED
  BY <1>2, <1>3 DEF Hands

LEMMA HandLetsGo ==
    ASSUME TypeOK, ConnInv, NEW t \in Threads, Hold(t, NoConn)
    PROVE  Hands' = Hands \ {conn[t]}
<1>1. conn' = [conn EXCEPT ![t] = NoConn] /\ conn \in [Threads -> Conns \cup {NoConn}]
  BY DEF Hold, TypeOK
<1>2. conn'[t] = NoConn /\ \A u \in Threads \ {t} : conn'[u] = conn[u]
  BY <1>1
<1>3. \A u \in Threads \ {t} : conn[u] = conn[t] => conn[u] = NoConn
  BY DEF ConnInv
<1>. QED
  BY <1>2, <1>3 DEF Hands

LEMMA OpenStep ==
    ASSUME FatihInv, NoSocketLost, [Next]_vars
    PROVE  NoSocketLost'
<1>1. TypeOK /\ ConnInv /\ open = Range(conns) \cup Hands
  BY DEF FatihInv, NoSocketLost, Hands
<1>. SUFFICES open' = Range(conns') \cup Hands'
  BY DEF NoSocketLost, Hands
<1>2. ASSUME UNCHANGED <<conns, open, conn>>
      PROVE  open' = Range(conns') \cup Hands'
  BY <1>1, <1>2 DEF Hands
<1>3. ASSUME NEW t \in Threads,
             \/ New(t) \/ Fill(t) \/ Filled(t) \/ NewFails(t) \/ GetStart(t) \/ Close(t)
             \/ ReceiveNil(t) \/ Default(t) \/ DialFails(t) \/ MarkUnusable(t)
             \/ PutFull(t) \/ CloseChan(t) \/ Drained(t)
      PROVE  open' = Range(conns') \cup Hands'
  BY <1>2, <1>3 DEF New, Fill, Filled, NewFails, GetStart, Close, ReceiveNil, Default,
     DialFails, MarkUnusable, PutFull, CloseChan, Drained, pool
<1>4. ASSUME NEW t \in Threads, NEW from \in {"newDial", "dial"},
             NEW to \in {"newSend", "use"}, Dialled(t, from, to)
      PROVE  open' = Range(conns') \cup Hands'
  <2>1. PICK c \in Conns \ open : Hold(t, c) /\ open' = open \cup {c}
    BY <1>4 DEF Dialled
  <2>2. conn[t] = NoConn /\ conns' = conns
    BY <1>1, <1>4 DEF Dialled, Move, pool, ConnInv, Using
  <2>. QED
    BY <1>1, <2>1, <2>2, HandGets
<1>5. ASSUME NEW t \in Threads, NewSend(t) \/ Put(t)
      PROVE  open' = Range(conns') \cup Hands'
  <2>1. /\ at[t] \in Using /\ conns' = Append(conns, conn[t]) /\ Hold(t, NoConn)
        /\ open' = open
    BY <1>5 DEF NewSend, Put, Move, Using
  <2>2. conn[t] \in Conns /\ conn[t] \in open \ Range(conns)
    BY <1>1, <2>1 DEF TypeOK, ConnInv
  <2>3. Range(conns') = Range(conns) \cup {conn[t]}
    BY <1>1, <2>1, <2>2, Sent DEF TypeOK, ConnInv, Distinct
  <2>4. Hands' = Hands \ {conn[t]}
    BY <1>1, <2>1, HandLetsGo
  <2>. QED
    BY <1>1, <2>1, <2>2, <2>3, <2>4
<1>6. ASSUME NEW t \in Threads, Receive(t) \/ Drain(t)
      PROVE  open' = Range(conns') \cup Hands'
  <2>1. /\ conns # << >> /\ conns' = Tail(conns) /\ Hold(t, Head(conns))
        /\ open' = open /\ at[t] \notin Using
    BY <1>6 DEF Receive, Drain, Move, Using
  <2>2. /\ Head(conns) \in Conns /\ Head(conns) \in Range(conns)
        /\ Range(conns') = Range(conns) \ {Head(conns)}
    BY <1>1, <2>1, Received DEF TypeOK, ConnInv, Distinct
  <2>3. Hands' = Hands \cup {Head(conns)}
    BY <1>1, <2>1, <2>2, HandGets DEF ConnInv
  <2>. QED
    BY <1>1, <2>1, <2>2, <2>3
<1>7. ASSUME NEW t \in Threads, CloseConn(t) \/ DrainClose(t)
      PROVE  open' = Range(conns') \cup Hands'
  <2>1. /\ at[t] \in Using /\ open' = open \ {conn[t]} /\ Hold(t, NoConn)
        /\ conns' = conns
    BY <1>7 DEF CloseConn, DrainClose, CloseSocket, Move, Using, pool
  <2>2. conn[t] \notin Range(conns) /\ Hands' = Hands \ {conn[t]}
    BY <1>1, <2>1, HandLetsGo DEF ConnInv
  <2>. QED
    BY <1>1, <2>1, <2>2
<1>8. CASE UNCHANGED vars
  BY <1>2, <1>8 DEF vars
<1>. QED
  BY <1>3, <1>4, <1>5, <1>6, <1>7, <1>8 DEF Next, Progress

\* What is open is in the channel or with one goroutine, for any goroutines, sockets and
\* capacities.
THEOREM NoneLost == Spec => []NoSocketLost
<1>1. Init => NoSocketLost
  BY EmptySeq DEF Init, NoSocketLost, Range
<1>2. FatihInv /\ NoSocketLost /\ [Next]_vars => NoSocketLost'
  BY OpenStep
<1>. QED
  BY <1>1, <1>2, Inductive, PTL DEF Spec

\* A pool that was closed, when no goroutine uses a connection any more, has no socket
\* open.
ClosedLeavesNothing ==
    drained /\ (\A t \in Threads : at[t] \notin Using) => open = {}

THEOREM NothingLeft == Spec => []ClosedLeavesNothing
<1>1. FatihInv /\ NoSocketLost => ClosedLeavesNothing
  <2>. SUFFICES ASSUME FatihInv, NoSocketLost, drained,
                       \A t \in Threads : at[t] \notin Using
                PROVE  open = {}
    BY DEF ClosedLeavesNothing
  <2>1. conns = << >> /\ Range(conns) = {}
    BY EmptySeq DEF FatihInv, CloseInv, Range
  <2>2. \A t \in Threads : conn[t] = NoConn
    BY DEF FatihInv, ConnInv
  <2>. QED
    BY <2>1, <2>2 DEF NoSocketLost
<1>. QED
  BY <1>1, Inductive, NoneLost, PTL

-----------------------------------------------------------------------------
\* The refinement.
Held(t) == {conn[t]} \ {NoConn}
Dialing == {t \in Threads : at[t] \in {"newDial", "dial"}}

\* A goroutine that has no connection gets one, and one that has one lets it go.
LEMMA Gets ==
    ASSUME TypeOK, NEW t \in Threads, NEW c \in Conns, conn[t] = NoConn, Hold(t, c)
    PROVE  [u \in Threads |-> Held(u)]' =
              [[u \in Threads |-> Held(u)] EXCEPT ![t] = @ \cup {c}]
<1>1. Held(t) = {} /\ {c} \ {NoConn} = {c}
  BY PoolAssumption DEF Held
<1>2. conn' = [conn EXCEPT ![t] = c] /\ conn \in [Threads -> Conns \cup {NoConn}]
  BY DEF Hold, TypeOK
<1>3. Held(t)' = {c} /\ \A u \in Threads \ {t} : Held(u)' = Held(u)
  BY <1>1, <1>2 DEF Held
<1>. QED
  BY <1>1, <1>3

LEMMA LetsGo ==
    ASSUME TypeOK, NEW t \in Threads, Hold(t, NoConn)
    PROVE  [u \in Threads |-> Held(u)]' =
              [[u \in Threads |-> Held(u)] EXCEPT ![t] = @ \ {conn[t]}]
<1>1. conn' = [conn EXCEPT ![t] = NoConn] /\ conn \in [Threads -> Conns \cup {NoConn}]
  BY DEF Hold, TypeOK
<1>2. Held(t) \ {conn[t]} = {}
  BY DEF Held
<1>3. Held(t)' = {} /\ \A u \in Threads \ {t} : Held(u)' = Held(u)
  BY <1>1 DEF Held
<1>. QED
  BY <1>2, <1>3

\* A step that changes neither the connections nor who dials is a stutter.
LEMMA Stutters ==
    ASSUME TypeOK, UNCHANGED <<conns, conn, drained>>,
           NEW t \in Threads, NEW to, at' = [at EXCEPT ![t] = to],
           at[t] \notin {"newDial", "dial"}, to \notin {"newDial", "dial"}
    PROVE  UNCHANGED Promise!vars
<1>1. \A u \in Threads : at'[u] \in {"newDial", "dial"} <=> at[u] \in {"newDial", "dial"}
  BY DEF TypeOK
<1>. QED
  BY <1>1 DEF Promise!vars

\* A step that begins a dial, while the pool is not shut.
LEMMA Reserves ==
    ASSUME TypeOK, UNCHANGED <<conns, conn, drained>>, ~drained,
           NEW t \in Threads, NEW to \in {"newDial", "dial"},
           at' = [at EXCEPT ![t] = to], at[t] \notin {"newDial", "dial"}
    PROVE  Promise!Reserve(t)
<1>1. Dialing' = Dialing \cup {t} /\ t \notin Dialing
  BY DEF TypeOK, Dialing
<1>. QED
  BY <1>1 DEF Promise!Reserve, Dialing

LEMMA Fails ==
    ASSUME TypeOK, UNCHANGED <<conns, conn, drained>>,
           NEW t \in Threads, NEW to, to \notin {"newDial", "dial"},
           at' = [at EXCEPT ![t] = to], at[t] \in {"newDial", "dial"}
    PROVE  Promise!Fail(t)
<1>1. Dialing' = Dialing \ {t} /\ t \in Dialing
  BY DEF TypeOK, Dialing
<1>. QED
  BY <1>1 DEF Promise!Fail, Dialing

LEMMA DialledOpens ==
    ASSUME FatihInv, NEW t \in Threads, NEW from \in {"newDial", "dial"},
           NEW to \in {"newSend", "use"}, Dialled(t, from, to)
    PROVE  \E c \in Conns : Promise!Open(t, c)
<1>1. PICK c \in Conns \ open : Hold(t, c)
  BY DEF Dialled
<1>2. at[t] = from /\ at' = [at EXCEPT ![t] = to] /\ UNCHANGED <<conns, drained>>
  BY DEF Dialled, Move, pool
<1>3. Dialing' = Dialing \ {t} /\ t \in Dialing
  BY <1>2 DEF FatihInv, TypeOK, Dialing
<1>4. conn[t] = NoConn
  BY <1>2 DEF FatihInv, ConnInv, Using
<1>5. [u \in Threads |-> Held(u)]' =
         [[u \in Threads |-> Held(u)] EXCEPT ![t] = @ \cup {c}]
  BY <1>1, <1>4, Gets DEF FatihInv
<1>6. c \notin Promise!Live
  BY <1>1 DEF FatihInv, ConnInv, Promise!Live
<1>. QED
  BY <1>1, <1>2, <1>3, <1>5, <1>6 DEF Promise!Open, Dialing, Held

LEMMA SendGives ==
    ASSUME FatihInv, NEW t \in Threads, NewSend(t) \/ Put(t)
    PROVE  \E c \in Conns : Promise!Give(t, c)
<1>1. /\ at[t] \in {"newSend", "use"} /\ conns' = Append(conns, conn[t])
      /\ Hold(t, NoConn) /\ drained' = drained /\ ~closed
      /\ at' = [at EXCEPT ![t] = "fill"] \/ at' = [at EXCEPT ![t] = "idle"]
  BY DEF FatihInv, NewInv, NewSend, Put, Move
<1>2. conn[t] \in Conns /\ conn[t] \notin Range(conns) /\ ~drained
  BY <1>1 DEF FatihInv, TypeOK, ConnInv, CloseInv, Using
<1>3. Range(conns') = Range(conns) \cup {conn[t]}
  BY <1>1, <1>2, Sent DEF FatihInv, TypeOK
<1>4. Dialing' = Dialing
  BY <1>1 DEF FatihInv, TypeOK, Dialing
<1>5. [u \in Threads |-> Held(u)]' =
         [[u \in Threads |-> Held(u)] EXCEPT ![t] = @ \ {conn[t]}]
  BY <1>1, LetsGo DEF FatihInv
<1>6. conn[t] \in Held(t)
  BY <1>2, PoolAssumption DEF Held
<1>. QED
  BY <1>1, <1>2, <1>3, <1>4, <1>5, <1>6 DEF Promise!Give, Dialing, Held

LEMMA ReceiveTakes ==
    ASSUME FatihInv, NEW t \in Threads, Receive(t) \/ Drain(t)
    PROVE  \E c \in Conns : Promise!Take(t, c)
<1>1. /\ at[t] \in {"select", "drain"} /\ conns # << >> /\ conns' = Tail(conns)
      /\ Hold(t, Head(conns)) /\ drained' = drained
      /\ at' = [at EXCEPT ![t] = "use"] \/ at' = [at EXCEPT ![t] = "drainClose"]
  BY DEF Receive, Drain, Move
<1>2. /\ Head(conns) \in Conns /\ Head(conns) \in Range(conns)
      /\ Range(conns') = Range(conns) \ {Head(conns)}
  BY <1>1, Received DEF FatihInv, TypeOK, ConnInv, Distinct
<1>3. conn[t] = NoConn
  BY <1>1 DEF FatihInv, ConnInv, Using
<1>4. Dialing' = Dialing
  BY <1>1 DEF FatihInv, TypeOK, Dialing
<1>5. [u \in Threads |-> Held(u)]' =
         [[u \in Threads |-> Held(u)] EXCEPT ![t] = @ \cup {Head(conns)}]
  BY <1>1, <1>2, <1>3, Gets DEF FatihInv
<1>. QED
  BY <1>1, <1>2, <1>4, <1>5 DEF Promise!Take, Dialing, Held

LEMMA CloseDrops ==
    ASSUME FatihInv, NEW t \in Threads, CloseConn(t) \/ DrainClose(t)
    PROVE  \E c \in Conns : Promise!Drop(t, c)
<1>1. /\ at[t] \in {"unusable", "full", "drainClose"} /\ Hold(t, NoConn)
      /\ UNCHANGED <<conns, drained>>
      /\ at' = [at EXCEPT ![t] = "idle"] \/ at' = [at EXCEPT ![t] = "drain"]
  BY DEF CloseConn, DrainClose, CloseSocket, Move, pool
<1>2. conn[t] \in Conns
  BY <1>1 DEF FatihInv, TypeOK, ConnInv, Using
<1>3. Dialing' = Dialing
  BY <1>1 DEF FatihInv, TypeOK, Dialing
<1>4. [u \in Threads |-> Held(u)]' =
         [[u \in Threads |-> Held(u)] EXCEPT ![t] = @ \ {conn[t]}]
  BY <1>1, LetsGo DEF FatihInv
<1>5. conn[t] \in Held(t)
  BY <1>2, PoolAssumption DEF Held
<1>. QED
  BY <1>1, <1>2, <1>3, <1>4, <1>5 DEF Promise!Drop, Dialing, Held

LEMMA DrainedShuts ==
    ASSUME FatihInv, NEW t \in Threads, Drained(t)
    PROVE  Promise!Shut(t)
<1>1. /\ at[t] = "drain" /\ at' = [at EXCEPT ![t] = "idle"]
      /\ conns = << >> /\ drained' = TRUE /\ UNCHANGED <<conns, conn>>
  BY DEF Drained, Move
<1>2. ~drained /\ Range(conns) = {} /\ Range(conns') = {}
  BY <1>1, EmptySeq DEF FatihInv, CloseInv, Closing, Range
<1>3. Dialing' = Dialing
  BY <1>1 DEF FatihInv, TypeOK, Dialing
<1>4. [u \in Threads |-> Held(u)]' =
         [[u \in Threads |-> Held(u)] EXCEPT ![t] = @ \cup {}]
  BY <1>1 DEF Held
<1>. QED
  BY <1>1, <1>2, <1>3, <1>4 DEF Promise!Shut, Dialing, Held

LEMMA PromiseStep ==
    ASSUME FatihInv, [Next]_vars
    PROVE  [Promise!Next]_(Promise!vars)
<1>1. TypeOK
  BY DEF FatihInv
<1>2. ASSUME NEW t \in Threads,
             \/ New(t) \/ Filled(t) \/ GetStart(t) \/ Close(t) \/ ReceiveNil(t)
             \/ MarkUnusable(t) \/ PutFull(t) \/ CloseChan(t)
      PROVE  UNCHANGED Promise!vars
  <2>1. /\ UNCHANGED <<conns, conn, drained>> /\ at[t] \notin {"newDial", "dial"}
        /\ \E to \in Places \ {"newDial", "dial"} : at' = [at EXCEPT ![t] = to]
    BY <1>2 DEF New, Filled, GetStart, Close, ReceiveNil, MarkUnusable, PutFull,
       CloseChan, Move, pool, Places
  <2>. QED
    BY <1>1, <2>1, Stutters
<1>3. ASSUME NEW t \in Threads, Fill(t) \/ Default(t)
      PROVE  Promise!Reserve(t)
  <2>1. /\ UNCHANGED <<conns, conn, drained>> /\ at[t] \in {"fill", "select"}
        /\ \E to \in {"newDial", "dial"} : at' = [at EXCEPT ![t] = to]
    BY <1>3 DEF Fill, Default, Move, pool
  <2>2. ~drained
    BY <1>3 DEF FatihInv, NewInv, CloseInv, Fill, Default, Move
  <2>. QED
    BY <1>1, <2>1, <2>2, Reserves
<1>4. ASSUME NEW t \in Threads, NewFails(t) \/ DialFails(t)
      PROVE  Promise!Fail(t)
  <2>1. /\ UNCHANGED <<conns, conn, drained>> /\ at[t] \in {"newDial", "dial"}
        /\ \E to \in {"close", "idle"} : at' = [at EXCEPT ![t] = to]
    BY <1>4 DEF NewFails, DialFails, Move, pool
  <2>. QED
    BY <1>1, <2>1, Fails
<1>5. CASE UNCHANGED vars
  BY <1>5 DEF vars, Promise!vars
<1>. QED
  BY <1>2, <1>3, <1>4, <1>5, DialledOpens, SendGives, ReceiveTakes, CloseDrops,
     DrainedShuts
  DEF Next, Progress, Promise!Next

\* The channel pool keeps the promise of ConnPool: a connection is in one place, and
\* after Close has emptied the channel nothing is put there, taken or dialled.
THEOREM KeepsPromise == Spec => ImplementsConnPool
<1>1. Init => Promise!Init
  <2>. SUFFICES ASSUME Init PROVE Promise!Init
    OBVIOUS
  <2>1. Range(conns) = {}
    BY EmptySeq DEF Init, Range
  <2>. QED
    BY <2>1 DEF Init, Promise!Init
<1>2. FatihInv /\ [Next]_vars => [Promise!Next]_(Promise!vars)
  BY PromiseStep
<1>. QED
  BY <1>1, <1>2, Inductive, PTL DEF Spec, ImplementsConnPool, Promise!Spec
=============================================================================
