--------------------------- MODULE ConnPoolProofs ---------------------------
(***************************************************************************)
(* What the promise of a connection pool amounts to, for every pool that   *)
(* implements ConnPool: a connection has one place, a limit that is        *)
(* finite is kept, and a pool that was shut stays empty.  The limit is     *)
(* about cardinalities, which say something of finite sets only: clients   *)
(* are finitely many, and each step makes one connection live at most.     *)
(***************************************************************************)
EXTENDS ConnPool, FiniteSetTheorems, TLAPS

\* Every variable keeps its type.
LEMMA TypeStep == TypeOK /\ [Next]_vars => TypeOK'
<1>. SUFFICES ASSUME TypeOK, [Next]_vars PROVE TypeOK'
  OBVIOUS
<1>1. CASE UNCHANGED vars
  BY <1>1 DEF vars, TypeOK
<1>2. ASSUME NEW g \in Clients, Reserve(g) \/ Fail(g) \/ Shut(g) PROVE TypeOK'
  BY <1>2 DEF Reserve, Fail, Shut, TypeOK
<1>3. ASSUME NEW g \in Clients, NEW c \in Conns,
             Open(g, c) \/ Take(g, c) \/ Give(g, c) \/ Drop(g, c)
      PROVE  TypeOK'
  BY <1>3 DEF Open, Take, Give, Drop, TypeOK
<1>4. ASSUME NEW g \in Clients, NEW c \in Conns, NEW d \in Conns, Swap(g, c, d)
      PROVE  TypeOK'
  BY <1>4 DEF Swap, TypeOK
<1>. QED
  BY <1>1, <1>2, <1>3, <1>4 DEF Next

\* A connection has one place.  Only a connection that is not live can be opened, and
\* every other step moves one or takes it away.
LEMMA ExclusiveStep == TypeOK /\ Exclusive /\ [Next]_vars => Exclusive'
<1>. SUFFICES ASSUME TypeOK, Exclusive, [Next]_vars PROVE Exclusive'
  OBVIOUS
<1>1. CASE UNCHANGED vars
  BY <1>1 DEF vars, Exclusive
<1>2. ASSUME NEW g \in Clients, Reserve(g) \/ Fail(g) PROVE Exclusive'
  BY <1>2 DEF Reserve, Fail, Exclusive
<1>3. ASSUME NEW g \in Clients, Shut(g) PROVE Exclusive'
  BY <1>3 DEF Shut, Exclusive, TypeOK
<1>4. ASSUME NEW g \in Clients, NEW c \in Conns, Open(g, c) PROVE Exclusive'
  BY <1>4 DEF Open, Exclusive, TypeOK, Live
<1>5. ASSUME NEW g \in Clients, NEW c \in Conns, Take(g, c) PROVE Exclusive'
  BY <1>5 DEF Take, Exclusive, TypeOK
<1>6. ASSUME NEW g \in Clients, NEW c \in Conns, Give(g, c) PROVE Exclusive'
  BY <1>6 DEF Give, Exclusive, TypeOK
<1>7. ASSUME NEW g \in Clients, NEW c \in Conns, Drop(g, c) PROVE Exclusive'
  BY <1>7 DEF Drop, Exclusive, TypeOK
<1>8. ASSUME NEW g \in Clients, NEW c \in Conns, NEW d \in Conns, Swap(g, c, d)
      PROVE  Exclusive'
  BY <1>8 DEF Swap, Exclusive, TypeOK
<1>. QED
  BY <1>1, <1>2, <1>3, <1>4, <1>5, <1>6, <1>7, <1>8 DEF Next

\* Two goroutines never read replies from the same socket: a connection is with one
\* client, or in the pool, or closed.
THEOREM OnePlace == Spec => []Exclusive
<1>1. Init => TypeOK /\ Exclusive
  BY DEF Init, TypeOK, Exclusive
<1>2. TypeOK /\ Exclusive /\ [Next]_vars => TypeOK' /\ Exclusive'
  BY TypeStep, ExclusiveStep
<1>. QED
  BY <1>1, <1>2, PTL DEF Spec

\* A pool that was shut holds nothing again: no client can give it a connection.
THEOREM StaysEmpty == Spec => []ShutIsEmpty
<1>1. Init => ShutIsEmpty
  BY DEF Init, ShutIsEmpty
<1>2. ShutIsEmpty /\ [Next]_vars => ShutIsEmpty'
  BY DEF ShutIsEmpty, Next, vars, Reserve, Fail, Shut, Open, Take, Give, Drop, Swap
<1>. QED
  BY <1>1, <1>2, PTL DEF Spec

-----------------------------------------------------------------------------
\* What is live after a step: a dial that succeeded adds one connection, no other step
\* adds any.
LEMMA LiveStep ==
    ASSUME TypeOK, [Next]_vars
    PROVE  \/ Live' \subseteq Live
           \/ \E g \in Clients, c \in Conns : Open(g, c) /\ Live' = Live \cup {c}
<1>1. CASE UNCHANGED vars
  BY <1>1 DEF vars, Live
<1>2. ASSUME NEW g \in Clients, Reserve(g) \/ Fail(g) PROVE Live' = Live
  BY <1>2 DEF Reserve, Fail, Live
<1>3. ASSUME NEW g \in Clients, Shut(g) PROVE Live' \subseteq Live
  BY <1>3 DEF Shut, Live, TypeOK
<1>4. ASSUME NEW g \in Clients, NEW c \in Conns, Open(g, c)
      PROVE  Live' = Live \cup {c}
  <2>1. /\ pooled' = pooled /\ held'[g] = held[g] \cup {c}
        /\ \A h \in Clients : h # g => held'[h] = held[h]
    BY <1>4 DEF Open, TypeOK
  <2>. QED
    BY <2>1 DEF Live
<1>5. ASSUME NEW g \in Clients, NEW c \in Conns, Take(g, c) PROVE Live' \subseteq Live
  BY <1>5 DEF Take, Live, TypeOK
<1>6. ASSUME NEW g \in Clients, NEW c \in Conns, Give(g, c) PROVE Live' \subseteq Live
  BY <1>6 DEF Give, Live, TypeOK
<1>7. ASSUME NEW g \in Clients, NEW c \in Conns, Drop(g, c) PROVE Live' \subseteq Live
  BY <1>7 DEF Drop, Live, TypeOK
<1>8. ASSUME NEW g \in Clients, NEW c \in Conns, NEW d \in Conns, Swap(g, c, d)
      PROVE  Live' \subseteq Live
  BY <1>8 DEF Swap, Live, TypeOK
<1>. QED
  BY <1>1, <1>2, <1>3, <1>4, <1>5, <1>6, <1>7, <1>8 DEF Next

\* Who dials after a step.
LEMMA DialingStep ==
    ASSUME TypeOK, [Next]_vars
    PROVE  \/ dialing' \subseteq dialing
           \/ \E g \in Clients : Reserve(g)
BY DEF Next, vars, Reserve, Fail, Shut, Open, Take, Give, Drop, Swap

\* A limit is kept by the reservation alone: a dial that succeeds turns a reservation
\* into a connection, everything else only lowers the sum.
LimitInv == IsFiniteSet(Live) /\ WithinLimit

LEMMA LimitStep ==
    ASSUME IsFiniteSet(Clients), Limit \in Nat,
           TypeOK, LimitInv, [Next]_vars
    PROVE  LimitInv'
<1>1. IsFiniteSet(dialing) /\ Cardinality(dialing) \in Nat /\ Cardinality(Live) \in Nat
  BY FS_Subset, FS_CardinalityType DEF TypeOK, LimitInv
<1>2. CASE \E g \in Clients, c \in Conns : Open(g, c) /\ Live' = Live \cup {c}
  <2>1. PICK g \in Clients, c \in Conns : Open(g, c) /\ Live' = Live \cup {c}
    BY <1>2
  <2>2. IsFiniteSet(Live') /\ Cardinality(Live') = Cardinality(Live) + 1
    BY <2>1, FS_AddElement DEF Open, LimitInv
  <2>3. Cardinality(dialing') = Cardinality(dialing) - 1
    BY <1>1, <2>1, FS_RemoveElement DEF Open
  <2>4. Cardinality(Live') + Cardinality(dialing') = Cardinality(Live) + Cardinality(dialing)
    BY <1>1, <2>2, <2>3
  <2>. QED
    BY <2>2, <2>4 DEF LimitInv, WithinLimit
<1>3. CASE Live' \subseteq Live
  <2>1. /\ IsFiniteSet(Live') /\ Cardinality(Live') \in Nat
        /\ Cardinality(Live') =< Cardinality(Live)
    BY <1>3, FS_Subset, FS_CardinalityType DEF LimitInv
  <2>2. CASE dialing' \subseteq dialing
    <3>1. Cardinality(dialing') \in Nat /\ Cardinality(dialing') =< Cardinality(dialing)
      BY <1>1, <2>2, FS_Subset, FS_CardinalityType
    <3>2. Limit > 0 => Cardinality(Live) + Cardinality(dialing) =< Limit
      BY DEF LimitInv, WithinLimit
    <3>3. Limit > 0 => Cardinality(Live') + Cardinality(dialing') =< Limit
      BY <1>1, <2>1, <3>1, <3>2
    <3>. QED
      BY <2>1, <3>3 DEF LimitInv, WithinLimit
  <2>3. CASE \E g \in Clients : Reserve(g)
    <3>1. PICK g \in Clients : Reserve(g)
      BY <2>3
    <3>2. Cardinality(dialing') = Cardinality(dialing) + 1
      BY <1>1, <3>1, FS_AddElement DEF Reserve
    <3>3. Limit > 0 => Cardinality(Live) + Cardinality(dialing) < Limit
      BY <3>1 DEF Reserve
    <3>4. Limit > 0 => Cardinality(Live') + Cardinality(dialing') =< Limit
      BY <1>1, <2>1, <3>2, <3>3
    <3>. QED
      BY <2>1, <3>4 DEF LimitInv, WithinLimit
  <2>. QED
    BY <2>2, <2>3, DialingStep
<1>. QED
  BY <1>2, <1>3, LiveStep

\* "Maximum number of connections allocated by the pool at a given time": the live
\* connections and the dials under way never exceed the limit.
THEOREM LimitPromised ==
    ASSUME IsFiniteSet(Clients), Limit \in Nat
    PROVE  Spec => []WithinLimit
<1>1. Init => TypeOK /\ LimitInv
  <2>. SUFFICES ASSUME Init PROVE TypeOK /\ LimitInv
    OBVIOUS
  <2>1. Live = {} /\ dialing = {}
    BY DEF Init, Live
  <2>2. TypeOK
    BY DEF Init, TypeOK
  <2>. QED
    BY <2>1, <2>2, FS_EmptySet DEF LimitInv, WithinLimit
<1>2. TypeOK /\ LimitInv /\ [Next]_vars => TypeOK' /\ LimitInv'
  BY TypeStep, LimitStep
<1>3. LimitInv => WithinLimit
  BY DEF LimitInv
<1>. QED
  BY <1>1, <1>2, <1>3, PTL DEF Spec
=============================================================================
