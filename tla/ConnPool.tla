------------------------------ MODULE ConnPool ------------------------------
(***************************************************************************)
(* What a connection pool promises its clients, whatever its data          *)
(* structure and its locking: a connection is with one client or in the    *)
(* pool, never both and never with two clients; a bounded pool never has   *)
(* more connections open or being dialled than its limit; a pool that was  *)
(* shut keeps and dials nothing more.  RedigoPool and FatihPool are shown  *)
(* to implement this module.                                               *)
(***************************************************************************)
EXTENDS Integers, FiniteSets

CONSTANTS Clients,  \* goroutines that get and return connections
          Conns,    \* connection identities; a closed one may be dialled again
          Limit     \* most connections at a time, a natural number; 0 for no limit

VARIABLES pooled,   \* the connections at rest in the pool
          held,     \* the connections each client is responsible for
          dialing,  \* the clients that are establishing a connection
          shut      \* the pool was closed

vars == <<pooled, held, dialing, shut>>

Live == pooled \cup UNION {held[g] : g \in Clients}

TypeOK ==
    /\ pooled \in SUBSET Conns
    /\ held \in [Clients -> SUBSET Conns]
    /\ dialing \in SUBSET Clients
    /\ shut \in BOOLEAN

Init ==
    /\ pooled = {}
    /\ held = [g \in Clients |-> {}]
    /\ dialing = {}
    /\ shut = FALSE

-----------------------------------------------------------------------------
\* A client may start to dial while the pool is open and below its limit.
Reserve(g) ==
    /\ ~shut
    /\ g \notin dialing
    /\ Limit > 0 => Cardinality(Live) + Cardinality(dialing) < Limit
    /\ dialing' = dialing \cup {g}
    /\ UNCHANGED <<pooled, held, shut>>

Open(g, c) ==
    /\ g \in dialing
    /\ c \notin Live
    /\ dialing' = dialing \ {g}
    /\ held' = [held EXCEPT ![g] = @ \cup {c}]
    /\ UNCHANGED <<pooled, shut>>

Fail(g) ==
    /\ g \in dialing
    /\ dialing' = dialing \ {g}
    /\ UNCHANGED <<pooled, held, shut>>

Take(g, c) ==
    /\ c \in pooled
    /\ pooled' = pooled \ {c}
    /\ held' = [held EXCEPT ![g] = @ \cup {c}]
    /\ UNCHANGED <<dialing, shut>>

Give(g, c) ==
    /\ ~shut
    /\ c \in held[g]
    /\ pooled' = pooled \cup {c}
    /\ held' = [held EXCEPT ![g] = @ \ {c}]
    /\ UNCHANGED <<dialing, shut>>

\* A full pool accepts one connection and hands its giver another to close.
Swap(g, c, d) ==
    /\ ~shut
    /\ c \in held[g]
    /\ d \in pooled
    /\ pooled' = (pooled \cup {c}) \ {d}
    /\ held' = [held EXCEPT ![g] = (@ \ {c}) \cup {d}]
    /\ UNCHANGED <<dialing, shut>>

Drop(g, c) ==
    /\ c \in held[g]
    /\ held' = [held EXCEPT ![g] = @ \ {c}]
    /\ UNCHANGED <<pooled, dialing, shut>>

\* The client that shuts the pool becomes responsible for what was in it.
Shut(g) ==
    /\ ~shut
    /\ shut' = TRUE
    /\ pooled' = {}
    /\ held' = [held EXCEPT ![g] = @ \cup pooled]
    /\ UNCHANGED dialing

Next ==
    \E g \in Clients :
        \/ Reserve(g) \/ Fail(g) \/ Shut(g)
        \/ \E c \in Conns : Open(g, c) \/ Take(g, c) \/ Give(g, c) \/ Drop(g, c)
        \/ \E c, d \in Conns : Swap(g, c, d)

Spec == Init /\ [][Next]_vars

-----------------------------------------------------------------------------
\* A connection is in one place: with one client, or in the pool, or closed
\* (two goroutines never read replies from the same socket).
Exclusive ==
    /\ \A g \in Clients : held[g] \cap pooled = {}
    /\ \A g, h \in Clients : g # h => held[g] \cap held[h] = {}

\* MaxActive: "Maximum number of connections allocated by the pool at a given
\* time", the ones being dialled included.
WithinLimit == Limit > 0 => Cardinality(Live) + Cardinality(dialing) =< Limit

\* A pool that was shut holds nothing: what it held is with the client that
\* closes it.
ShutIsEmpty == shut => pooled = {}
=============================================================================
