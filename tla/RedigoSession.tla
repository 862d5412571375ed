---------------------------- MODULE RedigoSession ----------------------------
(***************************************************************************)
(* One pooled connection of redigo through many sessions: the application  *)
(* borrows it, calls Send, Flush, Receive and Do on the activeConn, and    *)
(* activeConn.Close tries to bring the connection back to a neutral state  *)
(* before it is put into the pool.  One goroutine may be in Receive while  *)
(* another calls Send and Flush; Do and Close run alone.                   *)
(*                                                                         *)
(* Commands are their names, replies are "reply", "error", "push" (a       *)
(* message of a subscription or of MONITOR) or "sentinel"; the contents do *)
(* not matter.                                                             *)
(* The Redis server is external: Serve and Push model the part of its      *)
(* protocol that commandInfos and activeConn.Close rely on.                *)
(***************************************************************************)
EXTENDS Integers, SequencesExt

CONSTANTS UserCommands,  \* commands the application issues
          MaxInFlight    \* bound: commands and replies of the application that
                         \* are on their way when it issues another, and
                         \* messages the server pushes ahead of the reader

VARIABLES
    at,       \* where the session is
    flags,    \* activeConn.state, as a set
    pending,  \* conn.pending
    want,     \* replies Do has still to read
    reader,   \* where the goroutine in Receive is
    broken,   \* conn.err # nil
    outbuf,   \* commands in conn.bw
    wire,     \* commands on their way to the server
    replies,  \* what the server sent and the client did not read
    srv,      \* modes of the server's side of the connection
    queued    \* commands the server queued since MULTI that change its mode

client == <<at, flags, pending, want, reader, broken>>
server == <<srv, queued>>
vars == <<client, outbuf, wire, replies, server>>

Commands == {"GET", "WATCH", "UNWATCH", "MULTI", "EXEC", "DISCARD", "SUBSCRIBE",
             "PSUBSCRIBE", "UNSUBSCRIBE", "PUNSUBSCRIBE", "MONITOR", "ECHO"}

\* "ECHO" is Close's, with the sentinel as its argument: an ECHO of the application
\* is answered by something else, and is to the client and the server like a GET.
ASSUME SessionAssumption ==
    /\ UserCommands \subseteq Commands \ {"ECHO"}
    /\ MaxInFlight \in Nat \ {0}

\* commandInfos: what the client takes a command to set and to clear.
SetBy(cmd) ==
    CASE cmd = "WATCH" -> {"watch"}
      [] cmd = "MULTI" -> {"multi"}
      [] cmd \in {"SUBSCRIBE", "PSUBSCRIBE"} -> {"subscribe"}
      [] cmd = "MONITOR" -> {"monitor"}
      [] OTHER -> {}
ClearedBy(cmd) ==
    CASE cmd = "UNWATCH" -> {"watch"}
      [] cmd \in {"EXEC", "DISCARD"} -> {"watch", "multi"}
      [] OTHER -> {}

\* At rest in the pool; with the application; in Do; in Close, reading up to the
\* sentinel; in Close, in Do(""); closed by the pool.
Locations == {"idle", "user", "doing", "draining", "finishing", "gone"}

TypeOK ==
    /\ at \in Locations
    /\ flags \in SUBSET {"watch", "multi", "subscribe", "monitor"}
    /\ pending \in Nat /\ want \in Nat
    /\ reader \in {"none", "waiting", "got"}
    /\ broken \in BOOLEAN
    /\ outbuf \in Seq(Commands) /\ wire \in Seq(Commands)
    /\ replies \in Seq({"reply", "error", "push", "sentinel"})
    /\ srv \in SUBSET {"watch", "multi", "sub", "psub", "monitor"}
    /\ queued \in SUBSET {"SUBSCRIBE", "PSUBSCRIBE", "MONITOR"}

\* A connection as Dial returns it.
Init ==
    /\ at = "user"
    /\ flags = {} /\ pending = 0 /\ want = 0
    /\ reader = "none" /\ broken = FALSE
    /\ outbuf = <<>> /\ wire = <<>> /\ replies = <<>>
    /\ srv = {} /\ queued = {}

-----------------------------------------------------------------------------
\* The application's calls on activeConn and conn.

Note(cmd) == flags' = (flags \cup SetBy(cmd)) \ ClearedBy(cmd)

\* Bound on what is on its way when the application issues a command (and on
\* pending, which a connection that failed goes on to count).
Room ==
    /\ Len(outbuf) + Len(wire) + Len(replies) < MaxInFlight
    /\ pending < MaxInFlight

\* conn.Send writes into the buffer and counts a reply to come.
Send(cmd) ==
    /\ at = "user" /\ Room
    /\ Note(cmd)
    /\ pending' = pending + 1
    /\ outbuf' = IF broken THEN outbuf ELSE Append(outbuf, cmd)
    /\ UNCHANGED <<at, want, reader, broken, wire, replies, server>>

Flush ==
    /\ at = "user" /\ outbuf # <<>>
    /\ wire' = wire \o outbuf
    /\ outbuf' = <<>>
    /\ UNCHANGED <<client, replies, server>>

\* Receive blocks in readReply and counts the reply after it was read.
ReceiveStart ==
    /\ at = "user" /\ reader = "none" /\ ~broken
    /\ reader' = "waiting"
    /\ UNCHANGED <<at, flags, pending, want, broken, outbuf, wire, replies,
                   server>>

ReceiveRead ==
    /\ reader = "waiting" /\ replies # <<>>
    /\ replies' = Tail(replies)
    /\ reader' = "got"
    /\ UNCHANGED <<at, flags, pending, want, broken, outbuf, wire, server>>

\* Mutant of Decremented: the test c.pending > 0 is missing.
DecrementedAlways(n) == n - 1

Decremented(n) == IF n > 0 THEN n - 1 ELSE 0

ReceiveCount ==
    /\ reader = "got"
    /\ pending' = Decremented(pending)
    /\ reader' = "none"
    /\ UNCHANGED <<at, flags, want, broken, outbuf, wire, replies, server>>

\* Mutant of DoStart: c.pending = 0 is missing.
DoStartStillPending(cmd) ==
    /\ at = "user" /\ reader = "none" /\ Room
    /\ Note(cmd)
    /\ IF broken
       THEN UNCHANGED <<at, want, wire, outbuf>>
       ELSE /\ want' = pending + 1
            /\ wire' = wire \o Append(outbuf, cmd)
            /\ outbuf' = <<>>
            /\ at' = "doing"
    /\ UNCHANGED <<pending, reader, broken, replies, server>>

\* Do takes the count of the replies to come, and with cmd its own; on a
\* connection that failed it returns the error.
DoStart(cmd) ==
    /\ at = "user" /\ reader = "none" /\ Room
    /\ Note(cmd)
    /\ pending' = 0
    /\ IF broken
       THEN UNCHANGED <<at, want, wire, outbuf>>
       ELSE /\ want' = pending + 1
            /\ wire' = wire \o Append(outbuf, cmd)
            /\ outbuf' = <<>>
            /\ at' = "doing"
    /\ UNCHANGED <<reader, broken, replies, server>>

DoRead ==
    /\ at = "doing" /\ replies # <<>>
    /\ replies' = Tail(replies)
    /\ want' = want - 1
    /\ at' = IF want = 1 THEN "user" ELSE "doing"
    /\ UNCHANGED <<flags, pending, reader, broken, outbuf, wire, server>>

-----------------------------------------------------------------------------
\* activeConn.Close

\* Mutant of Cleanup: a transaction is ended like a WATCH.
CleanupUnwatchOnly ==
    (IF flags \cap {"multi", "watch"} # {} THEN <<"UNWATCH">> ELSE <<>>)
    \o (IF "subscribe" \in flags
        THEN <<"UNSUBSCRIBE", "PUNSUBSCRIBE", "ECHO">> ELSE <<>>)

\* Mutant of Cleanup: no sentinel is asked for.
CleanupNoSentinel ==
    (IF "multi" \in flags THEN <<"DISCARD">>
     ELSE IF "watch" \in flags THEN <<"UNWATCH">> ELSE <<>>)
    \o (IF "subscribe" \in flags THEN <<"UNSUBSCRIBE", "PUNSUBSCRIBE">> ELSE <<>>)

\* The commands that are to end what the flags say, in the order sent.
Cleanup ==
    (IF "multi" \in flags THEN <<"DISCARD">>
     ELSE IF "watch" \in flags THEN <<"UNWATCH">> ELSE <<>>)
    \o (IF "subscribe" \in flags
        THEN <<"UNSUBSCRIBE", "PUNSUBSCRIBE", "ECHO">> ELSE <<>>)

\* DISCARD and UNWATCH clear their flags when sent; the flag of a subscription
\* is cleared by the sentinel.  A failed connection sends and reads nothing.
CloseStart ==
    /\ at = "user" /\ reader = "none"
    /\ flags' = flags \ {"watch", "multi"}
    /\ pending' = pending + Len(Cleanup)
    /\ IF broken
       THEN at' = "finishing" /\ UNCHANGED <<outbuf, wire>>
       ELSE IF "subscribe" \in flags
       THEN /\ at' = "draining"
            /\ wire' = wire \o outbuf \o Cleanup
            /\ outbuf' = <<>>
       ELSE /\ at' = "finishing"
            /\ outbuf' = outbuf \o Cleanup
            /\ UNCHANGED wire
    /\ UNCHANGED <<want, reader, broken, replies, server>>

\* One Receive of the loop that looks for the sentinel.  Receive returns an error
\* reply as its error, which ends the loop with the flag still set.
Drain ==
    /\ at = "draining" /\ replies # <<>>
    /\ replies' = Tail(replies)
    /\ pending' = Decremented(pending)
    /\ at' = IF Head(replies) \in {"sentinel", "error"} THEN "finishing" ELSE at
    /\ flags' = IF Head(replies) = "sentinel" THEN flags \ {"subscribe"} ELSE flags
    /\ UNCHANGED <<want, reader, broken, outbuf, wire, server>>

\* Do("") flushes what was sent and reads the replies counted.
FinishStart ==
    /\ at = "finishing" /\ ~broken /\ pending > 0
    /\ want' = pending
    /\ pending' = 0
    /\ wire' = wire \o outbuf
    /\ outbuf' = <<>>
    /\ UNCHANGED <<at, flags, reader, broken, replies, server>>

FinishRead ==
    /\ at = "finishing" /\ want > 0 /\ replies # <<>>
    /\ replies' = Tail(replies)
    /\ want' = want - 1
    /\ UNCHANGED <<at, flags, pending, reader, broken, outbuf, wire, server>>

\* Mutant of Put: Close does not call Do("") first.
PutUnfinished ==
    /\ at = "finishing" /\ want = 0
    /\ at' = IF flags # {} \/ broken THEN "gone" ELSE "idle"
    /\ UNCHANGED <<flags, pending, want, reader, broken, outbuf, wire, replies,
                   server>>

\* put(pc, ac.state != 0 || pc.c.Err() != nil)
Put ==
    /\ at = "finishing" /\ want = 0
    /\ pending = 0 \/ broken
    /\ at' = IF flags # {} \/ broken THEN "gone" ELSE "idle"
    /\ UNCHANGED <<flags, pending, want, reader, broken, outbuf, wire, replies,
                   server>>

\* Get returns the idle connection in a new activeConn, or dials again.
Reuse ==
    /\ at = "idle"
    /\ at' = "user" /\ flags' = {}
    /\ UNCHANGED <<pending, want, reader, broken, outbuf, wire, replies, server>>

Redial ==
    /\ at = "gone"
    /\ at' = "user" /\ flags' = {} /\ pending' = 0 /\ broken' = FALSE
    /\ outbuf' = <<>> /\ wire' = <<>> /\ replies' = <<>>
    /\ srv' = {} /\ queued' = {}
    /\ UNCHANGED <<want, reader>>

-----------------------------------------------------------------------------
\* conn.fatal: a read or a write fails or times out.  The socket is closed, and
\* whatever call was in progress ends with the error.
Fail ==
    /\ ~broken
    /\ at \in {"doing", "draining", "finishing"} \/ reader = "waiting"
    /\ broken' = TRUE
    /\ want' = 0
    /\ reader' = IF reader = "waiting" THEN "none" ELSE reader
    /\ at' = CASE at = "doing" -> "user"
               [] at = "draining" -> "finishing"
               [] OTHER -> at
    /\ outbuf' = <<>> /\ wire' = <<>> /\ replies' = <<>>
    /\ srv' = {} /\ queued' = {}
    /\ UNCHANGED <<flags, pending>>

-----------------------------------------------------------------------------
\* The server.

Subscribed == srv \cap {"sub", "psub"} # {}
PubSubCommands == {"SUBSCRIBE", "PSUBSCRIBE", "UNSUBSCRIBE", "PUNSUBSCRIBE"}

\* The mode a command that takes effect ends in.
ModeAfter(cmd) ==
    CASE cmd = "WATCH" -> srv \cup {"watch"}
      [] cmd = "UNWATCH" -> srv \ {"watch"}
      [] cmd = "MULTI" -> srv \cup {"multi"}
      [] cmd = "SUBSCRIBE" -> srv \cup {"sub"}
      [] cmd = "PSUBSCRIBE" -> srv \cup {"psub"}
      [] cmd = "UNSUBSCRIBE" -> srv \ {"sub"}
      [] cmd = "PUNSUBSCRIBE" -> srv \ {"psub"}
      [] cmd = "MONITOR" -> srv \cup {"monitor"}
      [] OTHER -> srv

\* SUBSCRIBE and PSUBSCRIBE are answered once per channel; so are UNSUBSCRIBE and
\* PUNSUBSCRIBE, which name no channel here, and once if there was none.
AnswersTwice(cmd) ==
    \/ cmd \in {"SUBSCRIBE", "PSUBSCRIBE"}
    \/ cmd = "UNSUBSCRIBE" /\ "sub" \in srv
    \/ cmd = "PUNSUBSCRIBE" /\ "psub" \in srv

Answer(cmd) ==
    \/ replies' = Append(replies, IF cmd = "ECHO" THEN "sentinel" ELSE "reply")
    \/ cmd = "GET" /\ replies' = Append(replies, "error")
    \/ AnswersTwice(cmd) /\ replies' = replies \o <<"reply", "reply">>

\* With a subscription only the pub/sub commands are served; EXEC and DISCARD
\* need a transaction.  What is refused is answered by an error.
Refused(cmd) ==
    \/ Subscribed /\ cmd \notin PubSubCommands
    \/ "multi" \in srv /\ cmd \in {"WATCH", "MULTI"}
    \/ "multi" \notin srv /\ cmd \in {"EXEC", "DISCARD"}

ServeRefused(cmd) ==
    /\ Refused(cmd)
    /\ replies' = Append(replies, "error")
    /\ UNCHANGED server

\* Between MULTI and EXEC a command is queued.
ServeQueued(cmd) ==
    /\ ~Refused(cmd) /\ "multi" \in srv /\ cmd \notin {"EXEC", "DISCARD"}
    /\ replies' = Append(replies, "reply")
    /\ queued' = queued \cup ({cmd} \cap {"SUBSCRIBE", "PSUBSCRIBE", "MONITOR"})
    /\ UNCHANGED srv

\* The queued commands take effect or fail, or a queued UNSUBSCRIBE undoes them.
ServeExec ==
    /\ ~Refused("EXEC")
    /\ \E done \in SUBSET queued :
          srv' = (srv \ {"watch", "multi"})
                 \cup (IF "SUBSCRIBE" \in done THEN {"sub"} ELSE {})
                 \cup (IF "PSUBSCRIBE" \in done THEN {"psub"} ELSE {})
                 \cup (IF "MONITOR" \in done THEN {"monitor"} ELSE {})
    /\ queued' = {}
    /\ replies' \in {Append(replies, "reply"), Append(replies, "error")}

ServeDiscard ==
    /\ ~Refused("DISCARD")
    /\ srv' = srv \ {"watch", "multi"}
    /\ queued' = {}
    /\ replies' = Append(replies, "reply")

ServeNow(cmd) ==
    /\ ~Refused(cmd) /\ "multi" \notin srv
    /\ srv' = ModeAfter(cmd)
    /\ Answer(cmd)
    /\ UNCHANGED queued

Serve ==
    /\ wire # <<>>
    /\ wire' = Tail(wire)
    /\ LET cmd == Head(wire)
       IN \/ ServeRefused(cmd)
          \/ ServeQueued(cmd)
          \/ cmd = "EXEC" /\ ServeExec
          \/ cmd = "DISCARD" /\ ServeDiscard
          \/ ServeNow(cmd)
    /\ UNCHANGED <<client, outbuf>>

\* A message of a subscription, or a line of MONITOR.
Push ==
    /\ Subscribed \/ "monitor" \in srv
    /\ Len(replies) < MaxInFlight
    /\ replies' = Append(replies, "push")
    /\ UNCHANGED <<client, outbuf, wire, server>>

-----------------------------------------------------------------------------
\* The steps of a call in progress, and the application's.
Progress ==
    \/ DoRead \/ Drain \/ FinishStart \/ FinishRead \/ Put
    \/ ReceiveRead \/ ReceiveCount

Application ==
    \/ \E cmd \in UserCommands : Send(cmd) \/ DoStart(cmd)
    \/ Flush \/ ReceiveStart \/ CloseStart \/ Reuse \/ Redial

Next == Progress \/ Application \/ Serve \/ Push \/ Fail

Spec == Init /\ [][Next]_vars

\* A call in progress goes on when it can, and the server answers what it
\* receives.  Nothing makes a read fail: without a read timeout it never does.
FairSpec == Spec /\ WF_vars(Progress) /\ WF_vars(Serve)

-----------------------------------------------------------------------------
\* What was sent and not read yet, the reply a Receive holds but has not counted
\* included.
Outstanding ==
    Len(outbuf) + Len(wire) + Len(replies) + (IF reader = "got" THEN 1 ELSE 0)

\* Outside pub/sub and MONITOR, conn.pending (with what Do took from it) is
\* exactly the number of replies to come, over all sessions of the connection
\* and with Receive before Send: the reply that Do returns, the last one it
\* reads, is that of its own command.
PendingMatchesReplies ==
    ~broken /\ at \in {"idle", "user", "doing", "finishing"}
            /\ flags \cap {"subscribe", "monitor"} = {}
        => pending + want = Outstanding

\* The next user of a pooled connection never reads the last one's replies: at
\* rest it is usable, nothing is on its way, and the server pushes nothing.
IdleConnIsQuiet ==
    at = "idle" =>
        ~broken /\ Outstanding = 0 /\ pending = 0 /\ ~Subscribed

\* At rest the server is in no transaction, subscription or MONITOR: "The
\* connection ... must not be in a special state (subscribed to pubsub channel,
\* transaction started, ...)".
IdleConnHasNoMode ==
    at = "idle" => srv \cap {"multi", "sub", "psub", "monitor"} = {}

\* Close puts a connection back into the pool after it sent the commands that end
\* its state ("according to the state it first sends redis the interrupting
\* command, then puts it back into the pool", says its comment): a connection at
\* rest watches no key, so that no transaction of the next user fails for a key of
\* the last one.
IdleConnWatchesNothing == at = "idle" => "watch" \notin srv

\* No call waits in vain: the replies that Do still wants are those of commands the server
\* has, none sits in the write buffer; and while Close looks for its sentinel, the ECHO or
\* an answer that ends the search is on its way, whatever transaction, subscription or
\* refused command came before it.
NoVainWait ==
    /\ want =< Len(wire) + Len(replies)
    /\ at = "draining" =>
          \/ "ECHO" \in Range(wire)
          \/ {"sentinel", "error"} \cap Range(replies) # {}

\* Do and Close never wait for a reply that does not come, subscriptions
\* included: the count of pending replies never exceeds what the server sends.
CallsReturn ==
    at \in {"doing", "draining", "finishing"} ~> at \in {"user", "idle", "gone"}

-----------------------------------------------------------------------------
\* The inductive strengthening of the invariants above, for their proofs.
\* Where the calls are: who reads, what Do has still to read, what a failure leaves.
ControlInv ==
    /\ reader # "none" => at = "user"
    /\ at \in {"idle", "user", "draining", "gone"} => want = 0
    /\ at = "doing" => want > 0
    /\ at = "finishing" => pending = 0 \/ want = 0
    /\ at = "draining" => outbuf = <<>> /\ "subscribe" \in flags
    /\ at = "idle" => flags = {} /\ pending = 0
    /\ at \in {"idle", "doing", "draining"} => ~broken
    /\ broken => /\ outbuf = <<>> /\ wire = <<>> /\ replies = <<>>
                 /\ want = 0 /\ srv = {} /\ queued = {}

\* The client never counts more replies than will come, and exactly those unless a
\* subscription or MONITOR makes the server say more.
CountInv ==
    ~broken =>
        /\ pending + want =< Outstanding
        /\ flags \cap {"subscribe", "monitor"} = {} => pending + want = Outstanding

\* What is sent or in the buffer and not served yet.
Unserved == wire \o outbuf

\* Whatever can put the server into a mode is announced by a flag; with the flag of a
\* transaction down, its end is on its way.
EndsAfter(s, i) == \E j \in DOMAIN s : j > i /\ s[j] \in {"EXEC", "DISCARD"}

ModeInv ==
    /\ queued # {} => "multi" \in srv
    /\ ~("multi" \in srv /\ Subscribed)
    /\ \/ Subscribed
       \/ {"SUBSCRIBE", "PSUBSCRIBE"} \cap (Range(Unserved) \cup queued) # {}
       => "subscribe" \in flags
    /\ "monitor" \in srv \/ "MONITOR" \in Range(Unserved) \cup queued
       => "monitor" \in flags
    /\ "multi" \notin flags =>
          /\ "multi" \in srv => EndsAfter(Unserved, 0)
          /\ \A i \in DOMAIN Unserved :
                Unserved[i] = "MULTI" => EndsAfter(Unserved, i)

\* The sentinel is the last thing Close asks for, and the server says it only outside
\* of subscriptions and transactions: once it is there, nothing follows it, except the
\* lines of MONITOR.
SentinelInv ==
    /\ at \in {"idle", "user", "doing"} =>
          "ECHO" \notin Range(Unserved) /\ "sentinel" \notin Range(replies)
    /\ at = "draining" =>
          /\ \A i \in DOMAIN Unserved : Unserved[i] = "ECHO" => i = Len(Unserved)
          /\ "sentinel" \in Range(replies) =>
                Unserved = <<>> /\ ~Subscribed /\ "multi" \notin srv
          /\ \A i \in DOMAIN replies :
                replies[i] = "sentinel" => i = Len(replies) \/ "monitor" \in flags

\* What is wanted was flushed.  CloseStart takes the flag of a transaction down, so that by
\* ModeInv the ECHO finds none.
WaitInv ==
    /\ want > 0 => outbuf = <<>>
    /\ at = "draining" =>
          /\ "multi" \notin flags
          /\ \/ "ECHO" \in Range(Unserved)
             \/ {"sentinel", "error"} \cap Range(replies) # {}

SessionInv == TypeOK /\ ControlInv /\ CountInv /\ ModeInv /\ SentinelInv
=============================================================================
