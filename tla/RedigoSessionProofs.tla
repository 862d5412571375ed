------------------------- MODULE RedigoSessionProofs -------------------------
(***************************************************************************)
(* Proofs about the sessions of a redigo connection, for any commands of   *)
(* the application and any number of them in flight: the client counts     *)
(* exactly the replies to come, and a connection that activeConn.Close     *)
(* brings back to rest is quiet and in no mode.  The client's side and the *)
(* server's are related by what is not served yet, the sequence Unserved:  *)
(* a step of the client adds to its end, a step of the server takes its    *)
(* head.                                                                   *)
(***************************************************************************)
EXTENDS RedigoSession, SequenceTheorems, TLAPS

Enders == {"EXEC", "DISCARD"}
Replies == {"reply", "error", "push", "sentinel"}

-----------------------------------------------------------------------------
\* Sequences: what a concatenation consists of, and what is left without the head.
LEMMA Joined ==
    ASSUME NEW S, NEW s \in Seq(S), NEW t \in Seq(S)
    PROVE  /\ s \o t \in Seq(S)
           /\ Len(s) \in Nat /\ Len(t) \in Nat
           /\ DOMAIN s = 1..Len(s) /\ DOMAIN t = 1..Len(t)
           /\ Len(s \o t) = Len(s) + Len(t)
           /\ DOMAIN (s \o t) = 1..Len(s) + Len(t)
           /\ Range(s \o t) = Range(s) \cup Range(t)
           /\ \A i \in 1..Len(s) : (s \o t)[i] = s[i]
           /\ \A i \in 1..Len(t) : (s \o t)[Len(s) + i] = t[i]
           /\ \A i \in 1..Len(s) + Len(t) :
                 i \in 1..Len(s) \/ \E j \in 1..Len(t) : i = Len(s) + j
<1>. DEFINE u == s \o t
<1>1. /\ u \in Seq(S) /\ Len(u) = Len(s) + Len(t)
      /\ Len(s) \in Nat /\ Len(t) \in Nat
      /\ DOMAIN s = 1..Len(s) /\ DOMAIN t = 1..Len(t) /\ DOMAIN u = 1..Len(u)
  BY ConcatProperties, LenProperties
<1>2. \A i \in 1..Len(s) + Len(t) : u[i] = IF i <= Len(s) THEN s[i] ELSE t[i - Len(s)]
  BY ConcatProperties, Zenon
<1>3. Range(u) = Range(s) \cup Range(t)
  BY RangeConcatenation
<1>. HIDE DEF u
<1>4. ASSUME NEW m \in Nat, NEW n \in Nat
      PROVE  /\ \A i \in 1..m : i \in 1..m + n /\ i <= m
             /\ \A i \in 1..n : m + i \in 1..m + n /\ ~(m + i <= m) /\ m + i - m = i
             /\ \A i \in 1..m + n : i \in 1..m \/ \E j \in 1..n : i = m + j
  <2>1. ASSUME NEW i \in 1..m + n, i \notin 1..m
        PROVE  \E j \in 1..n : i = m + j
    <3>1. i - m \in 1..n /\ i = m + (i - m)
      BY <2>1
    <3>. QED
      BY <3>1
  <2>. QED
    BY <2>1
<1>5. \A i \in 1..Len(s) : u[i] = s[i]
  BY <1>1, <1>2, <1>4
<1>6. \A i \in 1..Len(t) : u[Len(s) + i] = t[i]
  BY <1>1, <1>2, <1>4
<1>7. \A i \in 1..Len(s) + Len(t) :
                 i \in 1..Len(s) \/ \E j \in 1..Len(t) : i = Len(s) + j
  BY <1>1, <1>4
<1>. QED
  BY <1>1, <1>3, <1>5, <1>6, <1>7 DEF u

LEMMA TailOf ==
    ASSUME NEW S, NEW s \in Seq(S), s # <<>>
    PROVE  /\ Tail(s) \in Seq(S) /\ Head(s) \in S /\ Head(s) = s[1]
           /\ Len(s) \in Nat \ {0} /\ Len(Tail(s)) = Len(s) - 1
           /\ DOMAIN s = 1..Len(s) /\ DOMAIN Tail(s) = 1..Len(s) - 1
           /\ \A i \in 1..Len(s) - 1 : i + 1 \in 1..Len(s) /\ Tail(s)[i] = s[i + 1]
           /\ \A i \in 1..Len(s) : i # 1 => i - 1 \in 1..Len(s) - 1 /\ Tail(s)[i - 1] = s[i]
           /\ Range(s) = {Head(s)} \cup Range(Tail(s))
<1>1. PICK n \in Nat : Len(s) = n + 1 /\ Len(s) - 1 = n
  <2>1. Len(s) \in Nat \ {0}
    BY EmptySeq, LenProperties
  <2>. QED
    BY <2>1
<1>. DEFINE r == Tail(s)
<1>2. /\ r \in Seq(S) /\ Head(s) \in S /\ Head(s) = s[1]
      /\ DOMAIN s = 1..n + 1 /\ DOMAIN r = 1..n /\ Len(r) = n
      /\ \A i \in 1..n : r[i] = s[i + 1]
  BY <1>1, HeadTailProperties, LenProperties
<1>. HIDE DEF r
<1>3. /\ \A i \in 1..n : i + 1 \in 1..n + 1
      /\ \A i \in 1..n + 1 : i # 1 => i - 1 \in 1..n /\ (i - 1) + 1 = i
  OBVIOUS
<1>4. \A i \in 1..n + 1 : i # 1 => r[i - 1] = s[i]
  BY <1>2, <1>3
<1>5. Range(s) = {Head(s)} \cup Range(r)
  <2>1. ASSUME NEW i \in 1..n + 1 PROVE s[i] \in {Head(s)} \cup Range(r)
    BY <1>2, <1>3, <1>4 DEF Range
  <2>2. ASSUME NEW i \in 1..n PROVE r[i] \in Range(s)
    BY <1>2, <1>3 DEF Range
  <2>3. Head(s) \in Range(s)
    <3>1. 1 \in 1..n + 1
      OBVIOUS
    <3>. QED
      BY <1>2, <3>1 DEF Range
  <2>4. Range(s) \subseteq {Head(s)} \cup Range(r)
    BY <1>2, <2>1 DEF Range
  <2>5. Range(r) \subseteq Range(s)
    BY <1>2, <2>2 DEF Range
  <2>. QED
    BY <2>3, <2>4, <2>5
<1>. QED
  BY <1>1, <1>2, <1>3, <1>4, <1>5 DEF r

LEMMA EmptyRange == Range(<<>>) = {} /\ DOMAIN <<>> = {} /\ Len(<<>>) = 0
BY EmptySeq DEF Range

LEMMA One ==
    ASSUME NEW S, NEW c \in S
    PROVE  /\ <<c>> \in Seq(S) /\ Len(<<c>>) = 1 /\ <<c>>[1] = c
           /\ DOMAIN <<c>> = 1..1 /\ Range(<<c>>) = {c}
BY DEF Range

\* The head of a concatenation is taken from its first part.
LEMMA TailJoined ==
    ASSUME NEW S, NEW s \in Seq(S), NEW t \in Seq(S), s # <<>>
    PROVE  Tail(s) \o t = Tail(s \o t) /\ Head(s) = Head(s \o t) /\ s \o t # <<>>
<1>1. /\ <<Head(s)>> \o Tail(s) = s /\ Head(s) \in S /\ Tail(s) \in Seq(S)
  BY HeadTailProperties
<1>2. <<Head(s)>> \in Seq(S) /\ Len(<<Head(s)>>) = 1
  BY <1>1
<1>. QED
  BY <1>1, <1>2, ConcatAssociative, ConcatProperties, HeadTailProperties, ConcatEqualIffEmpty

-----------------------------------------------------------------------------
\* What Close sends: it ends what the flags say, and asks for the sentinel last.
Ending == {"DISCARD", "UNWATCH", "UNSUBSCRIBE", "PUNSUBSCRIBE", "ECHO"}

LEMMA CleanupSends ==
    /\ Cleanup \in Seq(Commands)
    /\ DOMAIN Cleanup = 1..Len(Cleanup)
    /\ \A i \in DOMAIN Cleanup : Cleanup[i] \in Ending
    /\ \A i \in DOMAIN Cleanup : Cleanup[i] = "ECHO" => i = Len(Cleanup)
    /\ "multi" \in flags => \E i \in DOMAIN Cleanup : Cleanup[i] = "DISCARD"
    /\ Range(Cleanup) \subseteq Ending
<1>. DEFINE a == IF "multi" \in flags THEN <<"DISCARD">>
                 ELSE IF "watch" \in flags THEN <<"UNWATCH">> ELSE <<>>
            b == IF "subscribe" \in flags
                 THEN <<"UNSUBSCRIBE", "PUNSUBSCRIBE", "ECHO">> ELSE <<>>
<1>1. a \in Seq(Commands)
  <2>1. <<"DISCARD">> \in Seq(Commands) /\ <<"UNWATCH">> \in Seq(Commands)
    BY DEF Commands
  <2>. QED
    BY <2>1, EmptySeq
<1>2. b \in Seq(Commands)
  <2>1. <<"UNSUBSCRIBE", "PUNSUBSCRIBE", "ECHO">> \in Seq(Commands)
    BY DEF Commands
  <2>. QED
    BY <2>1, EmptySeq
<1>3. \A i \in 1..Len(a) : a[i] \in {"DISCARD", "UNWATCH"}
  BY EmptyRange
<1>4. Len(b) = 0 \/ /\ Len(b) = 3
                    /\ b[1] = "UNSUBSCRIBE" /\ b[2] = "PUNSUBSCRIBE" /\ b[3] = "ECHO"
  BY EmptyRange
<1>5. "multi" \in flags => 1 \in 1..Len(a) /\ a[1] = "DISCARD"
  OBVIOUS
<1>6. Cleanup = a \o b
  BY DEF Cleanup
<1>. HIDE DEF a, b
<1>7. /\ Cleanup \in Seq(Commands) /\ Len(a) \in Nat /\ Len(b) \in Nat
      /\ DOMAIN Cleanup = 1..Len(a) + Len(b)
      /\ Len(Cleanup) = Len(a) + Len(b)
      /\ \A i \in 1..Len(a) : Cleanup[i] = a[i]
      /\ \A i \in 1..Len(b) : Cleanup[Len(a) + i] = b[i]
      /\ \A i \in 1..Len(a) + Len(b) :
            i \in 1..Len(a) \/ \E j \in 1..Len(b) : i = Len(a) + j
  BY <1>1, <1>2, <1>6, Joined
<1>8. \A j \in 1..Len(b) : /\ b[j] \in Ending
                           /\ b[j] = "ECHO" => j = Len(b)
  <2>1. CASE Len(b) = 0
    BY <2>1
  <2>2. CASE Len(b) # 0
    <3>1. \A j \in 1..3 : j = 1 \/ j = 2 \/ j = 3
      OBVIOUS
    <3>. QED
      BY <1>4, <2>2, <3>1 DEF Ending
  <2>. QED
    BY <2>1, <2>2
<1>9. \A i \in 1..Len(a) : Cleanup[i] \in {"DISCARD", "UNWATCH"}
  BY <1>3, <1>7
<1>10. \A i \in 1..Len(a) + Len(b) : /\ Cleanup[i] \in Ending
                                     /\ Cleanup[i] = "ECHO" => i = Len(a) + Len(b)
  <2>1. ASSUME NEW i \in 1..Len(a)
        PROVE  Cleanup[i] \in Ending /\ Cleanup[i] # "ECHO"
    <3>1. Cleanup[i] \in {"DISCARD", "UNWATCH"}
      BY <1>9
    <3>. QED
      BY <3>1 DEF Ending
  <2>2. ASSUME NEW j \in 1..Len(b)
        PROVE  /\ Cleanup[Len(a) + j] \in Ending
               /\ Cleanup[Len(a) + j] = "ECHO" => Len(a) + j = Len(a) + Len(b)
    <3>1. Cleanup[Len(a) + j] = b[j]
      BY <1>7
    <3>2. b[j] \in Ending /\ (b[j] = "ECHO" => j = Len(b))
      BY <1>8
    <3>. QED
      BY <3>1, <3>2, Zenon
  <2>3. ASSUME NEW i \in 1..Len(a) + Len(b)
        PROVE  /\ Cleanup[i] \in Ending
               /\ Cleanup[i] = "ECHO" => i = Len(a) + Len(b)
    <3>1. CASE i \in 1..Len(a)
      BY <3>1, <2>1, Zenon
    <3>2. CASE \E j \in 1..Len(b) : i = Len(a) + j
      BY <3>2, <2>2, Zenon
    <3>3. i \in 1..Len(a) \/ \E j \in 1..Len(b) : i = Len(a) + j
      BY <1>7, Zenon
    <3>. QED
      BY <3>1, <3>2, <3>3, Zenon
  <2>. QED
    BY <2>3, Zenon
<1>11. "multi" \in flags => \E i \in 1..Len(a) + Len(b) : Cleanup[i] = "DISCARD"
  <2>1. "multi" \in flags => 1 \in 1..Len(a) + Len(b) /\ Cleanup[1] = "DISCARD"
    BY <1>5, <1>7
  <2>. QED
    BY <2>1
<1>12. Range(Cleanup) \subseteq Ending
  BY <1>7, <1>10 DEF Range
<1>. QED
  BY <1>7, <1>10, <1>11, <1>12

\* What the steps do to the sequence of commands that are not served yet.
LEMMA UnservedType ==
    ASSUME TypeOK
    PROVE  /\ Unserved \in Seq(Commands)
           /\ Len(Unserved) \in Nat /\ Len(outbuf) \in Nat /\ Len(wire) \in Nat
           /\ Len(Unserved) = Len(wire) + Len(outbuf)
BY Joined DEF TypeOK, Unserved

LEMMA UnservedSame ==
    UNCHANGED <<outbuf, wire>> => Unserved' = Unserved
BY DEF Unserved

LEMMA CommandUnserved ==
    ASSUME TypeOK, NEW cmd \in Commands, Send(cmd) \/ DoStart(cmd)
    PROVE  Unserved' = IF broken THEN Unserved ELSE Unserved \o <<cmd>>
<1>1. /\ wire \in Seq(Commands) /\ outbuf \in Seq(Commands)
      /\ <<cmd>> \in Seq(Commands) /\ <<>> \in Seq(Commands)
  BY EmptySeq DEF TypeOK
<1>2. Append(outbuf, cmd) = outbuf \o <<cmd>>
  BY <1>1, AppendIsConcat
<1>3. wire \o (outbuf \o <<cmd>>) = (wire \o outbuf) \o <<cmd>>
  BY <1>1, ConcatAssociative
<1>4. wire \o Append(outbuf, cmd) \in Seq(Commands)
  BY <1>1, <1>2, ConcatProperties
<1>5. (wire \o Append(outbuf, cmd)) \o <<>> = wire \o Append(outbuf, cmd)
  BY <1>4, ConcatEmptySeq
<1>6. CASE Send(cmd)
  BY <1>2, <1>3, <1>6 DEF Send, Unserved
<1>7. CASE DoStart(cmd)
  BY <1>2, <1>3, <1>5, <1>7 DEF DoStart, Unserved
<1>. QED
  BY <1>6, <1>7

LEMMA CloseUnserved ==
    ASSUME TypeOK, CloseStart
    PROVE  Unserved' = IF broken THEN Unserved ELSE Unserved \o Cleanup
<1>1. /\ wire \in Seq(Commands) /\ outbuf \in Seq(Commands)
      /\ Cleanup \in Seq(Commands)
  BY CleanupSends DEF TypeOK
<1>2. wire \o (outbuf \o Cleanup) = (wire \o outbuf) \o Cleanup
  BY <1>1, ConcatAssociative
<1>3. (wire \o outbuf) \o Cleanup \in Seq(Commands)
  BY <1>1, ConcatProperties
<1>4. ((wire \o outbuf) \o Cleanup) \o <<>> = (wire \o outbuf) \o Cleanup
  BY <1>3, ConcatEmptySeq
<1>. QED
  BY <1>2, <1>4 DEF CloseStart, Unserved

LEMMA FlushUnserved ==
    ASSUME TypeOK, wire' = wire \o outbuf, outbuf' = <<>>
    PROVE  Unserved' = Unserved
<1>1. (wire \o outbuf) \o <<>> = wire \o outbuf
  BY UnservedType, ConcatEmptySeq DEF Unserved
<1>. QED
  BY <1>1 DEF Unserved

LEMMA ServeUnserved ==
    ASSUME TypeOK, Serve
    PROVE  /\ Unserved # <<>> /\ Unserved' = Tail(Unserved)
           /\ Head(wire) = Head(Unserved) /\ Head(wire) \in Commands
<1>1. wire \in Seq(Commands) /\ outbuf \in Seq(Commands)
  BY DEF TypeOK
<1>2. wire # <<>> /\ wire' = Tail(wire) /\ outbuf' = outbuf
  BY DEF Serve
<1>3. Head(wire) \in Commands
  BY <1>1, <1>2, HeadTailProperties
<1>4. /\ wire \o outbuf # <<>> /\ Head(wire \o outbuf) = Head(wire)
      /\ Tail(wire \o outbuf) = Tail(wire) \o outbuf
  BY <1>1, <1>2, TailJoined
<1>. QED
  BY <1>2, <1>3, <1>4 DEF Unserved

-----------------------------------------------------------------------------
\* The flags a command sets and clears.
LEMMA Flags ==
    ASSUME NEW cmd \in Commands
    PROVE  /\ SetBy(cmd) \subseteq {"watch", "multi", "subscribe", "monitor"}
           /\ ClearedBy(cmd) \subseteq {"watch", "multi"}
           /\ cmd \in {"SUBSCRIBE", "PSUBSCRIBE"} => "subscribe" \in SetBy(cmd)
           /\ cmd = "MONITOR" => "monitor" \in SetBy(cmd)
           /\ cmd = "MULTI" => "multi" \in SetBy(cmd) /\ ClearedBy(cmd) = {}
           /\ "multi" \in ClearedBy(cmd) => cmd \in Enders
BY DEF SetBy, ClearedBy, Commands, Enders

\* What is one command later.
LEMMA NoteFlags ==
    ASSUME TypeOK, NEW cmd \in Commands, Note(cmd)
    PROVE  /\ flags' \in SUBSET {"watch", "multi", "subscribe", "monitor"}
           /\ flags \cap {"subscribe", "monitor"} \subseteq flags'
           /\ cmd \in {"SUBSCRIBE", "PSUBSCRIBE"} => "subscribe" \in flags'
           /\ cmd = "MONITOR" => "monitor" \in flags'
           /\ cmd = "MULTI" => "multi" \in flags'
           /\ "multi" \notin flags' => "multi" \notin flags \/ cmd \in Enders
BY Flags DEF TypeOK, Note

\* What the server says and does when it serves a command.
LEMMA Served ==
    ASSUME TypeOK, Serve
    PROVE  /\ \/ \E r \in Replies : replies' = Append(replies, r)
              \/ /\ AnswersTwice(Head(wire))
                 /\ replies' = replies \o <<"reply", "reply">>
           /\ srv' \in SUBSET {"watch", "multi", "sub", "psub", "monitor"}
           /\ queued' \in SUBSET {"SUBSCRIBE", "PSUBSCRIBE", "MONITOR"}
           /\ UNCHANGED <<client, outbuf>> /\ wire' = Tail(wire) /\ wire # <<>>
<1>. DEFINE cmd == Head(wire)
<1>1. CASE ServeRefused(cmd)
  BY <1>1 DEF Serve, ServeRefused, TypeOK, server, Replies
<1>2. CASE ServeQueued(cmd)
  BY <1>2 DEF Serve, ServeQueued, TypeOK, Replies
<1>3. CASE ServeExec
  BY <1>3 DEF Serve, ServeExec, TypeOK, Replies
<1>4. CASE ServeDiscard
  BY <1>4 DEF Serve, ServeDiscard, TypeOK, Replies
<1>5. CASE ServeNow(cmd)
  <2>1. srv' \in SUBSET {"watch", "multi", "sub", "psub", "monitor"}
    BY <1>5 DEF ServeNow, ModeAfter, TypeOK
  <2>2. \/ \E r \in Replies : replies' = Append(replies, r)
        \/ AnswersTwice(cmd) /\ replies' = replies \o <<"reply", "reply">>
    BY <1>5 DEF ServeNow, Answer, Replies
  <2>. QED
    BY <1>5, <2>1, <2>2 DEF Serve, ServeNow, TypeOK
<1>. QED
  BY <1>1, <1>2, <1>3, <1>4, <1>5 DEF Serve

-----------------------------------------------------------------------------
\* Types.
LEMMA RepliesType ==
    ASSUME TypeOK, NEW r \in Replies
    PROVE  /\ Append(replies, r) \in Seq(Replies)
           /\ replies \o <<"reply", "reply">> \in Seq(Replies)
           /\ replies # <<>> => Tail(replies) \in Seq(Replies)
<1>1. replies \in Seq(Replies) /\ <<"reply", "reply">> \in Seq(Replies)
  BY DEF TypeOK, Replies
<1>. QED
  BY <1>1, AppendProperties, ConcatProperties, HeadTailProperties

LEMMA WireType ==
    ASSUME TypeOK, NEW cmd \in Commands
    PROVE  /\ Append(outbuf, cmd) \in Seq(Commands)
           /\ wire \o Append(outbuf, cmd) \in Seq(Commands)
           /\ wire \o outbuf \in Seq(Commands)
           /\ (wire \o outbuf) \o Cleanup \in Seq(Commands)
           /\ outbuf \o Cleanup \in Seq(Commands)
           /\ <<>> \in Seq(Commands) /\ Len(Cleanup) \in Nat
           /\ wire # <<>> => Tail(wire) \in Seq(Commands)
<1>1. /\ wire \in Seq(Commands) /\ outbuf \in Seq(Commands)
      /\ Cleanup \in Seq(Commands)
  BY CleanupSends DEF TypeOK
<1>2. Append(outbuf, cmd) \in Seq(Commands) /\ wire \o outbuf \in Seq(Commands)
  BY <1>1, AppendProperties, ConcatProperties
<1>. QED
  BY <1>1, <1>2, ConcatProperties, EmptySeq, LenProperties, HeadTailProperties

LEMMA TypeStep == TypeOK /\ ControlInv /\ [Next]_vars => TypeOK'
<1>. SUFFICES ASSUME TypeOK, ControlInv, [Next]_vars
              PROVE  TypeOK'
  OBVIOUS
<1>a. \A r \in Replies : /\ Append(replies, r) \in Seq(Replies)
                         /\ replies \o <<"reply", "reply">> \in Seq(Replies)
                         /\ replies # <<>> => Tail(replies) \in Seq(Replies)
  BY RepliesType
<1>b. "reply" \in Replies /\ "push" \in Replies
  BY DEF Replies
<1>c. UserCommands \subseteq Commands /\ "GET" \in Commands
  BY SessionAssumption DEF Commands
<1>d. /\ pending \in Nat /\ want \in Nat /\ pending + 1 \in Nat /\ 0 \in Nat
      /\ Decremented(pending) \in Nat
      /\ want > 0 => want - 1 \in Nat
  BY DEF TypeOK, Decremented
<1>e. /\ wire \o outbuf \in Seq(Commands) /\ (wire \o outbuf) \o Cleanup \in Seq(Commands)
      /\ outbuf \o Cleanup \in Seq(Commands)
      /\ <<>> \in Seq(Commands) /\ Len(Cleanup) \in Nat
      /\ wire # <<>> => Tail(wire) \in Seq(Commands)
  BY <1>c, WireType
<1>f. <<>> \in Seq(Replies)
  BY EmptySeq
<1>. USE DEF Replies
<1>1. ASSUME NEW cmd \in UserCommands, Send(cmd) PROVE TypeOK'
  <2>1. Append(outbuf, cmd) \in Seq(Commands)
    BY <1>c, WireType
  <2>2. flags' \in SUBSET {"watch", "multi", "subscribe", "monitor"}
    BY <1>c, <1>1, NoteFlags DEF Send
  <2>. QED
    BY <1>1, <1>d, <2>1, <2>2 DEF Send, TypeOK, server
<1>2. ASSUME NEW cmd \in UserCommands, DoStart(cmd) PROVE TypeOK'
  <2>1. wire \o Append(outbuf, cmd) \in Seq(Commands)
    BY <1>c, WireType
  <2>2. flags' \in SUBSET {"watch", "multi", "subscribe", "monitor"}
    BY <1>c, <1>2, NoteFlags DEF DoStart
  <2>. QED
    BY <1>2, <1>d, <1>e, <2>1, <2>2 DEF DoStart, TypeOK, server, Locations
<1>3. CASE Flush
  BY <1>3, <1>e DEF Flush, TypeOK, client, server
<1>4. CASE ReceiveStart \/ ReceiveRead \/ ReceiveCount
  BY <1>4, <1>a, <1>b, <1>d DEF ReceiveStart, ReceiveRead, ReceiveCount, TypeOK, server
<1>5. CASE DoRead \/ FinishRead
  <2>1. want' \in Nat
    BY <1>5, <1>d DEF DoRead, FinishRead, ControlInv
  <2>. QED
    BY <1>5, <1>a, <1>b, <2>1 DEF DoRead, FinishRead, TypeOK, server, Locations
<1>6. CASE CloseStart
  <2>1. pending + Len(Cleanup) \in Nat
    BY <1>d, <1>e
  <2>2. /\ wire' \in Seq(Commands) /\ outbuf' \in Seq(Commands)
        /\ at' \in {"draining", "finishing"}
    BY <1>6, <1>e DEF CloseStart, TypeOK
  <2>3. /\ flags' = flags \ {"watch", "multi"} /\ pending' = pending + Len(Cleanup)
        /\ UNCHANGED <<want, reader, broken, replies, srv, queued>>
    BY <1>6 DEF CloseStart, server
  <2>. QED
    BY <2>1, <2>2, <2>3 DEF TypeOK, Locations
<1>7. CASE Drain
  BY <1>7, <1>a, <1>b, <1>d DEF Drain, TypeOK, server, Locations
<1>8. CASE FinishStart
  BY <1>8, <1>d, <1>e DEF FinishStart, TypeOK, server
<1>9. CASE Put \/ Reuse
  BY <1>9, <1>d DEF Put, Reuse, TypeOK, server, Locations
<1>10. CASE Redial
  BY <1>10, <1>d, <1>e, <1>f DEF Redial, TypeOK, Locations
<1>11. CASE Fail
  BY <1>11, <1>d, <1>e, <1>f DEF Fail, TypeOK, Locations
<1>12. CASE Serve
  <2>1. /\ replies' \in Seq(Replies)
        /\ srv' \in SUBSET {"watch", "multi", "sub", "psub", "monitor"}
        /\ queued' \in SUBSET {"SUBSCRIBE", "PSUBSCRIBE", "MONITOR"}
        /\ UNCHANGED <<client, outbuf>> /\ wire' = Tail(wire) /\ wire # <<>>
    BY <1>12, <1>a, <1>b, Served
  <2>. QED
    BY <1>e, <2>1 DEF TypeOK, client
<1>13. CASE Push
  BY <1>13, <1>a, <1>b DEF Push, TypeOK, client, server
<1>14. CASE UNCHANGED vars
  BY <1>14 DEF vars, client, server, TypeOK
<1>. QED
  BY <1>1, <1>2, <1>3, <1>4, <1>5, <1>6, <1>7, <1>8, <1>9, <1>10, <1>11, <1>12, <1>13,
     <1>14 DEF Next, Progress, Application

\* Control: the places of the calls, and what a failure leaves behind.
LEMMA ControlStep == TypeOK /\ ControlInv /\ [Next]_vars => ControlInv'
<1>. SUFFICES ASSUME TypeOK, ControlInv, [Next]_vars
              PROVE  ControlInv'
  OBVIOUS
<1>a. pending \in Nat /\ want \in Nat
  BY DEF TypeOK
<1>1. ASSUME NEW cmd \in UserCommands, Send(cmd) PROVE ControlInv'
  BY <1>1, <1>a DEF Send, ControlInv, server
<1>2. ASSUME NEW cmd \in UserCommands, DoStart(cmd) PROVE ControlInv'
  BY <1>2, <1>a DEF DoStart, ControlInv, server
<1>3. CASE Flush
  BY <1>3 DEF Flush, ControlInv, client, server
<1>4. CASE ReceiveStart \/ ReceiveRead \/ ReceiveCount
  BY <1>4 DEF ReceiveStart, ReceiveRead, ReceiveCount, ControlInv, server
<1>5. CASE DoRead \/ FinishRead
  BY <1>5, <1>a DEF DoRead, FinishRead, ControlInv, server
<1>6. CASE CloseStart
  BY <1>6, <1>a DEF CloseStart, ControlInv, server
<1>7. CASE Drain
  BY <1>7 DEF Drain, ControlInv, server
<1>8. CASE FinishStart
  BY <1>8 DEF FinishStart, ControlInv, server
<1>9. CASE Put \/ Reuse \/ Redial
  BY <1>9 DEF Put, Reuse, Redial, ControlInv, server
<1>10. CASE Fail
  BY <1>10 DEF Fail, ControlInv, TypeOK
<1>11. CASE Serve
  <2>1. UNCHANGED <<client, outbuf>> /\ wire # <<>>
    BY <1>11, Served
  <2>. QED
    BY <2>1 DEF ControlInv, client
<1>12. CASE Push
  BY <1>12 DEF Push, ControlInv, client, server, Subscribed
<1>13. CASE UNCHANGED vars
  BY <1>13 DEF vars, client, server, ControlInv
<1>. QED
  BY <1>1, <1>2, <1>3, <1>4, <1>5, <1>6, <1>7, <1>8, <1>9, <1>10, <1>11, <1>12, <1>13
  DEF Next, Progress, Application

-----------------------------------------------------------------------------
\* Counting.  What is outstanding, now and after a step, in terms of Unserved.
Held(r) == IF r = "got" THEN 1 ELSE 0

LEMMA OutstandingIs ==
    ASSUME TypeOK
    PROVE  /\ Outstanding = Len(Unserved) + Len(replies) + Held(reader)
           /\ Len(Unserved) \in Nat /\ Len(replies) \in Nat /\ Held(reader) \in {0, 1}
           /\ Outstanding \in Nat
<1>1. Len(replies) \in Nat /\ Held(reader) \in {0, 1}
  BY LenProperties DEF TypeOK, Held
<1>. QED
  BY <1>1, UnservedType DEF Outstanding, Held

LEMMA OutstandingNext ==
    ASSUME TypeOK'
    PROVE  /\ Outstanding' = Len(Unserved') + Len(replies') + Held(reader')
           /\ Len(Unserved') \in Nat /\ Len(replies') \in Nat /\ Held(reader') \in {0, 1}
           /\ Outstanding' \in Nat
<1>1. Len(replies') \in Nat /\ Held(reader') \in {0, 1}
  BY LenProperties DEF TypeOK, Held
<1>2. /\ Len(wire') \in Nat /\ Len(outbuf') \in Nat
      /\ Len(Unserved') = Len(wire') + Len(outbuf')
  BY Joined DEF TypeOK, Unserved
<1>. QED
  BY <1>1, <1>2 DEF Outstanding, Held

\* One reply more, two more, one less.
LEMMA RepliesLen ==
    ASSUME TypeOK
    PROVE  /\ \A r \in Replies : Len(Append(replies, r)) = Len(replies) + 1
           /\ Len(replies \o <<"reply", "reply">>) = Len(replies) + 2
           /\ replies # <<>> => Len(Tail(replies)) = Len(replies) - 1 /\ Len(replies) > 0
<1>1. replies \in Seq(Replies) /\ <<"reply", "reply">> \in Seq(Replies)
  BY DEF TypeOK, Replies
<1>2. Len(<<"reply", "reply">>) = 2
  OBVIOUS
<1>3. replies # <<>> => Len(replies) \in Nat \ {0}
  BY <1>1, EmptySeq, LenProperties
<1>. QED
  BY <1>1, <1>2, <1>3, AppendProperties, ConcatProperties, HeadTailProperties

LEMMA CountStep == SessionInv /\ [Next]_vars => CountInv'
<1>. SUFFICES ASSUME SessionInv, [Next]_vars
              PROVE  CountInv'
  OBVIOUS
<1>a. TypeOK /\ ControlInv /\ CountInv /\ ModeInv /\ SentinelInv /\ TypeOK' /\ ControlInv'
  BY TypeStep, ControlStep DEF SessionInv
<1>b. /\ Outstanding = Len(Unserved) + Len(replies) + Held(reader)
      /\ Len(Unserved) \in Nat /\ Len(replies) \in Nat /\ Held(reader) \in {0, 1}
      /\ Outstanding' = Len(Unserved') + Len(replies') + Held(reader')
      /\ Len(Unserved') \in Nat /\ Len(replies') \in Nat /\ Held(reader') \in {0, 1}
      /\ Outstanding \in Nat /\ Outstanding' \in Nat
  BY <1>a, OutstandingIs, OutstandingNext
<1>c. pending \in Nat /\ want \in Nat /\ pending' \in Nat /\ want' \in Nat
  BY <1>a DEF TypeOK
<1>f. Outstanding \in Nat /\ Outstanding' \in Nat
  BY <1>b
<1>d. UserCommands \subseteq Commands
  BY SessionAssumption
<1>e. SUFFICES ASSUME ~broken' PROVE CountInv'
  BY DEF CountInv
<1>1. ASSUME NEW cmd \in UserCommands, Send(cmd) \/ DoStart(cmd) PROVE CountInv'
  <2>1. ~broken /\ UNCHANGED <<reader, broken, replies>> /\ at = "user" /\ want = 0
    BY <1>1, <1>a, <1>e DEF Send, DoStart, ControlInv
  <2>2. Len(Unserved') = Len(Unserved) + 1
    <3>1. Unserved' = Unserved \o <<cmd>>
      BY <1>1, <1>a, <1>d, <2>1, CommandUnserved
    <3>. QED
      BY <1>a, <1>d, <3>1, One, Joined, UnservedType
  <2>3. flags \cap {"subscribe", "monitor"} \subseteq flags'
    BY <1>1, <1>a, <1>d, NoteFlags DEF Send, DoStart
  <2>4. \/ pending' = pending + 1 /\ want' = want
        \/ pending' = 0 /\ want' = pending + 1
    BY <1>1, <2>1 DEF Send, DoStart
  <2>5. Outstanding' = Outstanding + 1
    BY <1>b, <2>1, <2>2
  <2>6. flags' \cap {"subscribe", "monitor"} = {} => flags \cap {"subscribe", "monitor"} = {}
    BY <2>3
  <2>7. /\ pending + want =< Outstanding
        /\ flags \cap {"subscribe", "monitor"} = {} => pending + want = Outstanding
    BY <1>a, <2>1 DEF CountInv
  <2>8. pending' + want' = (pending + want) + 1
    <3>1. CASE pending' = pending + 1 /\ want' = want
      BY <1>c, <3>1
    <3>2. CASE pending' = 0 /\ want' = pending + 1
      <4>1. want = 0
        BY <2>1
      <4>. QED
        BY <1>c, <3>2, <4>1
    <3>. QED
      BY <2>4, <3>1, <3>2
  <2>9. \A m, n \in Nat : /\ m =< n => m + 1 =< n + 1
                          /\ m = n => m + 1 = n + 1
    OBVIOUS
  <2>10. pending + want \in Nat
    BY <1>c
  <2>11. /\ pending' + want' =< Outstanding'
         /\ pending + want = Outstanding => pending' + want' = Outstanding'
    BY <1>f, <2>5, <2>7, <2>8, <2>9, <2>10
  <2>. QED
    BY <2>6, <2>7, <2>11 DEF CountInv
<1>2. ASSUME UNCHANGED <<broken, flags>>, pending' + want' = pending + want,
             Outstanding' = Outstanding
      PROVE  CountInv'
  BY <1>2, <1>a DEF CountInv
<1>3. CASE Flush
  <2>1. Unserved' = Unserved /\ UNCHANGED <<client, replies>>
    BY <1>3, <1>a, FlushUnserved DEF Flush
  <2>. QED
    BY <1>2, <1>b, <2>1 DEF client
<1>4. CASE ReceiveStart \/ Put
  <2>1. Unserved' = Unserved /\ Held(reader') = Held(reader)
        /\ UNCHANGED <<broken, flags, pending, want, replies>>
    BY <1>4, UnservedSame DEF ReceiveStart, Put, Held
  <2>. QED
    BY <1>2, <1>b, <2>1
<1>5. CASE ReceiveRead
  <2>1. /\ Unserved' = Unserved /\ UNCHANGED <<broken, flags, pending, want>>
        /\ Held(reader') = 1 /\ Held(reader) = 0
        /\ Len(replies') = Len(replies) - 1
    BY <1>5, <1>a, UnservedSame, RepliesLen DEF ReceiveRead, Held
  <2>. QED
    BY <1>2, <1>b, <2>1
<1>6. CASE ReceiveCount
  <2>1. /\ Unserved' = Unserved /\ UNCHANGED <<broken, flags, want, replies>>
        /\ Held(reader') = 0 /\ Held(reader) = 1 /\ want = 0
        /\ pending' = Decremented(pending)
    BY <1>6, <1>a, UnservedSame DEF ReceiveCount, Held, ControlInv
  <2>2. Outstanding' = Outstanding - 1
    BY <1>b, <2>1
  <2>. QED
    BY <1>a, <1>b, <1>c, <1>e, <2>1, <2>2 DEF CountInv, Decremented
<1>7. CASE DoRead \/ FinishRead
  <2>1. /\ Unserved' = Unserved /\ UNCHANGED <<broken, flags, pending, reader>>
        /\ want > 0 /\ want' = want - 1 /\ Len(replies') = Len(replies) - 1
    BY <1>7, <1>a, UnservedSame, RepliesLen DEF DoRead, FinishRead, ControlInv
  <2>2. Outstanding' = Outstanding - 1
    BY <1>b, <2>1
  <2>. QED
    BY <1>a, <1>b, <1>c, <1>e, <2>1, <2>2 DEF CountInv
<1>8. CASE CloseStart
  <2>1. /\ ~broken /\ UNCHANGED <<want, reader, broken, replies>>
        /\ flags' = flags \ {"watch", "multi"} /\ pending' = pending + Len(Cleanup)
    BY <1>8, <1>e DEF CloseStart
  <2>2. Unserved' = Unserved \o Cleanup
    BY <1>8, <1>a, <2>1, CloseUnserved
  <2>3. Len(Unserved') = Len(Unserved) + Len(Cleanup) /\ Len(Cleanup) \in Nat
    BY <1>a, <2>2, CleanupSends, Joined, UnservedType
  <2>4. Outstanding' = Outstanding + Len(Cleanup)
    BY <1>b, <2>1, <2>3
  <2>5. flags' \cap {"subscribe", "monitor"} = flags \cap {"subscribe", "monitor"}
    BY <2>1
  <2>6. /\ pending + want =< Outstanding
        /\ flags \cap {"subscribe", "monitor"} = {} => pending + want = Outstanding
    BY <1>a, <2>1 DEF CountInv
  <2>7. pending' + want' = (pending + want) + Len(Cleanup) /\ pending + want \in Nat
    BY <1>c, <2>1, <2>3
  <2>8. \A m, n, k \in Nat : /\ m =< n => m + k =< n + k
                             /\ m = n => m + k = n + k
    OBVIOUS
  <2>9. /\ pending' + want' =< Outstanding'
        /\ pending + want = Outstanding => pending' + want' = Outstanding'
    BY <1>f, <2>3, <2>4, <2>6, <2>7, <2>8
  <2>. QED
    BY <2>5, <2>6, <2>9 DEF CountInv
<1>9. CASE Drain
  <2>1. /\ Unserved' = Unserved /\ UNCHANGED <<broken, want, reader>>
        /\ want = 0 /\ pending' = Decremented(pending) /\ replies # <<>>
        /\ Len(replies') = Len(replies) - 1 /\ Len(replies) > 0
        /\ at = "draining" /\ reader = "none"
    BY <1>9, <1>a, UnservedSame, RepliesLen DEF Drain, ControlInv
  <2>2. Outstanding' = Outstanding - 1 /\ Outstanding > 0
    BY <1>b, <2>1
  <2>3. CASE Head(replies) = "sentinel" /\ "monitor" \notin flags
    <3>1. /\ replies \in Seq(Replies) /\ replies[1] = "sentinel"
          /\ 1 \in DOMAIN replies
      <4>1. replies \in Seq(Replies)
        BY <1>a DEF TypeOK, Replies
      <4>2. Head(replies) = replies[1] /\ DOMAIN replies = 1..Len(replies)
        BY <2>1, <4>1, TailOf
      <4>. QED
        BY <1>b, <2>1, <2>3, <4>1, <4>2
    <3>2. Len(replies) = 1
      BY <1>a, <2>1, <2>3, <3>1 DEF SentinelInv
    <3>3. Unserved = <<>>
      BY <1>a, <2>1, <3>1 DEF SentinelInv, Range
    <3>4. Outstanding = 1
      BY <1>b, <2>1, <3>2, <3>3, EmptySeq DEF Held
    <3>5. pending + want =< Outstanding
      BY <1>a, <1>e, <2>1 DEF CountInv
    <3>6. pending' = 0 /\ want' = 0
      BY <1>c, <2>1, <3>4, <3>5 DEF Decremented
    <3>7. Outstanding' = 0
      BY <2>2, <3>4
    <3>. QED
      BY <3>6, <3>7 DEF CountInv
  <2>4. CASE Head(replies) # "sentinel" \/ "monitor" \in flags
    <3>1. flags' \cap {"subscribe", "monitor"} # {}
      BY <1>9, <1>a, <2>1, <2>4 DEF Drain, ControlInv
    <3>. QED
      BY <1>a, <1>b, <1>c, <1>e, <2>1, <2>2, <3>1 DEF CountInv, Decremented
  <2>. QED
    BY <2>3, <2>4
<1>10. CASE FinishStart
  <2>1. Unserved' = Unserved /\ UNCHANGED <<broken, flags, reader, replies>>
        /\ want' = pending /\ pending' = 0 /\ want = 0
    BY <1>10, <1>a, FlushUnserved DEF FinishStart, ControlInv
  <2>. QED
    BY <1>2, <1>b, <1>c, <2>1
<1>11. CASE Reuse
  <2>1. /\ Unserved' = Unserved /\ UNCHANGED <<broken, pending, want, reader, replies>>
        /\ flags = {} /\ flags' = {}
    BY <1>11, <1>a, UnservedSame DEF Reuse, ControlInv
  <2>. QED
    BY <1>2, <1>b, <2>1
<1>12. CASE Redial
  <2>1. /\ outbuf' = <<>> /\ wire' = <<>> /\ replies' = <<>> /\ pending' = 0
        /\ want' = 0 /\ reader' = "none"
    BY <1>12, <1>a DEF Redial, ControlInv
  <2>2. Outstanding' = 0
    BY <2>1, EmptySeq DEF Outstanding
  <2>. QED
    BY <2>1, <2>2 DEF CountInv
<1>13. CASE Fail
  BY <1>13, <1>e DEF Fail
<1>14. CASE Serve
  <2>1. /\ UNCHANGED <<broken, flags, pending, want, reader>>
        /\ Len(Unserved') = Len(Unserved) - 1
    BY <1>14, <1>a, Served, ServeUnserved, UnservedType, TailOf DEF client
  <2>2. \/ Len(replies') = Len(replies) + 1
        \/ AnswersTwice(Head(wire)) /\ Len(replies') = Len(replies) + 2
    BY <1>14, <1>a, Served, RepliesLen
  <2>3. CASE Len(replies') = Len(replies) + 1
    <3>1. Outstanding' = Outstanding
      BY <1>b, <2>1, <2>3
    <3>. QED
      BY <1>2, <2>1, <3>1
  <2>4. CASE AnswersTwice(Head(wire)) /\ Len(replies') = Len(replies) + 2
    <3>1. Head(wire) \in Range(Unserved)
      BY <1>14, <1>a, ServeUnserved, UnservedType, TailOf
    <3>2. "subscribe" \in flags
      BY <1>a, <2>4, <3>1 DEF AnswersTwice, ModeInv, Subscribed
    <3>3. Outstanding' = Outstanding + 1
      BY <1>b, <2>1, <2>4
    <3>4. pending + want =< Outstanding
      BY <1>a, <1>e, <2>1 DEF CountInv
    <3>5. pending' + want' =< Outstanding'
      BY <1>c, <1>f, <2>1, <3>3, <3>4
    <3>6. flags' \cap {"subscribe", "monitor"} # {}
      BY <2>1, <3>2
    <3>. QED
      BY <3>5, <3>6 DEF CountInv
  <2>. QED
    BY <2>2, <2>3, <2>4
<1>15. CASE Push
  <2>1. /\ Unserved' = Unserved /\ UNCHANGED <<broken, flags, pending, want, reader>>
        /\ Len(replies') = Len(replies) + 1
    BY <1>15, <1>a, UnservedSame, RepliesLen DEF Push, client, Replies
  <2>2. flags \cap {"subscribe", "monitor"} # {}
    BY <1>15, <1>a DEF Push, ModeInv
  <2>3. Outstanding' = Outstanding + 1
    BY <1>b, <2>1
  <2>. QED
    BY <1>a, <1>b, <1>c, <2>1, <2>2, <2>3 DEF CountInv
<1>16. CASE UNCHANGED vars
  BY <1>16, <1>2 DEF vars, client, Outstanding
<1>. QED
  BY <1>1, <1>3, <1>4, <1>5, <1>6, <1>7, <1>8, <1>9, <1>10, <1>11, <1>12, <1>13, <1>14,
     <1>15, <1>16 DEF Next, Progress, Application

-----------------------------------------------------------------------------
\* Modes.  An EXEC or a DISCARD stays ahead of what it ends when commands are added
\* behind it and when what it waits for is served.
LEMMA EndsJoined ==
    ASSUME NEW s \in Seq(Commands), NEW t \in Seq(Commands), NEW i \in Nat, i =< Len(s),
           EndsAfter(s, i) \/ \E j \in DOMAIN t : t[j] \in Enders
    PROVE  EndsAfter(s \o t, i)
<1>1. /\ Len(s) \in Nat /\ Len(t) \in Nat
      /\ DOMAIN s = 1..Len(s) /\ DOMAIN t = 1..Len(t)
      /\ DOMAIN (s \o t) = 1..Len(s) + Len(t)
      /\ \A j \in 1..Len(s) : (s \o t)[j] = s[j]
      /\ \A j \in 1..Len(t) : (s \o t)[Len(s) + j] = t[j]
  BY Joined
<1>2. CASE EndsAfter(s, i)
  <2>1. PICK j \in 1..Len(s) : j > i /\ s[j] \in Enders
    BY <1>1, <1>2 DEF EndsAfter, Enders
  <2>2. j \in DOMAIN (s \o t) /\ (s \o t)[j] \in Enders
    BY <1>1, <2>1
  <2>. QED
    BY <2>1, <2>2 DEF EndsAfter, Enders
<1>3. CASE \E j \in DOMAIN t : t[j] \in Enders
  <2>1. PICK j \in 1..Len(t) : t[j] \in Enders
    BY <1>1, <1>3
  <2>2. Len(s) + j \in 1..Len(s) + Len(t) /\ Len(s) + j > i
    BY <1>1
  <2>3. (s \o t)[Len(s) + j] \in Enders
    BY <1>1, <2>1
  <2>. QED
    BY <1>1, <2>2, <2>3 DEF EndsAfter, Enders
<1>. QED
  BY <1>2, <1>3

LEMMA EndsTail ==
    ASSUME NEW s \in Seq(Commands), s # <<>>, NEW i \in Nat, NEW k, k = i + 1,
           EndsAfter(s, k) \/ (i = 0 /\ EndsAfter(s, 0) /\ Head(s) \notin Enders)
    PROVE  EndsAfter(Tail(s), i)
<1>1. /\ Len(s) \in Nat \ {0} /\ Head(s) = s[1]
      /\ DOMAIN s = 1..Len(s) /\ DOMAIN Tail(s) = 1..Len(s) - 1
      /\ \A j \in 1..Len(s) : j # 1 => j - 1 \in 1..Len(s) - 1 /\ Tail(s)[j - 1] = s[j]
  BY TailOf
<1>2. PICK j \in 1..Len(s) : j > i /\ j # 1 /\ j - 1 > i /\ s[j] \in Enders
  <2>1. CASE EndsAfter(s, k)
    <3>1. PICK j \in 1..Len(s) : j > i + 1 /\ s[j] \in Enders
      BY <1>1, <2>1 DEF EndsAfter, Enders
    <3>2. j > i /\ j # 1 /\ j - 1 > i
      BY <1>1, <3>1
    <3>. QED
      BY <3>1, <3>2
  <2>2. CASE i = 0 /\ EndsAfter(s, 0) /\ Head(s) \notin Enders
    <3>1. PICK j \in 1..Len(s) : s[j] \in Enders
      BY <1>1, <2>2 DEF EndsAfter, Enders
    <3>2. j # 1
      BY <1>1, <2>2, <3>1
    <3>3. j > 0 /\ j - 1 > 0
      BY <1>1, <3>2
    <3>. QED
      BY <2>2, <3>1, <3>2, <3>3
  <2>. QED
    BY <2>1, <2>2
<1>3. j - 1 \in DOMAIN Tail(s) /\ Tail(s)[j - 1] \in Enders
  BY <1>1, <1>2
<1>. QED
  BY <1>2, <1>3 DEF EndsAfter, Enders

\* ModeInv of a sequence u of commands, flags f, and a server in the modes s with q queued.
InSub(s) == s \cap {"sub", "psub"} # {}
ModeOf(u, f, s, q) ==
    /\ q # {} => "multi" \in s
    /\ ~("multi" \in s /\ InSub(s))
    /\ InSub(s) \/ {"SUBSCRIBE", "PSUBSCRIBE"} \cap (Range(u) \cup q) # {}
       => "subscribe" \in f
    /\ "monitor" \in s \/ "MONITOR" \in Range(u) \cup q => "monitor" \in f
    /\ "multi" \notin f =>
          /\ "multi" \in s => EndsAfter(u, 0)
          /\ \A i \in DOMAIN u : u[i] = "MULTI" => EndsAfter(u, i)

LEMMA ModeIs ==
    /\ ModeInv = ModeOf(Unserved, flags, srv, queued)
    /\ ModeInv' = ModeOf(Unserved', flags', srv', queued')
BY DEF ModeInv, ModeOf, InSub, Subscribed

\* The client sends t, and its flags become g.
LEMMA ModeSends ==
    ASSUME NEW u \in Seq(Commands), NEW t \in Seq(Commands), NEW f, NEW g, NEW s, NEW q,
           ModeOf(u, f, s, q),
           f \cap {"subscribe", "monitor"} \subseteq g,
           {"SUBSCRIBE", "PSUBSCRIBE"} \cap Range(t) # {} => "subscribe" \in g,
           "MONITOR" \in Range(t) => "monitor" \in g,
           "multi" \notin g =>
              /\ "multi" \notin f \/ \E j \in DOMAIN t : t[j] \in Enders
              /\ "MULTI" \notin Range(t)
    PROVE  ModeOf(u \o t, g, s, q)
<1>1. /\ Len(u) \in Nat /\ Len(t) \in Nat
      /\ DOMAIN u = 1..Len(u) /\ DOMAIN t = 1..Len(t)
      /\ DOMAIN (u \o t) = 1..Len(u) + Len(t)
      /\ Range(u \o t) = Range(u) \cup Range(t)
      /\ \A i \in 1..Len(u) : (u \o t)[i] = u[i]
      /\ \A i \in 1..Len(t) : (u \o t)[Len(u) + i] = t[i]
      /\ \A i \in 1..Len(u) + Len(t) :
            i \in 1..Len(u) \/ \E j \in 1..Len(t) : i = Len(u) + j
  BY Joined
<1>2. /\ q # {} => "multi" \in s
      /\ ~("multi" \in s /\ InSub(s))
      /\ InSub(s) \/ {"SUBSCRIBE", "PSUBSCRIBE"} \cap (Range(u \o t) \cup q) # {}
         => "subscribe" \in g
      /\ "monitor" \in s \/ "MONITOR" \in Range(u \o t) \cup q => "monitor" \in g
  BY <1>1 DEF ModeOf
<1>3. ASSUME "multi" \notin g, NEW i \in Nat, i =< Len(u), "multi" \notin f => EndsAfter(u, i)
      PROVE  EndsAfter(u \o t, i)
  BY <1>3, EndsJoined
<1>4. ASSUME "multi" \notin g, "multi" \in s PROVE EndsAfter(u \o t, 0)
  <2>1. "multi" \notin f => EndsAfter(u, 0)
    BY <1>4 DEF ModeOf
  <2>2. 0 \in Nat /\ 0 =< Len(u)
    BY <1>1
  <2>. QED
    BY <1>3, <1>4, <2>1, <2>2
<1>5. ASSUME "multi" \notin g, NEW i \in DOMAIN (u \o t), (u \o t)[i] = "MULTI"
      PROVE  EndsAfter(u \o t, i)
  <2>1. ASSUME NEW j \in 1..Len(t), i = Len(u) + j PROVE FALSE
    BY <1>1, <1>5, <2>1 DEF Range
  <2>2. i \in 1..Len(u)
    BY <1>1, <2>1
  <2>3. "multi" \notin f => EndsAfter(u, i)
    BY <1>1, <1>5, <2>2 DEF ModeOf
  <2>4. i \in Nat /\ i =< Len(u)
    BY <1>1, <2>2
  <2>. QED
    BY <1>3, <1>5, <2>3, <2>4
<1>. QED
  BY <1>2, <1>4, <1>5 DEF ModeOf

\* The server serves the head of u, and is then in the modes s2 with q2 queued.
LEMMA ModeServes ==
    ASSUME NEW u \in Seq(Commands), u # <<>>, NEW f, NEW s, NEW q, NEW s2, NEW q2,
           ModeOf(u, f, s, q),
           q2 # {} => "multi" \in s2,
           ~("multi" \in s2 /\ InSub(s2)),
           InSub(s2) => InSub(s) \/ {"SUBSCRIBE", "PSUBSCRIBE"} \cap (q \cup {Head(u)}) # {},
           q2 \subseteq q \cup {Head(u)},
           "monitor" \in s2 => "monitor" \in s \/ "MONITOR" \in q \cup {Head(u)},
           "multi" \in s2 => \/ Head(u) = "MULTI"
                             \/ "multi" \in s /\ Head(u) \notin Enders
    PROVE  ModeOf(Tail(u), f, s2, q2)
<1>1. /\ Len(u) \in Nat \ {0} /\ Head(u) = u[1]
      /\ DOMAIN u = 1..Len(u) /\ DOMAIN Tail(u) = 1..Len(u) - 1
      /\ \A i \in 1..Len(u) - 1 : i + 1 \in 1..Len(u) /\ Tail(u)[i] = u[i + 1]
      /\ Range(u) = {Head(u)} \cup Range(Tail(u))
  BY TailOf
<1>2. /\ InSub(s2) \/ {"SUBSCRIBE", "PSUBSCRIBE"} \cap (Range(Tail(u)) \cup q2) # {}
         => "subscribe" \in f
      /\ "monitor" \in s2 \/ "MONITOR" \in Range(Tail(u)) \cup q2 => "monitor" \in f
  BY <1>1 DEF ModeOf
<1>3. ASSUME "multi" \notin f, "multi" \in s2 PROVE EndsAfter(Tail(u), 0)
  <2>1. CASE Head(u) = "MULTI"
    <3>1. 1 \in DOMAIN u /\ 0 \in Nat /\ 1 = 0 + 1
      BY <1>1
    <3>2. EndsAfter(u, 1)
      BY <1>1, <1>3, <2>1, <3>1 DEF ModeOf
    <3>. QED
      BY <3>1, <3>2, EndsTail, Zenon
  <2>2. CASE "multi" \in s /\ Head(u) \notin Enders
    <3>1. EndsAfter(u, 0) /\ 0 \in Nat /\ 1 = 0 + 1
      BY <1>3, <2>2 DEF ModeOf
    <3>. QED
      BY <2>2, <3>1, EndsTail
  <2>. QED
    BY <1>3, <2>1, <2>2
<1>4. ASSUME "multi" \notin f, NEW i \in DOMAIN Tail(u), Tail(u)[i] = "MULTI"
      PROVE  EndsAfter(Tail(u), i)
  <2>1. i + 1 \in DOMAIN u /\ u[i + 1] = "MULTI" /\ i \in Nat
    BY <1>1, <1>4
  <2>2. PICK k : k = i + 1
    OBVIOUS
  <2>3. EndsAfter(u, k)
    BY <1>4, <2>1, <2>2 DEF ModeOf
  <2>. QED
    BY <2>1, <2>2, <2>3, EndsTail, Zenon
<1>. QED
  BY <1>2, <1>3, <1>4 DEF ModeOf

\* What a served command does to the server's modes.
LEMMA ServedModes ==
    ASSUME TypeOK, ModeInv, Serve, NEW c, c = Head(wire)
    PROVE  /\ queued' # {} => "multi" \in srv'
           /\ ~("multi" \in srv' /\ InSub(srv'))
           /\ InSub(srv') =>
                 InSub(srv) \/ {"SUBSCRIBE", "PSUBSCRIBE"} \cap (queued \cup {c}) # {}
           /\ queued' \subseteq queued \cup {c}
           /\ "monitor" \in srv' => "monitor" \in srv \/ "MONITOR" \in queued \cup {c}
           /\ "multi" \in srv' => c = "MULTI" \/ ("multi" \in srv /\ c \notin Enders)
<1>a. /\ queued # {} => "multi" \in srv
      /\ ~("multi" \in srv /\ InSub(srv))
  BY DEF ModeInv, InSub, Subscribed
<1>1. CASE ServeRefused(c)
  <2>1. "multi" \in srv => c \notin Enders
    BY <1>1, <1>a DEF ServeRefused, Refused, Subscribed, InSub, Enders
  <2>. QED
    BY <1>1, <1>a, <2>1 DEF ServeRefused, server
<1>2. CASE ServeQueued(c)
  BY <1>2, <1>a DEF ServeQueued, Enders
<1>3. CASE c = "EXEC" /\ ServeExec
  <2>1. /\ queued' = {} /\ "multi" \notin srv'
        /\ InSub(srv') => InSub(srv) \/ {"SUBSCRIBE", "PSUBSCRIBE"} \cap queued # {}
        /\ "monitor" \in srv' => "monitor" \in srv \/ "MONITOR" \in queued
    BY <1>3 DEF ServeExec, InSub
  <2>. QED
    BY <2>1
<1>4. CASE c = "DISCARD" /\ ServeDiscard
  BY <1>4 DEF ServeDiscard, InSub
<1>5. CASE ServeNow(c)
  <2>1. /\ "multi" \notin srv /\ queued = {} /\ queued' = {} /\ srv' = ModeAfter(c)
        /\ c = "MULTI" => ~InSub(srv)
    BY <1>5, <1>a DEF ServeNow, Refused, Subscribed, InSub, PubSubCommands
  <2>2. /\ "multi" \in srv' => c = "MULTI"
        /\ "monitor" \in srv' => "monitor" \in srv \/ c = "MONITOR"
        /\ InSub(srv') => InSub(srv) \/ c \in {"SUBSCRIBE", "PSUBSCRIBE"}
    BY <2>1 DEF ModeAfter, InSub
  <2>3. ~("multi" \in srv' /\ InSub(srv'))
    BY <2>1 DEF ModeAfter, InSub
  <2>4. c \in {"SUBSCRIBE", "PSUBSCRIBE"} =>
           {"SUBSCRIBE", "PSUBSCRIBE"} \cap (queued \cup {c}) # {}
    OBVIOUS
  <2>5. InSub(srv') => InSub(srv) \/ {"SUBSCRIBE", "PSUBSCRIBE"} \cap (queued \cup {c}) # {}
    BY <2>2, <2>4
  <2>6. "monitor" \in srv' => "monitor" \in srv \/ "MONITOR" \in queued \cup {c}
    BY <2>2
  <2>7. /\ queued' # {} => "multi" \in srv'
        /\ queued' \subseteq queued \cup {c}
    BY <2>1
  <2>8. "multi" \in srv' => c = "MULTI" \/ ("multi" \in srv /\ c \notin Enders)
    BY <2>2
  <2>. QED
    BY <2>3, <2>5, <2>6, <2>7, <2>8
<1>. QED
  BY <1>1, <1>2, <1>3, <1>4, <1>5 DEF Serve

LEMMA ModeStep == SessionInv /\ [Next]_vars => ModeInv'
<1>. SUFFICES ASSUME SessionInv, [Next]_vars
              PROVE  ModeInv'
  OBVIOUS
<1>a. TypeOK /\ ControlInv /\ CountInv /\ ModeInv /\ SentinelInv
  BY DEF SessionInv
<1>b. ModeOf(Unserved, flags, srv, queued) /\ Unserved \in Seq(Commands)
  BY <1>a, ModeIs, UnservedType
<1>c. UserCommands \subseteq Commands
  BY SessionAssumption
<1>d. SUFFICES ModeOf(Unserved', flags', srv', queued')
  BY ModeIs
\* With nothing to serve and a server in no mode there is nothing to announce.
<1>e. ASSUME Unserved' = <<>>, srv' = {}, queued' = {}
      PROVE  ModeOf(Unserved', flags', srv', queued')
  BY <1>e, EmptyRange DEF ModeOf, InSub
<1>f. broken => Unserved = <<>> /\ srv = {} /\ queued = {}
  BY <1>a, EmptySeq, ConcatEmptySeq DEF ControlInv, Unserved
<1>1. ASSUME NEW cmd \in UserCommands, Send(cmd) \/ DoStart(cmd)
      PROVE  ModeOf(Unserved', flags', srv', queued')
  <2>1. /\ UNCHANGED <<srv, queued>>
        /\ Unserved' = IF broken THEN Unserved ELSE Unserved \o <<cmd>>
    BY <1>1, <1>a, <1>c, CommandUnserved DEF Send, DoStart, server
  <2>2. CASE broken
    BY <1>e, <1>f, <2>1, <2>2
  <2>3. CASE ~broken
    <3>1. /\ flags \cap {"subscribe", "monitor"} \subseteq flags'
          /\ cmd \in {"SUBSCRIBE", "PSUBSCRIBE"} => "subscribe" \in flags'
          /\ cmd = "MONITOR" => "monitor" \in flags'
          /\ cmd = "MULTI" => "multi" \in flags'
          /\ "multi" \notin flags' => "multi" \notin flags \/ cmd \in Enders
      BY <1>1, <1>a, <1>c, NoteFlags DEF Send, DoStart
    <3>2. /\ <<cmd>> \in Seq(Commands) /\ <<cmd>>[1] = cmd
          /\ 1 \in DOMAIN <<cmd>> /\ Range(<<cmd>>) = {cmd}
      BY <1>c, One
    <3>3. "multi" \notin flags' =>
             /\ "multi" \notin flags \/ \E j \in DOMAIN <<cmd>> : <<cmd>>[j] \in Enders
             /\ "MULTI" \notin Range(<<cmd>>)
      BY <3>1, <3>2
    <3>4. /\ {"SUBSCRIBE", "PSUBSCRIBE"} \cap Range(<<cmd>>) # {} => "subscribe" \in flags'
          /\ "MONITOR" \in Range(<<cmd>>) => "monitor" \in flags'
      BY <3>1, <3>2
    <3>5. ModeOf(Unserved \o <<cmd>>, flags', srv, queued)
      BY <1>b, <3>1, <3>2, <3>3, <3>4, ModeSends
    <3>. QED
      BY <2>1, <2>3, <3>5
  <2>. QED
    BY <2>2, <2>3
<1>2. CASE CloseStart
  <2>1. /\ UNCHANGED <<srv, queued>> /\ flags' = flags \ {"watch", "multi"}
        /\ Unserved' = IF broken THEN Unserved ELSE Unserved \o Cleanup
    BY <1>2, <1>a, CloseUnserved DEF CloseStart, server
  <2>2. CASE broken
    BY <1>e, <1>f, <2>1, <2>2
  <2>3. CASE ~broken
    <3>1. /\ Cleanup \in Seq(Commands) /\ Range(Cleanup) \subseteq Ending
          /\ "multi" \in flags => \E j \in DOMAIN Cleanup : Cleanup[j] \in Enders
      BY CleanupSends DEF Enders
    <3>2. /\ {"SUBSCRIBE", "PSUBSCRIBE"} \cap Range(Cleanup) = {}
          /\ "MONITOR" \notin Range(Cleanup) /\ "MULTI" \notin Range(Cleanup)
      BY <3>1 DEF Ending
    <3>3. flags \cap {"subscribe", "monitor"} \subseteq flags'
      BY <2>1
    <3>4. ModeOf(Unserved \o Cleanup, flags', srv, queued)
      BY <1>b, <3>1, <3>2, <3>3, ModeSends
    <3>. QED
      BY <2>1, <2>3, <3>4
  <2>. QED
    BY <2>2, <2>3
<1>3. CASE Serve
  <2>1. /\ UNCHANGED flags /\ Unserved # <<>> /\ Unserved' = Tail(Unserved)
        /\ Head(wire) = Head(Unserved)
    BY <1>3, <1>a, ServeUnserved, Served DEF client
  <2>2. /\ queued' # {} => "multi" \in srv'
        /\ ~("multi" \in srv' /\ InSub(srv'))
        /\ InSub(srv') =>
              \/ InSub(srv)
              \/ {"SUBSCRIBE", "PSUBSCRIBE"} \cap (queued \cup {Head(Unserved)}) # {}
        /\ queued' \subseteq queued \cup {Head(Unserved)}
        /\ "monitor" \in srv' => \/ "monitor" \in srv
                                 \/ "MONITOR" \in queued \cup {Head(Unserved)}
        /\ "multi" \in srv' => \/ Head(Unserved) = "MULTI"
                               \/ "multi" \in srv /\ Head(Unserved) \notin Enders
    BY <1>3, <1>a, <2>1, ServedModes
  <2>3. ModeOf(Tail(Unserved), flags, srv', queued')
    BY <1>b, <2>1, <2>2, ModeServes
  <2>. QED
    BY <2>1, <2>3
<1>4. ASSUME Unserved' = Unserved, UNCHANGED <<flags, srv, queued>>
      PROVE  ModeOf(Unserved', flags', srv', queued')
  BY <1>4, <1>b
<1>5. CASE Flush \/ FinishStart
  <2>1. Unserved' = Unserved /\ UNCHANGED <<flags, srv, queued>>
    BY <1>5, <1>a, FlushUnserved DEF Flush, FinishStart, client, server
  <2>. QED
    BY <1>4, <2>1
<1>6. CASE \/ ReceiveStart \/ ReceiveRead \/ ReceiveCount \/ DoRead \/ FinishRead \/ Put
           \/ Push \/ UNCHANGED vars
  <2>1. UNCHANGED <<outbuf, wire, flags, srv, queued>>
    BY <1>6 DEF ReceiveStart, ReceiveRead, ReceiveCount, DoRead, FinishRead, Put, Push, vars,
                client, server
  <2>. QED
    BY <1>4, <2>1, UnservedSame
<1>7. CASE Reuse
  <2>1. UNCHANGED <<outbuf, wire, flags, srv, queued>>
    BY <1>7, <1>a DEF Reuse, ControlInv, server
  <2>. QED
    BY <1>4, <2>1, UnservedSame
<1>8. CASE Redial \/ Fail
  <2>1. Unserved' = <<>> /\ srv' = {} /\ queued' = {}
    BY <1>8, EmptySeq, ConcatEmptySeq DEF Redial, Fail, Unserved
  <2>. QED
    BY <1>e, <2>1
<1>9. CASE Drain
  <2>1. /\ Unserved' = Unserved /\ UNCHANGED <<srv, queued>>
        /\ at = "draining" /\ replies # <<>>
    BY <1>9, UnservedSame DEF Drain, server
  <2>2. CASE Head(replies) # "sentinel"
    <3>1. flags' = flags
      BY <1>9, <2>2 DEF Drain
    <3>. QED
      BY <1>4, <2>1, <3>1
  <2>3. CASE Head(replies) = "sentinel"
    <3>1. flags' = flags \ {"subscribe"}
      BY <1>9, <2>3 DEF Drain
    <3>2. "sentinel" \in Range(replies)
      <4>1. replies \in Seq(Replies)
        BY <1>a DEF TypeOK, Replies
      <4>. QED
        BY <2>1, <2>3, <4>1, TailOf
    <3>3. Unserved = <<>> /\ ~InSub(srv) /\ "multi" \notin srv
      BY <1>a, <2>1, <3>2 DEF SentinelInv, Subscribed, InSub
    <3>4. queued = {}
      BY <1>b, <3>3 DEF ModeOf
    <3>. QED
      BY <1>b, <2>1, <3>1, <3>3, <3>4, EmptyRange DEF ModeOf
  <2>. QED
    BY <2>2, <2>3
<1>. QED
  BY <1>1, <1>2, <1>3, <1>5, <1>6, <1>7, <1>8, <1>9 DEF Next, Progress, Application

-----------------------------------------------------------------------------
\* The sentinel.
LEMMA Appended ==
    ASSUME NEW S, NEW s \in Seq(S), NEW e \in S
    PROVE  /\ Append(s, e) \in Seq(S) /\ Range(Append(s, e)) = Range(s) \cup {e}
           /\ Len(s) \in Nat /\ Len(Append(s, e)) = Len(s) + 1
           /\ \A i \in DOMAIN Append(s, e) :
                 Append(s, e)[i] \in Range(s) \/ i = Len(s) + 1
<1>. DEFINE t == <<e>>
<1>1. /\ Append(s, e) = s \o t /\ t \in Seq(S)
      /\ Range(t) = {e} /\ Len(t) = 1
  BY AppendIsConcat, One
<1>. HIDE DEF t
<1>2. /\ Range(Append(s, e)) = Range(s) \cup {e}
      /\ Len(s) \in Nat /\ Len(Append(s, e)) = Len(s) + 1 /\ Append(s, e) \in Seq(S)
      /\ DOMAIN s = 1..Len(s)
      /\ DOMAIN Append(s, e) = 1..Len(s) + 1
      /\ \A i \in 1..Len(s) : Append(s, e)[i] = s[i]
      /\ \A i \in 1..Len(s) + 1 : i \in 1..Len(s) \/ \E j \in 1..1 : i = Len(s) + j
  BY <1>1, Joined
<1>3. \A i \in 1..Len(s) + 1 : i \in 1..Len(s) \/ i = Len(s) + 1
  BY <1>2
<1>4. \A i \in 1..Len(s) : s[i] \in Range(s)
  BY <1>2 DEF Range
<1>. QED
  BY <1>2, <1>3, <1>4

\* Only an ECHO that is served outside of subscriptions and transactions is answered
\* by the sentinel.
LEMMA ServedSentinel ==
    ASSUME TypeOK, Serve, NEW c, c = Head(wire),
           "sentinel" \notin Range(replies), "sentinel" \in Range(replies')
    PROVE  /\ c = "ECHO" /\ ~Subscribed /\ "multi" \notin srv /\ UNCHANGED srv
           /\ replies' = Append(replies, "sentinel")
<1>1. /\ \A r \in Replies : Range(Append(replies, r)) = Range(replies) \cup {r}
      /\ Range(replies \o <<"reply", "reply">>) = Range(replies) \cup {"reply"}
  <2>. DEFINE t == <<"reply", "reply">>
  <2>1. replies \in Seq(Replies) /\ t \in Seq(Replies) /\ Range(t) = {"reply"}
    BY DEF TypeOK, Replies, Range
  <2>. HIDE DEF t
  <2>2. Range(replies \o t) = Range(replies) \cup {"reply"}
    BY <2>1, Joined
  <2>3. \A r \in Replies : Range(Append(replies, r)) = Range(replies) \cup {r}
    BY <2>1, Appended
  <2>. QED
    BY <2>2, <2>3 DEF t
<1>2. "reply" \in Replies /\ "error" \in Replies /\ "sentinel" \in Replies
  BY DEF Replies
<1>3. /\ ~ServeRefused(c) /\ ~ServeQueued(c) /\ ~ServeExec /\ ~ServeDiscard
  BY <1>1, <1>2 DEF ServeRefused, ServeQueued, ServeExec, ServeDiscard
<1>4. ServeNow(c)
  BY <1>3 DEF Serve
<1>5. c = "ECHO" /\ replies' = Append(replies, "sentinel")
  BY <1>1, <1>2, <1>4 DEF ServeNow, Answer
<1>. QED
  BY <1>4, <1>5 DEF ServeNow, Refused, PubSubCommands, ModeAfter

\* SentinelInv of a connection at a, with the flags f, the commands u not served, the
\* replies r, and the modes s.
SentinelOf(a, f, u, r, s) ==
    /\ a \in {"idle", "user", "doing"} =>
          "ECHO" \notin Range(u) /\ "sentinel" \notin Range(r)
    /\ a = "draining" =>
          /\ \A i \in DOMAIN u : u[i] = "ECHO" => i = Len(u)
          /\ "sentinel" \in Range(r) => u = <<>> /\ ~InSub(s) /\ "multi" \notin s
          /\ \A i \in DOMAIN r : r[i] = "sentinel" => i = Len(r) \/ "monitor" \in f

LEMMA SentinelIs ==
    /\ SentinelInv = SentinelOf(at, flags, Unserved, replies, srv)
    /\ SentinelInv' = SentinelOf(at', flags', Unserved', replies', srv')
BY DEF SentinelInv, SentinelOf, InSub, Subscribed

LEMMA SentinelStep == SessionInv /\ [Next]_vars => SentinelInv'
<1>. SUFFICES ASSUME SessionInv, [Next]_vars
              PROVE  SentinelInv'
  OBVIOUS
<1>a. TypeOK /\ ControlInv /\ CountInv /\ ModeInv /\ SentinelInv
  BY DEF SessionInv
<1>b. /\ SentinelOf(at, flags, Unserved, replies, srv)
      /\ Unserved \in Seq(Commands) /\ replies \in Seq(Replies)
  BY <1>a, SentinelIs, UnservedType DEF TypeOK, Replies
<1>c. UserCommands \subseteq Commands /\ "ECHO" \notin UserCommands
  BY SessionAssumption
<1>d. SUFFICES SentinelOf(at', flags', Unserved', replies', srv')
  BY SentinelIs
<1>e. ASSUME Unserved' = <<>>, replies' = <<>>
      PROVE  SentinelOf(at', flags', Unserved', replies', srv')
  BY <1>e, EmptyRange DEF SentinelOf
<1>f. ASSUME at \in {"idle", "user", "doing"}, at' \in {"idle", "user", "doing"},
             "ECHO" \notin Range(Unserved'), Range(replies') \subseteq Range(replies)
      PROVE  SentinelOf(at', flags', Unserved', replies', srv')
  BY <1>b, <1>f DEF SentinelOf
<1>g. ASSUME at' \in {"finishing", "gone"}
      PROVE  SentinelOf(at', flags', Unserved', replies', srv')
  BY <1>g DEF SentinelOf
<1>h. ASSUME UNCHANGED <<at, flags, replies, srv>>, Unserved' = Unserved
      PROVE  SentinelOf(at', flags', Unserved', replies', srv')
  BY <1>b, <1>h
<1>i. replies # <<>> => Range(Tail(replies)) \subseteq Range(replies)
  BY <1>b, TailOf
<1>1. ASSUME NEW cmd \in UserCommands, Send(cmd) \/ DoStart(cmd)
      PROVE  SentinelOf(at', flags', Unserved', replies', srv')
  <2>1. /\ UNCHANGED replies /\ at = "user" /\ at' \in {"user", "doing"}
        /\ Unserved' = IF broken THEN Unserved ELSE Unserved \o <<cmd>>
    BY <1>1, <1>a, <1>c, CommandUnserved DEF Send, DoStart
  <2>2. Range(Unserved \o <<cmd>>) = Range(Unserved) \cup {cmd}
    <3>. DEFINE t == <<cmd>>
    <3>1. t \in Seq(Commands) /\ Range(t) = {cmd}
      BY <1>c, One
    <3>. HIDE DEF t
    <3>2. Range(Unserved \o t) = Range(Unserved) \cup {cmd}
      BY <1>b, <3>1, Joined
    <3>. QED
      BY <3>2 DEF t
  <2>3. "ECHO" \notin Range(Unserved) /\ cmd # "ECHO"
    BY <1>b, <1>c, <2>1 DEF SentinelOf
  <2>4. "ECHO" \notin Range(Unserved')
    BY <2>1, <2>2, <2>3
  <2>. QED
    BY <1>f, <2>1, <2>4
<1>2. CASE Flush \/ FinishStart
  <2>1. \/ Unserved' = Unserved /\ UNCHANGED <<at, flags, replies, srv>>
        \/ at' = "finishing"
    BY <1>2, <1>a, FlushUnserved DEF Flush, FinishStart, client, server
  <2>. QED
    BY <1>g, <1>h, <2>1
<1>3. CASE ReceiveStart \/ ReceiveCount \/ UNCHANGED vars
  <2>1. Unserved' = Unserved /\ UNCHANGED <<at, flags, replies, srv>>
    BY <1>3, UnservedSame DEF ReceiveStart, ReceiveCount, vars, client, server
  <2>. QED
    BY <1>h, <2>1
<1>4. CASE ReceiveRead \/ DoRead \/ FinishRead
  <2>1. CASE at = "finishing"
    BY <1>4, <1>a, <1>g, <2>1 DEF ReceiveRead, DoRead, FinishRead, ControlInv
  <2>2. CASE at # "finishing"
    <3>1. /\ at \in {"user", "doing"} /\ at' \in {"user", "doing"}
          /\ Unserved' = Unserved /\ replies # <<>> /\ replies' = Tail(replies)
      BY <1>4, <1>a, <2>2, UnservedSame DEF ReceiveRead, DoRead, FinishRead, ControlInv
    <3>2. "ECHO" \notin Range(Unserved')
      BY <1>b, <3>1 DEF SentinelOf
    <3>. QED
      BY <1>f, <1>i, <3>1, <3>2
  <2>. QED
    BY <2>1, <2>2
<1>5. CASE CloseStart
  <2>1. CASE at' = "finishing"
    BY <1>g, <2>1
  <2>2. CASE at' # "finishing"
    <3>1. at = "user" /\ at' = "draining" /\ UNCHANGED replies /\ Unserved' = Unserved \o Cleanup
      BY <1>5, <1>a, <2>2, CloseUnserved DEF CloseStart
    <3>2. "ECHO" \notin Range(Unserved) /\ "sentinel" \notin Range(replies)
      BY <1>b, <3>1 DEF SentinelOf
    <3>3. ASSUME NEW i \in DOMAIN (Unserved \o Cleanup), (Unserved \o Cleanup)[i] = "ECHO"
          PROVE  i = Len(Unserved \o Cleanup)
      <4>1. /\ Len(Unserved) \in Nat /\ Len(Cleanup) \in Nat
            /\ DOMAIN Unserved = 1..Len(Unserved) /\ DOMAIN Cleanup = 1..Len(Cleanup)
            /\ Len(Unserved \o Cleanup) = Len(Unserved) + Len(Cleanup)
            /\ DOMAIN (Unserved \o Cleanup) = 1..Len(Unserved) + Len(Cleanup)
            /\ \A j \in 1..Len(Unserved) : (Unserved \o Cleanup)[j] = Unserved[j]
            /\ \A j \in 1..Len(Cleanup) : (Unserved \o Cleanup)[Len(Unserved) + j] = Cleanup[j]
            /\ \A k \in 1..Len(Unserved) + Len(Cleanup) :
                  k \in 1..Len(Unserved) \/ \E j \in 1..Len(Cleanup) : k = Len(Unserved) + j
        BY <1>b, CleanupSends, Joined
      <4>2. i \notin 1..Len(Unserved)
        BY <3>2, <3>3, <4>1 DEF Range
      <4>3. PICK j \in 1..Len(Cleanup) : i = Len(Unserved) + j
        BY <4>1, <4>2
      <4>4. j = Len(Cleanup)
        BY <3>3, <4>1, <4>3, CleanupSends
      <4>. QED
        BY <4>1, <4>3, <4>4
    <3>4. \A i \in DOMAIN replies' : replies'[i] # "sentinel"
      BY <3>1, <3>2 DEF Range
    <3>. QED
      BY <3>1, <3>2, <3>3, <3>4 DEF SentinelOf
  <2>. QED
    BY <2>1, <2>2
<1>6. CASE Drain
  <2>1. CASE at' = "finishing"
    BY <1>g, <2>1
  <2>2. CASE at' # "finishing"
    <3>1. /\ at = "draining" /\ at' = "draining" /\ UNCHANGED <<flags, srv>>
          /\ replies # <<>> /\ replies' = Tail(replies) /\ Unserved' = Unserved
      BY <1>6, <2>2, UnservedSame DEF Drain, server
    <3>2. ASSUME NEW i \in DOMAIN replies', replies'[i] = "sentinel"
          PROVE  i = Len(replies') \/ "monitor" \in flags'
      <4>1. /\ Len(replies) \in Nat \ {0} /\ Len(replies') = Len(replies) - 1
            /\ DOMAIN replies = 1..Len(replies)
            /\ i \in 1..Len(replies) - 1 /\ i + 1 \in 1..Len(replies)
            /\ replies[i + 1] = "sentinel"
        BY <1>b, <3>1, <3>2, TailOf
      <4>2. i + 1 = Len(replies) \/ "monitor" \in flags
        BY <1>b, <3>1, <4>1 DEF SentinelOf
      <4>. QED
        BY <3>1, <4>1, <4>2
    <3>3. "sentinel" \in Range(replies') => "sentinel" \in Range(replies)
      BY <1>i, <3>1
    <3>. QED
      BY <1>b, <3>1, <3>2, <3>3 DEF SentinelOf
  <2>. QED
    BY <2>1, <2>2
<1>7. CASE Put
  <2>1. CASE at' = "gone"
    BY <1>g, <2>1
  <2>2. CASE at' # "gone"
    <3>1. /\ flags = {} /\ ~broken /\ pending = 0 /\ want = 0
          /\ Unserved' = Unserved /\ replies' = replies
      BY <1>7, <2>2, UnservedSame DEF Put
    <3>2. Outstanding = 0
      BY <1>a, <3>1 DEF CountInv
    <3>3. Len(Unserved) = 0 /\ Len(replies) = 0
      BY <1>a, <3>2, OutstandingIs
    <3>4. Unserved' = <<>> /\ replies' = <<>>
      BY <1>b, <3>1, <3>3, EmptySeq
    <3>. QED
      BY <1>e, <3>4
  <2>. QED
    BY <2>1, <2>2
<1>8. CASE Reuse
  <2>1. at = "idle" /\ at' = "user" /\ Unserved' = Unserved /\ UNCHANGED replies
    BY <1>8, UnservedSame DEF Reuse
  <2>2. "ECHO" \notin Range(Unserved')
    BY <1>b, <2>1 DEF SentinelOf
  <2>. QED
    BY <1>f, <2>1, <2>2
<1>9. CASE Redial \/ Fail
  <2>1. Unserved' = <<>> /\ replies' = <<>>
    BY <1>9, EmptySeq, ConcatEmptySeq DEF Redial, Fail, Unserved
  <2>. QED
    BY <1>e, <2>1
<1>10. CASE Serve
  <2>1. /\ UNCHANGED <<at, flags>> /\ Unserved # <<>> /\ Unserved' = Tail(Unserved)
        /\ Head(wire) = Head(Unserved)
    BY <1>10, <1>a, ServeUnserved, Served DEF client
  <2>2. /\ Range(Unserved) = {Head(wire)} \cup Range(Unserved')
        /\ Len(Unserved) \in Nat \ {0} /\ Head(wire) = Unserved[1]
        /\ Len(Unserved') = Len(Unserved) - 1 /\ Unserved' \in Seq(Commands)
        /\ DOMAIN Unserved = 1..Len(Unserved) /\ DOMAIN Unserved' = 1..Len(Unserved) - 1
        /\ \A i \in 1..Len(Unserved) - 1 :
              i + 1 \in 1..Len(Unserved) /\ Unserved'[i] = Unserved[i + 1]
    BY <1>b, <2>1, TailOf
  <2>3. at \in {"idle", "user", "doing", "draining"} => "sentinel" \notin Range(replies)
    BY <1>b, <2>1 DEF SentinelOf
  <2>4. CASE at \in {"idle", "user", "doing"}
    <3>1. "ECHO" \notin Range(Unserved)
      BY <1>b, <2>4 DEF SentinelOf
    <3>2. "ECHO" \notin Range(Unserved') /\ Head(wire) # "ECHO"
      BY <2>2, <3>1
    <3>3. "sentinel" \notin Range(replies')
      BY <1>10, <1>a, <2>3, <2>4, <3>2, ServedSentinel
    <3>. QED
      BY <2>1, <2>4, <3>2, <3>3 DEF SentinelOf
  <2>5. CASE at = "draining"
    <3>1. \A i \in DOMAIN Unserved : Unserved[i] = "ECHO" => i = Len(Unserved)
      BY <1>b, <2>5 DEF SentinelOf
    <3>2. ASSUME NEW i \in DOMAIN Unserved', Unserved'[i] = "ECHO"
          PROVE  i = Len(Unserved')
      <4>1. i + 1 = Len(Unserved)
        BY <2>2, <3>1, <3>2
      <4>. QED
        BY <2>2, <4>1
    <3>3. CASE "sentinel" \notin Range(replies')
      <4>1. \A i \in DOMAIN replies' : replies'[i] # "sentinel"
        BY <3>3 DEF Range
      <4>. QED
        BY <2>1, <2>5, <3>2, <3>3, <4>1 DEF SentinelOf
    <3>4. CASE "sentinel" \in Range(replies')
      <4>1. /\ Head(wire) = "ECHO" /\ ~Subscribed /\ "multi" \notin srv /\ UNCHANGED srv
            /\ replies' = Append(replies, "sentinel")
        BY <1>10, <1>a, <2>3, <2>5, <3>4, ServedSentinel
      <4>2. Len(Unserved') = 0
        BY <2>2, <3>1, <4>1
      <4>3. Unserved' = <<>>
        BY <2>2, <4>2, EmptySeq
      <4>4. \A i \in DOMAIN replies' : replies'[i] = "sentinel" => i = Len(replies')
        <5>1. "sentinel" \in Replies
          BY DEF Replies
        <5>2. /\ Len(replies') = Len(replies) + 1
              /\ \A i \in DOMAIN replies' :
                    replies'[i] \in Range(replies) \/ i = Len(replies) + 1
          BY <1>b, <4>1, <5>1, Appended
        <5>. QED
          BY <2>3, <2>5, <5>2
      <4>. QED
        BY <2>1, <2>5, <3>2, <4>1, <4>3, <4>4 DEF SentinelOf, Subscribed, InSub
    <3>. QED
      BY <3>3, <3>4
  <2>6. CASE at \notin {"idle", "user", "doing", "draining"}
    BY <2>1, <2>6 DEF SentinelOf
  <2>. QED
    BY <2>4, <2>5, <2>6
<1>11. CASE Push
  <2>1. /\ UNCHANGED <<at, flags, srv>> /\ Unserved' = Unserved
        /\ replies' = Append(replies, "push")
    BY <1>11, UnservedSame DEF Push, client, server
  <2>2. Range(replies') = Range(replies) \cup {"push"}
    <3>1. "push" \in Replies
      BY DEF Replies
    <3>. QED
      BY <1>b, <2>1, <3>1, Appended
  <2>3. "sentinel" \in Range(replies') => "sentinel" \in Range(replies)
    BY <2>2
  <2>4. ASSUME at = "draining", "sentinel" \in Range(replies)
        PROVE  "monitor" \in flags
    <3>1. ~InSub(srv)
      BY <1>b, <2>4 DEF SentinelOf
    <3>. QED
      BY <1>11, <1>a, <3>1 DEF Push, Subscribed, InSub, ModeInv
  <2>5. ASSUME at = "draining", NEW i \in DOMAIN replies', replies'[i] = "sentinel"
        PROVE  "monitor" \in flags
    <3>1. "sentinel" \in Range(replies')
      BY <2>5 DEF Range
    <3>. QED
      BY <2>3, <2>4, <2>5, <3>1
  <2>. QED
    BY <1>b, <2>1, <2>3, <2>5 DEF SentinelOf
<1>. QED
  BY <1>1, <1>2, <1>3, <1>4, <1>5, <1>6, <1>7, <1>8, <1>9, <1>10, <1>11
  DEF Next, Progress, Application

-----------------------------------------------------------------------------
\* The theorems.
LEMMA SessionStart == Init => SessionInv
<1>. SUFFICES ASSUME Init PROVE SessionInv
  OBVIOUS
<1>1. /\ <<>> \in Seq(Commands) /\ <<>> \in Seq(Replies)
      /\ wire \o outbuf = <<>>
  BY EmptySeq, ConcatEmptySeq DEF Init
<1>2. TypeOK /\ ControlInv
  BY <1>1 DEF Init, TypeOK, ControlInv, Locations, Replies
<1>3. CountInv
  BY EmptyRange DEF Init, CountInv, Outstanding
<1>4. ModeInv
  BY <1>1, EmptyRange DEF Init, ModeInv, Subscribed, Unserved
<1>5. SentinelInv
  BY <1>1, EmptyRange DEF Init, SentinelInv, Unserved
<1>. QED
  BY <1>2, <1>3, <1>4, <1>5 DEF SessionInv

LEMMA SessionInvariant == Spec => []SessionInv
<1>1. SessionInv /\ [Next]_vars => SessionInv'
  <2>1. SessionInv /\ [Next]_vars => TypeOK' /\ ControlInv'
    BY TypeStep, ControlStep DEF SessionInv
  <2>. QED
    BY <2>1, CountStep, ModeStep, SentinelStep DEF SessionInv
<1>. QED
  BY <1>1, SessionStart, PTL DEF Spec

\* The variables of a session keep their types: conn.pending and the replies Do has still
\* to read never fall below zero, whatever is sent, received, pushed or failed.
THEOREM TypeCorrect == Spec => []TypeOK
<1>1. SessionInv => TypeOK
  BY DEF SessionInv
<1>. QED
  BY <1>1, SessionInvariant, PTL

\* conn.pending, with what Do took from it, is exactly the number of replies to come on a
\* connection without a subscription and MONITOR, so that Do returns its own reply.
THEOREM RepliesCounted == Spec => []PendingMatchesReplies
<1>1. SessionInv => PendingMatchesReplies
  BY DEF SessionInv, CountInv, PendingMatchesReplies
<1>. QED
  BY <1>1, SessionInvariant, PTL

\* A connection that activeConn.Close puts back is usable, nothing is on its way, and the
\* server pushes nothing: its next user reads no reply of the last one.
THEOREM QuietAtRest == Spec => []IdleConnIsQuiet
<1>1. SessionInv => IdleConnIsQuiet
  <2>. SUFFICES ASSUME SessionInv, at = "idle"
                PROVE  ~broken /\ Outstanding = 0 /\ pending = 0 /\ ~Subscribed
    BY DEF IdleConnIsQuiet
  <2>1. ~broken /\ flags = {} /\ pending = 0 /\ want = 0
    BY DEF SessionInv, ControlInv
  <2>2. Outstanding = 0
    BY <2>1 DEF SessionInv, CountInv
  <2>3. ~Subscribed
    BY <2>1 DEF SessionInv, ModeInv
  <2>. QED
    BY <2>1, <2>2, <2>3
<1>. QED
  BY <1>1, SessionInvariant, PTL

\* A connection that activeConn.Close puts back is in no transaction, subscription or
\* MONITOR on the server, whatever was sent, queued and executed before.
THEOREM NoModeAtRest == Spec => []IdleConnHasNoMode
<1>1. SessionInv => IdleConnHasNoMode
  <2>. SUFFICES ASSUME SessionInv, at = "idle"
                PROVE  srv \cap {"multi", "sub", "psub", "monitor"} = {}
    BY DEF IdleConnHasNoMode
  <2>1. ~broken /\ flags = {} /\ pending = 0 /\ want = 0
    BY DEF SessionInv, ControlInv
  <2>2. Outstanding = 0 /\ TypeOK
    BY <2>1 DEF SessionInv, CountInv
  <2>3. Unserved \in Seq(Commands) /\ Len(Unserved) = 0
    BY <2>2, OutstandingIs, UnservedType
  <2>4. Unserved = <<>>
    BY <2>3, EmptySeq
  <2>5. "multi" \notin srv
    <3>1. ~EndsAfter(Unserved, 0)
      BY <2>4, EmptyRange DEF EndsAfter
    <3>. QED
      BY <2>1, <3>1 DEF SessionInv, ModeInv
  <2>6. ~Subscribed /\ "monitor" \notin srv
    BY <2>1 DEF SessionInv, ModeInv
  <2>. QED
    BY <2>5, <2>6 DEF Subscribed
<1>. QED
  BY <1>1, SessionInvariant, PTL

-----------------------------------------------------------------------------
\* Nobody waits in vain.  What Close sends with a subscription ends with the ECHO.
LEMMA CleanupAsksEcho == "subscribe" \in flags => "ECHO" \in Range(Cleanup)
<1>. DEFINE a == IF "multi" \in flags THEN <<"DISCARD">>
                 ELSE IF "watch" \in flags THEN <<"UNWATCH">> ELSE <<>>
            b == <<"UNSUBSCRIBE", "PUNSUBSCRIBE", "ECHO">>
<1>1. a \in Seq(Commands)
  <2>1. <<"DISCARD">> \in Seq(Commands) /\ <<"UNWATCH">> \in Seq(Commands)
    BY DEF Commands
  <2>. QED
    BY <2>1, EmptySeq
<1>2. b \in Seq(Commands)
  BY DEF Commands
<1>3. 3 \in DOMAIN b /\ b[3] = "ECHO"
  OBVIOUS
<1>4. "subscribe" \in flags => Cleanup = a \o b
  BY DEF Cleanup
<1>. HIDE DEF a, b
<1>5. Range(a \o b) = Range(a) \cup Range(b)
  BY <1>1, <1>2, Joined
<1>6. "ECHO" \in Range(b)
  BY <1>3 DEF Range
<1>. QED
  BY <1>4, <1>5, <1>6

\* Outside of a transaction the ECHO is answered by the sentinel or refused.
LEMMA ServedEcho ==
    ASSUME TypeOK, Serve, NEW c, c = Head(wire), c = "ECHO", "multi" \notin srv
    PROVE  \E r \in {"sentinel", "error"} : replies' = Append(replies, r)
<1>1. ~ServeQueued(c)
  BY DEF ServeQueued
<1>2. CASE ServeRefused(c)
  BY <1>2 DEF ServeRefused
<1>3. CASE ServeNow(c)
  BY <1>3 DEF ServeNow, Answer, AnswersTwice
<1>. QED
  BY <1>1, <1>2, <1>3 DEF Serve

\* The answers that are there stay there.
LEMMA ServedKeeps ==
    ASSUME TypeOK, Serve
    PROVE  Range(replies) \subseteq Range(replies')
<1>. DEFINE t == <<"reply", "reply">>
<1>1. replies \in Seq(Replies) /\ t \in Seq(Replies)
  BY DEF TypeOK, Replies
<1>2. \/ \E r \in Replies : replies' = Append(replies, r)
      \/ replies' = replies \o t
  BY Served
<1>. HIDE DEF t
<1>3. Range(replies \o t) = Range(replies) \cup Range(t)
  BY <1>1, Joined
<1>4. \A r \in Replies : Range(Append(replies, r)) = Range(replies) \cup {r}
  BY <1>1, Appended
<1>. QED
  BY <1>2, <1>3, <1>4

\* What is wanted was flushed.
LEMMA FlushedStep ==
    ASSUME SessionInv, WaitInv, [Next]_vars, want' > 0
    PROVE  outbuf' = <<>>
<1>1. /\ at \in {"idle", "user", "draining", "gone"} => want = 0
      /\ broken => outbuf = <<>>
      /\ want > 0 => outbuf = <<>>
      /\ want \in Nat
  BY DEF SessionInv, ControlInv, TypeOK, WaitInv
<1>2. ASSUME NEW cmd \in UserCommands, Send(cmd) \/ DoStart(cmd)
      PROVE  outbuf' = <<>>
  BY <1>1, <1>2 DEF Send, DoStart
<1>3. CASE Flush \/ FinishStart \/ Redial \/ Fail
  BY <1>3 DEF Flush, FinishStart, Redial, Fail
<1>4. CASE CloseStart
  BY <1>1, <1>4 DEF CloseStart
<1>5. CASE \/ ReceiveStart \/ ReceiveRead \/ ReceiveCount \/ Put \/ Reuse \/ Push
           \/ UNCHANGED vars
  BY <1>1, <1>5 DEF ReceiveStart, ReceiveRead, ReceiveCount, Put, Reuse, Push, vars, client
<1>6. CASE DoRead \/ FinishRead \/ Drain
  <2>1. outbuf' = outbuf /\ (want' = want \/ want' = want - 1)
    BY <1>6 DEF DoRead, FinishRead, Drain
  <2>. QED
    BY <1>1, <2>1
<1>7. CASE Serve
  BY <1>1, <1>7 DEF Serve, client
<1>. QED
  BY <1>2, <1>3, <1>4, <1>5, <1>6, <1>7 DEF Next, Progress, Application

\* The answer Close looks for.
LEMMA DrainStep ==
    ASSUME SessionInv, WaitInv, [Next]_vars, at' = "draining"
    PROVE  /\ "multi" \notin flags'
           /\ \/ "ECHO" \in Range(Unserved')
              \/ {"sentinel", "error"} \cap Range(replies') # {}
<1>. DEFINE Ends(r) == {"sentinel", "error"} \cap Range(r) # {}
            Goal == "multi" \notin flags' /\ ("ECHO" \in Range(Unserved') \/ Ends(replies'))
<1>a. /\ TypeOK /\ ControlInv /\ ModeInv /\ SentinelInv
      /\ Unserved \in Seq(Commands) /\ replies \in Seq(Replies)
  BY UnservedType DEF SessionInv, TypeOK, Replies
<1>b. at = "draining" =>
         "multi" \notin flags /\ ("ECHO" \in Range(Unserved) \/ Ends(replies))
  BY DEF WaitInv
<1>c. ASSUME at = "draining", Unserved' = Unserved, UNCHANGED <<flags, replies>>
      PROVE  Goal
  BY <1>b, <1>c
<1>1. CASE CloseStart
  <2>1. /\ flags' = flags \ {"watch", "multi"} /\ "subscribe" \in flags /\ ~broken
        /\ Unserved' = Unserved \o Cleanup
    BY <1>1, <1>a, CloseUnserved DEF CloseStart
  <2>2. Range(Unserved \o Cleanup) = Range(Unserved) \cup Range(Cleanup)
    BY <1>a, CleanupSends, Joined
  <2>. QED
    BY <2>1, <2>2, CleanupAsksEcho
<1>2. CASE Drain
  <2>1. /\ at = "draining" /\ replies # <<>> /\ replies' = Tail(replies)
        /\ Head(replies) \notin {"sentinel", "error"} /\ flags' = flags
        /\ Unserved' = Unserved
    BY <1>2, UnservedSame DEF Drain
  <2>2. Range(replies) = {Head(replies)} \cup Range(Tail(replies))
    BY <1>a, <2>1, TailOf
  <2>3. Ends(replies) => Ends(replies')
    BY <2>1, <2>2
  <2>. QED
    BY <1>b, <2>1, <2>3
<1>3. CASE Serve
  <2>1. /\ at = "draining" /\ UNCHANGED flags
        /\ Unserved # <<>> /\ Unserved' = Tail(Unserved) /\ Head(wire) = Head(Unserved)
    BY <1>3, <1>a, ServeUnserved, Served DEF client
  <2>2. /\ Range(Unserved) = {Head(wire)} \cup Range(Unserved')
        /\ Len(Unserved) \in Nat \ {0} /\ Head(wire) = Unserved[1]
        /\ DOMAIN Unserved = 1..Len(Unserved)
    BY <1>a, <2>1, TailOf
  <2>3. Ends(replies) => Ends(replies')
    BY <1>3, <1>a, ServedKeeps
  <2>4. CASE Head(wire) = "ECHO"
    <3>1. 1 \in DOMAIN Unserved
      BY <2>2
    <3>2. Len(Unserved) = 1
      BY <1>a, <2>1, <2>2, <2>4, <3>1 DEF SentinelInv
    <3>3. ~EndsAfter(Unserved, 0)
      BY <2>2, <2>4, <3>2 DEF EndsAfter
    <3>4. "multi" \notin srv
      BY <1>a, <1>b, <2>1, <3>3 DEF ModeInv
    <3>5. PICK r \in {"sentinel", "error"} : replies' = Append(replies, r)
      BY <1>3, <1>a, <2>4, <3>4, ServedEcho
    <3>6. r \in Replies
      BY DEF Replies
    <3>7. r \in Range(replies')
      BY <1>a, <3>5, <3>6, Appended
    <3>8. Ends(replies')
      BY <3>7
    <3>. QED
      BY <1>b, <2>1, <3>8
  <2>5. CASE Head(wire) # "ECHO"
    BY <1>b, <2>1, <2>2, <2>3, <2>5
  <2>. QED
    BY <2>4, <2>5
<1>4. CASE Push
  <2>1. /\ at = "draining" /\ flags' = flags /\ Unserved' = Unserved
        /\ replies' = Append(replies, "push")
    BY <1>4, UnservedSame DEF Push, client
  <2>2. "push" \in Replies
    BY DEF Replies
  <2>3. Range(replies') = Range(replies) \cup {"push"}
    BY <1>a, <2>1, <2>2, Appended
  <2>. QED
    BY <1>b, <2>1, <2>3
<1>5. CASE UNCHANGED vars
  BY <1>5, <1>c, UnservedSame DEF vars, client
<1>6. ASSUME NEW cmd \in UserCommands, Send(cmd) \/ DoStart(cmd)
      PROVE  FALSE
  BY <1>6 DEF Send, DoStart
<1>7. CASE \/ Flush \/ ReceiveStart \/ ReceiveRead \/ ReceiveCount \/ DoRead
           \/ FinishStart \/ FinishRead \/ Put \/ Reuse \/ Redial \/ Fail
  BY <1>7, <1>a DEF Flush, ReceiveStart, ReceiveRead, ReceiveCount, DoRead, FinishStart,
                    FinishRead, Put, Reuse, Redial, Fail, ControlInv, client
<1>. QED
  BY <1>1, <1>2, <1>3, <1>4, <1>5, <1>6, <1>7 DEF Next, Progress, Application

\* No call waits in vain, for any commands of the application and any number of them in
\* flight.
THEOREM NoneWaitsInVain == Spec => []NoVainWait
<1>1. Init => WaitInv
  BY DEF Init, WaitInv
<1>2. SessionInv /\ WaitInv /\ [Next]_vars => WaitInv'
  <2>. SUFFICES ASSUME SessionInv, WaitInv, [Next]_vars PROVE WaitInv'
    OBVIOUS
  <2>1. want' > 0 => outbuf' = <<>>
    BY FlushedStep
  <2>2. at' = "draining" => /\ "multi" \notin flags'
                            /\ \/ "ECHO" \in Range(Unserved')
                               \/ {"sentinel", "error"} \cap Range(replies') # {}
    BY DrainStep
  <2>. QED
    BY <2>1, <2>2 DEF WaitInv
<1>3. SessionInv /\ WaitInv => NoVainWait
  <2>. SUFFICES ASSUME SessionInv, WaitInv PROVE NoVainWait
    OBVIOUS
  <2>1. /\ TypeOK /\ pending \in Nat /\ want \in Nat
        /\ Len(wire) \in Nat /\ Len(outbuf) \in Nat /\ Len(replies) \in Nat
    BY UnservedType, OutstandingIs DEF SessionInv, TypeOK
  <2>2. want =< Len(wire) + Len(replies)
    <3>1. CASE want = 0
      BY <2>1, <3>1
    <3>2. CASE want > 0
      <4>1. ~broken /\ reader # "got" /\ outbuf = <<>>
        BY <3>2 DEF SessionInv, ControlInv, WaitInv
      <4>2. pending + want =< Outstanding
        BY <4>1 DEF SessionInv, CountInv
      <4>3. Outstanding = Len(wire) + Len(replies)
        BY <2>1, <4>1, EmptyRange DEF Outstanding
      <4>. QED
        BY <2>1, <4>2, <4>3
    <3>. QED
      BY <2>1, <3>1, <3>2
  <2>3. at = "draining" => Unserved = wire
    <3>1. at = "draining" => outbuf = <<>>
      BY DEF SessionInv, ControlInv
    <3>2. wire \o <<>> = wire
      BY <2>1, ConcatEmptySeq DEF TypeOK
    <3>. QED
      BY <3>1, <3>2 DEF Unserved
  <2>. QED
    BY <2>2, <2>3 DEF WaitInv, NoVainWait
<1>. QED
  BY <1>1, <1>2, <1>3, SessionInvariant, PTL DEF Spec
=============================================================================
