---------------------------- MODULE BridgeProofs ----------------------------
(***************************************************************************)
(* Proofs about Bridge, for any number of links, any buffer length and     *)
(* threshold, any MTU, and any number of bytes.                            *)
(***************************************************************************)
EXTENDS Bridge, FiniteSetTheorems, TLAPS

-----------------------------------------------------------------------------
(***************************************************************************)
(* Lemmas about sequences.                                                 *)
(***************************************************************************)
Has(q, m) == \E i \in DOMAIN q : q[i] = m

\* A sequence over a set is a sequence over a larger one.
LEMMA SeqWiden ==
  ASSUME NEW S, NEW T, S \subseteq T, NEW q \in Seq(S)
  PROVE  q \in Seq(T)
OBVIOUS

\* The empty sequence is a sequence over any set.
LEMMA EmptySeq == ASSUME NEW S PROVE <<>> \in Seq(S) /\ Len(<<>>) = 0
OBVIOUS

\* What is queued stays queued when more is queued behind it.
LEMMA HasConcat ==
  ASSUME NEW S, NEW q \in Seq(S), NEW r \in Seq(S), NEW m
  PROVE  Has(q \o r, m) <=> Has(q, m) \/ Has(r, m)
<1>1. ASSUME NEW i \in DOMAIN q PROVE i \in DOMAIN (q \o r) /\ (q \o r)[i] = q[i]
  OBVIOUS
<1>2. ASSUME NEW i \in DOMAIN r
      PROVE  Len(q) + i \in DOMAIN (q \o r) /\ (q \o r)[Len(q) + i] = r[i]
  OBVIOUS
<1>3. ASSUME NEW i \in DOMAIN (q \o r)
      PROVE  \/ i \in DOMAIN q /\ (q \o r)[i] = q[i]
             \/ i - Len(q) \in DOMAIN r /\ (q \o r)[i] = r[i - Len(q)]
  OBVIOUS
<1> QED BY <1>1, <1>2, <1>3 DEF Has

\* Taking the first message leaves every other one queued.
LEMMA HasTail ==
  ASSUME NEW S, NEW q \in Seq(S), q # <<>>, NEW m, Has(q, m), Head(q) # m
  PROVE  Has(Tail(q), m)
<1>1. PICK i \in DOMAIN q : q[i] = m
  BY DEF Has
<1>2. i # 1
  BY <1>1
<1>3. i - 1 \in DOMAIN Tail(q) /\ Tail(q)[i - 1] = m
  BY <1>1, <1>2
<1> QED BY <1>3 DEF Has
-----------------------------------------------------------------------------
(***************************************************************************)
(* Types.                                                                  *)
(***************************************************************************)
Message == {"START_TIMER", "TRANSPARENT_DATA"}

\* What a received byte may put in the buffer, and the messages it may post.
LEMMA StoredType ==
  ASSUME TypeOK, NEW b \in Nat, b = received + 1
  PROVE  Stored(b) \in Seq(1 .. b) /\ Len(Stored(b)) <= MaxLen
<1>1. 1 .. received \subseteq 1 .. b
  BY DEF TypeOK
<1>2. recv_buffer \in Seq(1 .. b) /\ Len(recv_buffer) \in Nat /\ b \in 1 .. b
  BY <1>1, SeqWiden DEF TypeOK
<1>3. CASE Len(recv_buffer) < MaxLen
  <2>1. Append(recv_buffer, b) \in Seq(1 .. b)
    BY <1>2
  <2>2. Len(Append(recv_buffer, b)) = Len(recv_buffer) + 1
    BY <1>2
  <2> QED BY <1>2, <1>3, <2>1, <2>2, BridgeAssumption DEF Stored
<1>4. CASE ~(Len(recv_buffer) < MaxLen)
  BY <1>2, <1>4 DEF Stored, TypeOK
<1> QED BY <1>3, <1>4

\* What the interrupt posts: a message of each kind, or none.
LEMMA PostedType ==
  ASSUME NEW q \in Seq(Message), NEW a \in BOOLEAN, NEW b \in BOOLEAN
  PROVE  q \o (IF a THEN <<"START_TIMER">> ELSE <<>>)
           \o (IF b THEN <<"TRANSPARENT_DATA">> ELSE <<>>) \in Seq(Message)
<1>1. <<"START_TIMER">> \in Seq(Message) /\ <<"TRANSPARENT_DATA">> \in Seq(Message)
  BY DEF Message
<1>2. <<>> \in Seq(Message)
  BY EmptySeq
<1>3. (IF a THEN <<"START_TIMER">> ELSE <<>>) \in Seq(Message)
  BY <1>1, <1>2
<1>4. (IF b THEN <<"TRANSPARENT_DATA">> ELSE <<>>) \in Seq(Message)
  BY <1>1, <1>2
<1> QED BY <1>3, <1>4

\* Every step keeps the types.
LEMMA NextType == TypeOK /\ [Next]_vars => TypeOK'
<1> SUFFICES ASSUME TypeOK, [Next]_vars PROVE TypeOK'
  OBVIOUS
<1> USE BridgeAssumption DEF TypeOK, vars, links, uart
<1>1. CASE UartByte
  <2>1. received' = received + 1 /\ received' \in 0 .. MaxBytes
    BY <1>1 DEF UartByte
  <2>2. recv_buffer' \in Seq(1 .. received') /\ Len(recv_buffer') <= MaxLen
    <3>1. CASE transparent_start
      BY <1>1, <2>1, <3>1, StoredType DEF UartByte
    <3>2. CASE ~transparent_start
      BY <1>1, <2>1, <3>2, SeqWiden, 1 .. received \subseteq 1 .. received' DEF UartByte
    <3> QED BY <3>1, <3>2
  <2>3. msgs' \in Seq(Message) /\ send_ongoing' \in BOOLEAN
    BY <1>1, PostedType DEF UartByte, StartsTimer, Message
  <2>4. since' \in [Conn -> 0 .. received'] /\ delivered' \in 0 .. received'
    BY <1>1, <2>1 DEF UartByte
  <2>5. UNCHANGED <<conn, ntf_enable, askers, transparent_start, transparent_timer,
                    send_data_timer, pc>>
    BY <1>1 DEF UartByte
  <2> QED BY <2>1, <2>2, <2>3, <2>4, <2>5 DEF Message
<1>2. CASE TimerFires
  BY <1>2 DEF TimerFires
<1>3. CASE TimerPosts
  BY <1>3 DEF TimerPosts
<1>4. CASE TakeStartTimer
  BY <1>4 DEF TakeStartTimer
<1>5. CASE TakeData
  <2>1. msgs' \in Seq({"START_TIMER", "TRANSPARENT_DATA"})
    BY <1>5 DEF TakeData
  <2>2. pc' = "flushing" /\ transparent_timer' = FALSE
    BY <1>5 DEF TakeData
  <2>3. UNCHANGED <<links, uart, transparent_start, delivered>>
    BY <1>5 DEF TakeData
  <2> QED BY <2>1, <2>2, <2>3
<1>6. CASE Flush
  <2>1. delivered' \in 0 .. received
    <3>1. ASSUME NEW n \in DOMAIN recv_buffer PROVE recv_buffer[n] \in 0 .. received
      OBVIOUS
    <3> QED BY <1>6, <3>1 DEF Flush, Notify
  <2>2. recv_buffer' \in Seq(1 .. received') /\ Len(recv_buffer') <= MaxLen
    BY <1>6, EmptySeq DEF Flush
  <2> QED BY <1>6, <2>1, <2>2 DEF Flush
<1>7. CASE AutoTransparent
  <2>1. recv_buffer' \in Seq(1 .. received') /\ Len(recv_buffer') <= MaxLen
    BY <1>7, EmptySeq DEF AutoTransparent
  <2>2. transparent_start' \in BOOLEAN
    BY <1>7 DEF AutoTransparent
  <2> QED BY <1>7, <2>1, <2>2 DEF AutoTransparent
<1>8. ASSUME NEW c \in Conn, SlaveConnected(c) PROVE TypeOK'
  BY <1>8 DEF SlaveConnected
<1>9. ASSUME NEW c \in Conn, Disconnected(c) PROVE TypeOK'
  <2>1. recv_buffer' \in Seq(1 .. received') /\ Len(recv_buffer') <= MaxLen
    <3>1. received' = received
      BY <1>9 DEF Disconnected
    <3>2. CASE recv_buffer' = <<>>
      BY <3>2, EmptySeq
    <3>3. CASE recv_buffer' = recv_buffer
      BY <3>1, <3>3
    <3> QED BY <1>9, <3>2, <3>3 DEF Disconnected
  <2>2. transparent_start' \in BOOLEAN
    BY <1>9 DEF Disconnected
  <2> QED BY <1>9, <2>1, <2>2 DEF Disconnected
<1>10. ASSUME NEW c \in Conn, WriteNtfEnable(c) \/ WriteStart(c) \/ WriteStop(c) PROVE TypeOK'
  BY <1>10 DEF WriteNtfEnable, WriteStart, WriteStop
<1>11. CASE UNCHANGED vars
  BY <1>11
<1> QED BY <1>1, <1>2, <1>3, <1>4, <1>5, <1>6, <1>7, <1>8, <1>9, <1>10, <1>11
        DEF Next, Handlers, Stack

\* The types hold at the beginning.
LEMMA InitType == Init => TypeOK
<1> SUFFICES ASSUME Init PROVE TypeOK
  OBVIOUS
<1>1. recv_buffer \in Seq(1 .. received) /\ Len(recv_buffer) <= MaxLen
  BY EmptySeq, BridgeAssumption DEF Init
<1>2. msgs \in Seq({"START_TIMER", "TRANSPARENT_DATA"})
  BY EmptySeq DEF Init
<1>3. since \in [Conn -> 0 .. received] /\ received \in 0 .. MaxBytes /\ delivered \in 0 .. received
  BY BridgeAssumption DEF Init
<1>4. conn \subseteq Conn /\ ntf_enable \subseteq conn /\ askers \subseteq conn
  BY DEF Init
<1> QED BY <1>1, <1>2, <1>3, <1>4 DEF Init, TypeOK

\* The variables keep their types; in particular the interrupt never stores a
\* byte behind the end of at_recv_buffer.
THEOREM BridgeTypeCorrect == Spec => []TypeOK
BY InitType, NextType, PTL DEF Spec
-----------------------------------------------------------------------------
(***************************************************************************)
(* No byte is forgotten.  FlushScheduled is not inductive: where the timer *)
(* fires during a flush that is on its way, it relies on send_ongoing      *)
(* meaning what it says.                                                   *)
(***************************************************************************)
OngoingScheduled == send_ongoing => Queued("TRANSPARENT_DATA") \/ pc = "flushing"

FlushInv == TypeOK /\ OngoingScheduled /\ FlushScheduled

\* A byte that comes in at any point of any handler.
LEMMA UartByteFlush ==
  ASSUME FlushInv, UartByte
  PROVE  OngoingScheduled' /\ FlushScheduled'
<1> DEFINE full == Len(Stored(received')) > DownLevel /\ ~send_ongoing
           s == IF StartsTimer THEN <<"START_TIMER">> ELSE <<>>
           d == IF full THEN <<"TRANSPARENT_DATA">> ELSE <<>>
<1>1. CASE ~transparent_start
  BY <1>1 DEF UartByte, FlushInv, OngoingScheduled, FlushScheduled, Queued
<1>2. CASE transparent_start
  <2>1. /\ msgs' = msgs \o s \o d
        /\ send_ongoing' = (send_ongoing \/ full)
        /\ pc' = pc /\ transparent_timer' = transparent_timer
    BY <1>2 DEF UartByte
  <2>2. msgs \in Seq(Message) /\ s \in Seq(Message) /\ d \in Seq(Message)
    <3>1. <<"START_TIMER">> \in Seq(Message) /\ <<"TRANSPARENT_DATA">> \in Seq(Message)
      BY DEF Message
    <3> QED BY <3>1, EmptySeq DEF FlushInv, TypeOK, Message
  <2>3. msgs \o s \in Seq(Message)
    BY <2>2
  <2> HIDE DEF s, d
  <2>4. ASSUME NEW m PROVE Has(msgs', m) <=> Has(msgs, m) \/ Has(s, m) \/ Has(d, m)
    BY <2>1, <2>2, <2>3, HasConcat
  <2>5. StartsTimer => Has(s, "START_TIMER")
    BY DEF s, Has
  <2>6. full => Has(d, "TRANSPARENT_DATA")
    BY DEF d, Has
  <2> HIDE DEF full
  <2>7. OngoingScheduled'
    BY <2>1, <2>4, <2>6 DEF FlushInv, OngoingScheduled, Queued, Has
  <2>8. FlushScheduled'
    BY <2>1, <2>4, <2>5 DEF FlushInv, FlushScheduled, StartsTimer, Queued, Has
  <2> QED BY <2>7, <2>8
<1> QED BY <1>1, <1>2

\* Every step keeps a flush scheduled.
LEMMA NextFlush == FlushInv /\ [Next]_vars => FlushInv'
<1> SUFFICES ASSUME FlushInv, [Next]_vars PROVE OngoingScheduled' /\ FlushScheduled'
  BY NextType DEF FlushInv
<1>1. CASE UartByte
  BY <1>1, UartByteFlush
<1>2. CASE TimerFires
  BY <1>2 DEF TimerFires, FlushInv, OngoingScheduled, FlushScheduled, Queued, uart
<1>3. CASE TimerPosts
  <2>1. Queued("TRANSPARENT_DATA")'
    <3>1. msgs' = Append(msgs, "TRANSPARENT_DATA") /\ msgs \in Seq(Message)
      BY <1>3 DEF TimerPosts, FlushInv, TypeOK, Message
    <3>2. Len(msgs) + 1 \in DOMAIN msgs' /\ msgs'[Len(msgs) + 1] = "TRANSPARENT_DATA"
      BY <3>1
    <3> QED BY <3>2 DEF Queued
  <2> QED BY <2>1 DEF OngoingScheduled, FlushScheduled
<1>4. CASE TakeStartTimer
  <2>1. Queued("TRANSPARENT_DATA") => Queued("TRANSPARENT_DATA")'
    <3>1. /\ msgs \in Seq(Message) /\ msgs # <<>> /\ msgs' = Tail(msgs)
          /\ Head(msgs) # "TRANSPARENT_DATA"
      BY <1>4 DEF TakeStartTimer, FlushInv, TypeOK, Message
    <3> QED BY <3>1, HasTail DEF Queued, Has
  <2> QED BY <1>4, <2>1 DEF TakeStartTimer, FlushInv, OngoingScheduled, FlushScheduled, uart
<1>5. CASE TakeData
  BY <1>5 DEF TakeData, OngoingScheduled, FlushScheduled
<1>6. CASE Flush
  BY <1>6 DEF Flush, OngoingScheduled, FlushScheduled
<1>7. CASE AutoTransparent
  BY <1>7 DEF AutoTransparent, FlushInv, OngoingScheduled, FlushScheduled, Queued
<1>8. CASE Stack
  <2>1. /\ UNCHANGED <<send_ongoing, msgs, transparent_timer>>
        /\ recv_buffer' \in {<<>>, recv_buffer}
        /\ pc = "idle"
    BY <1>8 DEF Stack, SlaveConnected, Disconnected, WriteNtfEnable, WriteStart, WriteStop, uart
  <2> QED BY <2>1 DEF FlushInv, OngoingScheduled, FlushScheduled, Queued
<1>9. CASE UNCHANGED vars
  BY <1>9 DEF FlushInv, OngoingScheduled, FlushScheduled, Queued, vars, uart
<1> QED BY <1>1, <1>2, <1>3, <1>4, <1>5, <1>6, <1>7, <1>8, <1>9 DEF Next, Handlers

\* Wherever the UART interrupt comes in, a byte that has been stored is followed
\* by a message or a timer that leads to a flush.
THEOREM NoByteForgotten == Spec => []FlushScheduled
<1>1. Init => FlushInv
  <2>1. Init => TypeOK
    BY InitType
  <2> QED BY <2>1 DEF Init, FlushInv, OngoingScheduled, FlushScheduled
<1>2. FlushInv => FlushScheduled
  BY DEF FlushInv
<1> QED BY <1>1, <1>2, NextFlush, PTL DEF Spec
-----------------------------------------------------------------------------
(***************************************************************************)
(* Whose bytes they are.                                                   *)
(***************************************************************************)
BytesInv == TypeOK /\ FreshBytes /\ NotTwice

\* The bytes of the buffer after the interrupt: those before, and the new one.
LEMMA StoredBytes ==
  ASSUME TypeOK, NEW b \in Nat, NEW i \in DOMAIN Stored(b)
  PROVE  Stored(b)[i] = b \/ (i \in DOMAIN recv_buffer /\ Stored(b)[i] = recv_buffer[i])
BY DEF Stored, TypeOK

\* An empty buffer holds nothing stale and nothing sent.
LEMMA NoBytes == recv_buffer' = <<>> => FreshBytes' /\ NotTwice'
BY DEF FreshBytes, NotTwice

\* Every step leaves in the buffer only bytes the target has not been sent and
\* was connected for.
LEMMA NextBytes == BytesInv /\ [Next]_vars => BytesInv'
<1> SUFFICES ASSUME BytesInv, [Next]_vars PROVE FreshBytes' /\ NotTwice'
  BY NextType DEF BytesInv
<1> USE DEF BytesInv
<1>1. CASE UartByte
  <2>1. received' = received + 1 /\ received' \in Nat
    BY <1>1 DEF UartByte, TypeOK
  <2>2. UNCHANGED <<pc, conn, since, delivered>>
    BY <1>1 DEF UartByte, links
  <2>3. ASSUME NEW i \in DOMAIN recv_buffer'
        PROVE  \/ recv_buffer'[i] = received'
               \/ i \in DOMAIN recv_buffer /\ recv_buffer'[i] = recv_buffer[i]
    BY <1>1, <2>1, StoredBytes DEF UartByte
  <2>4. received' > delivered /\ received' > since[Target]
    BY <2>1, BridgeAssumption DEF TypeOK
  <2> QED BY <2>2, <2>3, <2>4 DEF FreshBytes, NotTwice
<1>2. CASE TimerFires \/ TimerPosts
  BY <1>2 DEF TimerFires, TimerPosts, FreshBytes, NotTwice, links, uart
<1>3. CASE TakeStartTimer \/ TakeData
  BY <1>3 DEF TakeStartTimer, TakeData, FreshBytes, NotTwice, links, uart
<1>4. CASE Flush
  BY <1>4, NoBytes DEF Flush
<1>5. CASE AutoTransparent
  BY <1>5, NoBytes DEF AutoTransparent
<1>6. ASSUME NEW c \in Conn, SlaveConnected(c) PROVE FreshBytes' /\ NotTwice'
  BY <1>6 DEF SlaveConnected, FreshBytes, NotTwice, uart
<1>7. ASSUME NEW c \in Conn, Disconnected(c) PROVE FreshBytes' /\ NotTwice'
  <2>1. CASE recv_buffer' = <<>>
    BY <2>1, NoBytes
  <2>2. CASE recv_buffer' = recv_buffer
    BY <1>7, <2>2 DEF Disconnected, FreshBytes, NotTwice
  <2> QED BY <1>7, <2>1, <2>2 DEF Disconnected
<1>8. ASSUME NEW c \in Conn, WriteNtfEnable(c) \/ WriteStart(c) \/ WriteStop(c)
      PROVE  FreshBytes' /\ NotTwice'
  BY <1>8 DEF WriteNtfEnable, WriteStart, WriteStop, FreshBytes, NotTwice, uart
<1>9. CASE UNCHANGED vars
  BY <1>9 DEF FreshBytes, NotTwice, vars, links, uart
<1> QED BY <1>1, <1>2, <1>3, <1>4, <1>5, <1>6, <1>7, <1>8, <1>9 DEF Next, Handlers, Stack

\* What the interrupt stores is newer than all that was sent, in every behaviour.
LEMMA BytesInvariant == Spec => []BytesInv
<1>1. Init => BytesInv
  BY InitType DEF Init, BytesInv, FreshBytes, NotTwice
<1> QED BY <1>1, NextBytes, PTL DEF Spec

\* The buffer a flush sends from holds no byte from before its link was made,
\* whatever other links there were and wherever bytes came in.
THEOREM OnlyFreshBytes == Spec => []FreshBytes
BY BytesInvariant, PTL DEF BytesInv

\* A byte that has been notified is not notified again.
THEOREM NoByteTwice == Spec => []NotTwice
BY BytesInvariant, PTL DEF BytesInv
-----------------------------------------------------------------------------
(***************************************************************************)
(* Transparent mode and the number of links.                               *)
(***************************************************************************)
AloneInv == TypeOK /\ TransparentAlone

\* Every step, a lost link's in particular, keeps the mode to a single link.
LEMMA NextAlone == AloneInv /\ [Next]_vars => AloneInv'
<1> SUFFICES ASSUME AloneInv, [Next]_vars PROVE TransparentAlone'
  BY NextType DEF AloneInv
<1> USE DEF AloneInv, TransparentAlone
<1>1. CASE UNCHANGED <<pc, conn, transparent_start>>
  BY <1>1
<1>2. CASE TimerFires \/ TimerPosts \/ TakeData \/ Flush
  BY <1>2 DEF TimerFires, TimerPosts, TakeData, Flush, links
<1>3. CASE AutoTransparent
  BY <1>3 DEF AutoTransparent, links
<1>4. ASSUME NEW c \in Conn, SlaveConnected(c) PROVE TransparentAlone'
  BY <1>4 DEF SlaveConnected
<1>5. ASSUME NEW c \in Conn, Disconnected(c) PROVE TransparentAlone'
  <2>1. pc = "idle" /\ c \in conn /\ conn' = conn \ {c}
    BY <1>5 DEF Disconnected
  <2>2. ASSUME transparent_start PROVE ~transparent_start'
    <3>1. IsFiniteSet(conn) /\ Cardinality(conn) = 1
      BY <2>1, <2>2, FS_Subset, BridgeAssumption DEF TypeOK
    <3>2. PICK x : conn = {x}
      BY <3>1, FS_Singleton
    <3>3. conn' = {}
      BY <2>1, <3>2
    <3> QED BY <1>5, <2>2, <3>3 DEF Disconnected
  <2>3. ASSUME ~transparent_start PROVE ~transparent_start'
    BY <1>5, <2>3 DEF Disconnected, TypeOK
  <2> QED BY <2>2, <2>3
<1>6. UartByte \/ TakeStartTimer => UNCHANGED <<pc, conn, transparent_start>>
  BY DEF UartByte, TakeStartTimer, links
<1>7. ASSUME NEW c \in Conn, WriteNtfEnable(c) \/ WriteStart(c) \/ WriteStop(c)
      PROVE  UNCHANGED <<pc, conn, transparent_start>>
  BY <1>7 DEF WriteNtfEnable, WriteStart, WriteStop
<1>8. UNCHANGED vars => UNCHANGED <<pc, conn, transparent_start>>
  BY DEF vars, links
<1> QED BY <1>1, <1>2, <1>3, <1>4, <1>5, <1>6, <1>7, <1>8 DEF Next, Handlers, Stack

\* Bytes are collected only while there is exactly one link.
THEOREM BridgeServesOneLink == Spec => []TransparentAlone
<1>1. Init => AloneInv
  BY InitType DEF Init, AloneInv, TransparentAlone
<1>2. AloneInv => TransparentAlone
  BY DEF AloneInv
<1> QED BY <1>1, <1>2, NextAlone, PTL DEF Spec
-----------------------------------------------------------------------------
(***************************************************************************)
(* The repeated answer.                                                    *)
(***************************************************************************)
\* Every step leaves the timer of the repeated answer to a link that wants it:
\* a lost link or a stop takes the timer with it, whoever else had asked.
LEMMA NextTick == TickWanted /\ [Next]_vars => TickWanted'
<1> SUFFICES ASSUME TickWanted, [Next]_vars PROVE TickWanted'
  OBVIOUS
<1>1. CASE UNCHANGED <<send_data_timer, askers>>
  BY <1>1 DEF TickWanted
<1>2. ASSUME NEW c \in Conn, Disconnected(c) \/ WriteStart(c) \/ WriteStop(c)
      PROVE  TickWanted'
  BY <1>2 DEF Disconnected, WriteStart, WriteStop, TickWanted
<1>3. ASSUME NEW c \in Conn, SlaveConnected(c) \/ WriteNtfEnable(c)
      PROVE  UNCHANGED <<send_data_timer, askers>>
  BY <1>3 DEF SlaveConnected, WriteNtfEnable
<1>4. UartByte \/ TimerFires \/ TakeStartTimer \/ TakeData \/ Handlers \/ UNCHANGED vars
        => UNCHANGED <<send_data_timer, askers>>
  BY DEF UartByte, TimerFires, TakeStartTimer, TakeData, Handlers, TimerPosts, Flush,
         AutoTransparent, links, vars
<1> QED BY <1>1, <1>2, <1>3, <1>4 DEF Next, Stack

\* No answer is repeated that no connected peer has asked for.
THEOREM TickOnlyWanted == Spec => []TickWanted
<1>1. Init => TickWanted
  BY DEF Init, TickWanted
<1> QED BY <1>1, NextTick, PTL DEF Spec
=============================================================================
