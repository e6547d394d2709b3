------------------------------- MODULE Bridge -------------------------------
(***************************************************************************)
(* The transparent bridge of the BLE firmware (ble_AT - music): bytes from *)
(* the UART are collected in a buffer and sent to the peer of one link as  *)
(* a notification, when the buffer is nearly full or 50 ms after its first *)
(* byte.                                                                   *)
(*                                                                         *)
(* The UART interrupt preempts everything but the section that disables    *)
(* interrupts.  All the rest, the AT task with its message queue, timer    *)
(* handlers and the callbacks of the BLE stack, runs in one loop, one      *)
(* handler at a time; "pc" says where in a handler the interrupt can find  *)
(* it.  Link parameters, LEDs and the copies kept of a peer's parameters   *)
(* are left out: nothing here reads them.                                  *)
(*                                                                         *)
(* A byte is the number of bytes received when it came in.                 *)
(***************************************************************************)
EXTENDS Naturals, Sequences, FiniteSets

CONSTANTS
  Conn,         \* connection indices
  Target,       \* transparent_conidx: zero from at_init on, never assigned again
  MaxLen,       \* AT_RECV_MAX_LEN
  DownLevel,    \* AT_TRANSPARENT_DOWN_LEVEL
  Payload,      \* bytes of a notification: the MTU less three
  MaxBytes      \* bound: bytes the UART receives

ASSUME BridgeAssumption ==
  /\ Target \in Conn /\ IsFiniteSet(Conn)
  /\ MaxLen \in Nat \ {0} /\ DownLevel \in 0 .. MaxLen - 1
  /\ Payload \in Nat \ {0}
  /\ MaxBytes \in Nat

VARIABLES
  conn,               \* the links that are connected
  ntf_enable,         \* the links whose peer has enabled notifications
  transparent_start,  \* bytes from the UART are collected
  recv_buffer,        \* at_recv_buffer up to at_recv_index
  send_ongoing,       \* transparent_data_send_ongoing
  msgs,               \* the AT task's message queue
  transparent_timer,  \* armed: flushes a buffer 50 ms old
  send_data_timer,    \* armed: repeats an answer every 500 ms
  pc,                 \* "idle", or inside a handler: "posting", "flushing", "connecting"
  received,           \* bytes received
  since,              \* ghost: bytes received when a link was connected
  delivered,          \* ghost: the last byte that was notified
  askers              \* ghost: links whose peer asked for the repeated answer

uart  == <<recv_buffer, send_ongoing, received>>
links == <<conn, ntf_enable, send_data_timer, askers, since>>
vars  == <<links, uart, transparent_start, msgs, transparent_timer, pc, delivered>>

Queued(m) == \E i \in DOMAIN msgs : msgs[i] = m
-----------------------------------------------------------------------------
(***************************************************************************)
(* The UART interrupt.                                                     *)
(***************************************************************************)
\* Mutant: room for one byte too many.
StoredPastEnd(b) == IF Len(recv_buffer) <= MaxLen THEN Append(recv_buffer, b) ELSE recv_buffer

\* The buffer with one byte more, if there is room; b is the byte.
Stored(b) == IF Len(recv_buffer) < MaxLen THEN Append(recv_buffer, b) ELSE recv_buffer

\* Mutant: the timer is started by the second byte.
StartsTimerLate == Len(recv_buffer) = 1

StartsTimer == recv_buffer = <<>>

\* app_at_recv_c: outside transparent mode the byte is ignored.
UartByte ==
  /\ received < MaxBytes
  /\ received' = received + 1
  /\ IF transparent_start
     THEN LET full == Len(Stored(received')) > DownLevel /\ ~send_ongoing IN
          /\ recv_buffer' = Stored(received')
          /\ send_ongoing' = (send_ongoing \/ full)
          /\ msgs' = msgs \o (IF StartsTimer THEN <<"START_TIMER">> ELSE <<>>)
                          \o (IF full THEN <<"TRANSPARENT_DATA">> ELSE <<>>)
     ELSE UNCHANGED <<recv_buffer, send_ongoing, msgs>>
  /\ UNCHANGED <<links, transparent_start, transparent_timer, pc, delivered>>
-----------------------------------------------------------------------------
(***************************************************************************)
(* Timer and task.                                                         *)
(***************************************************************************)
\* transparent_timer_handler: the test, and the rest, with the interrupt between.
TimerFires ==
  /\ pc = "idle" /\ transparent_timer
  /\ transparent_timer' = FALSE
  /\ pc' = IF send_ongoing THEN "idle" ELSE "posting"
  /\ UNCHANGED <<links, uart, transparent_start, msgs, delivered>>

TimerPosts ==
  /\ pc = "posting"
  /\ send_ongoing' = TRUE
  /\ msgs' = Append(msgs, "TRANSPARENT_DATA")
  /\ pc' = "idle"
  /\ UNCHANGED <<links, recv_buffer, received, transparent_start, transparent_timer, delivered>>

TakeStartTimer ==
  /\ pc = "idle" /\ msgs # <<>> /\ Head(msgs) = "START_TIMER"
  /\ msgs' = Tail(msgs)
  /\ transparent_timer' = TRUE
  /\ UNCHANGED <<links, uart, transparent_start, pc, delivered>>

\* The timer is stopped before interrupts are disabled.
TakeData ==
  /\ pc = "idle" /\ msgs # <<>> /\ Head(msgs) = "TRANSPARENT_DATA"
  /\ msgs' = Tail(msgs)
  /\ transparent_timer' = FALSE
  /\ pc' = "flushing"
  /\ UNCHANGED <<links, uart, transparent_start, delivered>>

\* at_spss_send_data: one notification of as much as the MTU allows.
Notify ==
  LET n == IF Len(recv_buffer) < Payload THEN Len(recv_buffer) ELSE Payload IN
  delivered' = IF Target \in ntf_enable /\ n > 0 THEN recv_buffer[n] ELSE delivered

\* Mutants: the index is not reset; the flag is not reset.
FlushKeepsIndex ==
  /\ pc = "flushing"
  /\ IF Target \in conn THEN Notify ELSE UNCHANGED delivered
  /\ send_ongoing' = FALSE /\ pc' = "idle"
  /\ UNCHANGED <<links, recv_buffer, received, transparent_start, msgs, transparent_timer>>

FlushKeepsFlag ==
  /\ pc = "flushing"
  /\ IF Target \in conn THEN Notify ELSE UNCHANGED delivered
  /\ recv_buffer' = <<>> /\ pc' = "idle"
  /\ UNCHANGED <<links, send_ongoing, received, transparent_start, msgs, transparent_timer>>

\* The section with interrupts disabled.  Nothing is sent when the link is not
\* connected or the heap is low, and the buffer is emptied all the same.
Flush ==
  /\ pc = "flushing"
  /\ \/ Target \in conn /\ Notify
     \/ UNCHANGED delivered
  /\ recv_buffer' = <<>> /\ send_ongoing' = FALSE
  /\ pc' = "idle"
  /\ UNCHANGED <<links, received, transparent_start, msgs, transparent_timer>>
-----------------------------------------------------------------------------
(***************************************************************************)
(* Links.                                                                  *)
(***************************************************************************)
\* at_cb_slave_connected turns transparent mode on, then counts the links.
SlaveConnected(c) ==
  /\ pc = "idle" /\ c \notin conn
  /\ conn' = conn \cup {c}
  /\ since' = [since EXCEPT ![c] = received]
  /\ transparent_start' = TRUE
  /\ pc' = "connecting"
  /\ UNCHANGED <<uart, ntf_enable, send_data_timer, askers, msgs, transparent_timer, delivered>>

\* Mutants: the buffer is not cleared; a second link leaves the mode on.
AutoTransparentKeep ==
  /\ pc = "connecting"
  /\ transparent_start' = (Cardinality(conn) = 1)
  /\ pc' = "idle"
  /\ UNCHANGED <<links, uart, msgs, transparent_timer, delivered>>

AutoTransparentAlways ==
  /\ pc = "connecting"
  /\ recv_buffer' = <<>>
  /\ pc' = "idle"
  /\ UNCHANGED <<links, transparent_start, send_ongoing, received, msgs, transparent_timer, delivered>>

\* atuo_transparent_set for the only link, atuo_transparent_clr beside others:
\* both empty the buffer.
AutoTransparent ==
  /\ pc = "connecting"
  /\ transparent_start' = (Cardinality(conn) = 1)
  /\ recv_buffer' = <<>>
  /\ pc' = "idle"
  /\ UNCHANGED <<links, send_ongoing, received, msgs, transparent_timer, delivered>>

\* Mutant: the repeated answer is not stopped.
DisconnectedTicking(c) ==
  /\ pc = "idle" /\ c \in conn
  /\ conn' = conn \ {c} /\ ntf_enable' = ntf_enable \ {c} /\ askers' = askers \ {c}
  /\ IF conn' = {} /\ transparent_start
     THEN transparent_start' = FALSE /\ recv_buffer' = <<>>
     ELSE UNCHANGED <<transparent_start, recv_buffer>>
  /\ UNCHANGED <<since, send_data_timer, send_ongoing, received, msgs, transparent_timer, pc, delivered>>

\* at_cb_disconnected and the service's LINK_LOST.  Only the last link's loss
\* ends transparent mode.
Disconnected(c) ==
  /\ pc = "idle" /\ c \in conn
  /\ conn' = conn \ {c} /\ ntf_enable' = ntf_enable \ {c} /\ askers' = askers \ {c}
  /\ send_data_timer' = FALSE
  /\ IF conn' = {} /\ transparent_start
     THEN transparent_start' = FALSE /\ recv_buffer' = <<>>
     ELSE UNCHANGED <<transparent_start, recv_buffer>>
  /\ UNCHANGED <<since, send_ongoing, received, msgs, transparent_timer, pc, delivered>>

\* The peer writes the client configuration of the notified characteristic.
WriteNtfEnable(c) ==
  /\ pc = "idle" /\ c \in conn
  /\ ntf_enable' \in {ntf_enable \cup {c}, ntf_enable \ {c}}
  /\ UNCHANGED <<conn, send_data_timer, askers, since, uart, transparent_start, msgs,
                 transparent_timer, pc, delivered>>

\* The peer writes 01 01: answer now and every 500 ms.
WriteStart(c) ==
  /\ pc = "idle" /\ c \in conn
  /\ send_data_timer' = TRUE /\ askers' = askers \cup {c}
  /\ UNCHANGED <<conn, ntf_enable, since, uart, transparent_start, msgs, transparent_timer,
                 pc, delivered>>

\* The peer of any link writes 01 02: no more answers.
WriteStop(c) ==
  /\ pc = "idle" /\ c \in conn
  /\ send_data_timer' = FALSE /\ askers' = askers \ {c}
  /\ UNCHANGED <<conn, ntf_enable, since, uart, transparent_start, msgs, transparent_timer,
                 pc, delivered>>
-----------------------------------------------------------------------------
Init ==
  /\ conn = {} /\ ntf_enable = {} /\ transparent_start = FALSE
  /\ recv_buffer = <<>> /\ send_ongoing = FALSE /\ msgs = <<>>
  /\ transparent_timer = FALSE /\ send_data_timer = FALSE
  /\ pc = "idle" /\ received = 0 /\ since = [c \in Conn |-> 0]
  /\ delivered = 0 /\ askers = {}

Handlers == TimerPosts \/ Flush \/ AutoTransparent

Stack == \E c \in Conn :
  \/ SlaveConnected(c) \/ Disconnected(c)
  \/ WriteNtfEnable(c) \/ WriteStart(c) \/ WriteStop(c)

Next == UartByte \/ TimerFires \/ TakeStartTimer \/ TakeData \/ Handlers \/ Stack

\* A handler that has begun goes on; the loop serves the message queue and the
\* timers between the stack's events, however many there are.
Fairness ==
  /\ WF_vars(Handlers)
  /\ SF_vars(TimerFires) /\ SF_vars(TakeStartTimer) /\ SF_vars(TakeData)

Spec == Init /\ [][Next]_vars /\ Fairness
-----------------------------------------------------------------------------
(***************************************************************************)
(* Properties                                                              *)
(***************************************************************************)
TypeOK ==
  /\ conn \subseteq Conn /\ ntf_enable \subseteq conn /\ askers \subseteq conn
  /\ transparent_start \in BOOLEAN /\ send_ongoing \in BOOLEAN
  /\ transparent_timer \in BOOLEAN /\ send_data_timer \in BOOLEAN
  /\ recv_buffer \in Seq(1 .. received) /\ Len(recv_buffer) <= MaxLen
  /\ msgs \in Seq({"START_TIMER", "TRANSPARENT_DATA"})
  /\ pc \in {"idle", "posting", "flushing", "connecting"}
  /\ received \in 0 .. MaxBytes
  /\ since \in [Conn -> 0 .. received]
  /\ delivered \in 0 .. received

\* A byte in the buffer is never forgotten: until it is sent or dropped by a
\* flush, a message or a timer that leads to one is on its way, wherever the
\* interrupt came in.
FlushScheduled ==
  recv_buffer # <<>> =>
    \/ Queued("START_TIMER") \/ transparent_timer
    \/ pc = "posting" \/ Queued("TRANSPARENT_DATA") \/ pc = "flushing"

\* A link is only ever sent bytes that came in while it was connected: nothing
\* is left in the buffer from before, whatever links came and went.
FreshBytes ==
  pc # "connecting" /\ Target \in conn =>
    \A i \in DOMAIN recv_buffer : recv_buffer[i] > since[Target]

\* No byte is notified twice: what has been notified has left the buffer.
NotTwice == \A i \in DOMAIN recv_buffer : recv_buffer[i] > delivered

\* The bridge is on only while there is exactly one link, whatever the order
\* in which links are made and lost.
TransparentAlone ==
  pc # "connecting" /\ transparent_start => Cardinality(conn) = 1

\* The answer is repeated only as long as a link is connected whose peer asked
\* for it.
TickWanted == send_data_timer => askers # {}

\* The buffer is emptied again and again.
Flushed == recv_buffer # <<>> ~> recv_buffer = <<>>
=============================================================================
