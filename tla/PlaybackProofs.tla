--------------------------- MODULE PlaybackProofs ---------------------------
(***************************************************************************)
(* Proofs about Playback, for any number of processes, attachments and     *)
(* frames.                                                                 *)
(***************************************************************************)
EXTENDS Playback, FiniteSetTheorems, WellFoundedInduction, TLAPS

-----------------------------------------------------------------------------
(***************************************************************************)
(* The inductive invariant.  What a vibration process will have done once  *)
(* it has read its queue is what the audio process last told it (Chain);   *)
(* what was last told is where the audio is (ToldIsPos).  The rest says    *)
(* that no frame is sent before the streams are opened, since a vibration  *)
(* process ignores such a frame.                                           *)
(***************************************************************************)
Before(p, q, i) == IF i = 1 THEN p ELSE q[i - 1].at

\* Read from position p, queue q leads event by event to position e.
Chain(p, q, e) ==
  /\ \A i \in 1 .. Len(q) : q[i].at = After(Before(p, q, i), q[i].head, q[i].pos)
  /\ e = IF q = <<>> THEN p ELSE q[Len(q)].at

ChainInv == \A v \in Vib : Follows(v) => Chain(vpos[v], Inbox(v), told)

InitIn(q, n) == \E j \in 1 .. n : j <= Len(q) /\ q[j].head = "INIT"

\* To a process that is not initialised, INIT is sent before any frame.
InitFirst ==
  \A v \in Vib : Follows(v) /\ vstate[v] = "INACTIVE" =>
    /\ \A i \in 1 .. Len(Inbox(v)) :
         Inbox(v)[i].head = "NEXT_FRAME" => InitIn(Inbox(v), i - 1)
    /\ device # "none" => InitIn(Inbox(v), Len(Inbox(v)))

\* Before the audio is opened the only command there can be is INIT.
OpenFirst ==
  /\ apc = "boot" => astate = "INACTIVE"
  /\ apc = "poll" /\ device = "none" =>
       /\ astate = "INACTIVE"
       /\ IF cmdQ = <<>> THEN sent = 0 ELSE Head(cmdQ).head = "INIT"
  /\ apc \in {"frame", "write"} => device # "none"

ToldIsPos == Looping /\ apos < NA => told = apos + (IF apc = "write" THEN 1 ELSE 0)

IInv == TypeOK /\ ChainInv /\ InitFirst /\ OpenFirst /\ ToldIsPos
-----------------------------------------------------------------------------
(***************************************************************************)
(* Lemmas about the operators the actions are made of.                     *)
(***************************************************************************)
EventHeads == {"INIT", "NEXT_FRAME", "SEEK", "CLOSE", "STATUS_ACQ"}

\* An event leaves a position inside the stream, or just past it.
LEMMA AfterType ==
  ASSUME NEW p \in 0 .. Past, NEW h \in EventHeads, NEW x \in Nat
  PROVE  After(p, h, x) \in 0 .. Past
BY PlaybackAssumption DEF After, Past, Clamp, EventHeads

\* Broadcasting keeps the queues' type.
LEMMA BroadcastType ==
  ASSUME TypeOK, NEW h \in EventHeads, NEW x \in Nat, Broadcast(h, x)
  PROVE  /\ told' = After(told, h, x)
         /\ told' \in 0 .. Past
         /\ vibQ' \in [Slot -> Seq(Event)]
         /\ \A s \in Slot :
              vibQ'[s] = Append(vibQ[s], [head |-> h, pos |-> x, at |-> told'])
<1>1. told' = After(told, h, x) /\ told' \in 0 .. Past
  BY AfterType DEF Broadcast, TypeOK
<1>2. [head |-> h, pos |-> x, at |-> told'] \in Event
  BY <1>1, PlaybackAssumption DEF Event, EventHeads, Past
<1>3. vibQ' = [s \in Slot |-> Append(vibQ[s], [head |-> h, pos |-> x, at |-> told'])]
  BY DEF Broadcast
<1>4. \A s \in Slot : vibQ[s] \in Seq(Event)
  BY DEF TypeOK
<1> QED BY <1>1, <1>2, <1>3, <1>4

\* Taking a command keeps the command queue's type.
LEMMA TakeType ==
  ASSUME TypeOK, NEW h, Take(h)
  PROVE  /\ apc = "poll" /\ cmdQ # <<>> /\ Head(cmdQ).head = h
         /\ cmdQ' \in Seq(Command) /\ Head(cmdQ) \in Command
         /\ UNCHANGED <<resQ, vpc, vstate, vpos, sent>>
BY DEF Take, TypeOK, vvars

\* The queue of an attached process is one of the queues, and its own.
LEMMA MySlotIsMine ==
  ASSUME NEW v \in Vib, IsAttached(v)
  PROVE  MySlot(v) \in Slot /\ Attached[MySlot(v)] = v
BY DEF IsAttached, MySlot, ReadsSlot
-----------------------------------------------------------------------------
(***************************************************************************)
(* Type correctness                                                        *)
(***************************************************************************)

\* What TypeOK says of the audio process, of the vibration processes, and of
\* the queues and counters.
AudioType == /\ apc \in {"boot", "poll", "frame", "write", "leaving", "dead"}
             /\ aexit \in {"none", "closed", "ended", "broke", "raised"}
             /\ astate \in {"INACTIVE", "ACTIVE"}
             /\ apos \in 0 .. NA
             /\ device \in {"none", "running", "stopped", "closed"}
VibType   == /\ vpc \in [Vib -> {"running", "closed", "exhausted", "failed"}]
             /\ vstate \in [Vib -> {"INACTIVE", "ACTIVE"}]
             /\ vpos \in [Vib -> 0 .. NV]
QueueType == /\ cmdQ \in Seq(Command) /\ resQ \in Seq(Reply)
             /\ vibQ \in [Slot -> Seq(Event)]
             /\ told \in 0 .. Past /\ sent \in 0 .. MaxCmd

\* Together they are TypeOK.
LEMMA TypeParts == TypeOK <=> AudioType /\ VibType /\ QueueType
BY DEF TypeOK, AudioType, VibType, QueueType

\* A command that was taken and broadcast, or not broadcast, keeps the queues.
LEMMA TakeQueueType ==
  ASSUME TypeOK, NEW h, Take(h),
         \/ NoBroadcast
         \/ \E g \in EventHeads, x \in Nat : Broadcast(g, x)
  PROVE  QueueType' /\ VibType'
<1>1. vibQ' \in [Slot -> Seq(Event)] /\ told' \in 0 .. Past
  <2>1. CASE NoBroadcast
    BY <2>1 DEF NoBroadcast, TypeOK
  <2>2. CASE \E g \in EventHeads, x \in Nat : Broadcast(g, x)
    BY <2>2, BroadcastType
  <2> QED BY <2>1, <2>2
<1>2. cmdQ' \in Seq(Command) /\ resQ' \in Seq(Reply) /\ sent' \in 0 .. MaxCmd
  BY TakeType DEF TypeOK
<1>3. VibType'
  BY TakeType DEF TypeOK, VibType
<1> QED BY <1>1, <1>2, <1>3 DEF QueueType

\* Every step of the audio process keeps the types.
LEMMA AudioNextType ==
  ASSUME TypeOK, AudioNext
  PROVE  TypeOK'
<1> USE PlaybackAssumption
<1>a. 0 \in Nat /\ Tell \in 0 .. NA /\ Tell \in Nat
  BY DEF TypeOK, Tell
<1>1. CASE AutoInit
  <2>1. Broadcast("INIT", 0) /\ OpenAudio /\ UNCHANGED <<cmdQ, vpc, vstate, vpos, sent>>
    BY <1>1 DEF AutoInit, vvars
  <2>2. vibQ' \in [Slot -> Seq(Event)] /\ told' \in 0 .. Past
    BY <2>1, BroadcastType DEF EventHeads
  <2>3. resQ' \in Seq(Reply)
    <3>1. [what |-> "num_frame", val |-> NA] \in Reply
      BY DEF Reply
    <3> QED BY <1>1, <3>1 DEF AutoInit, TypeOK
  <2>4. AudioType'
    BY <2>1 DEF OpenAudio, Leave, TypeOK, AudioType
  <2> QED BY <2>1, <2>2, <2>3, <2>4 DEF TypeOK, AudioType
<1>2. CASE OnInit
  <2>1. QueueType' /\ VibType'
    BY <1>2, <1>a, TakeQueueType DEF OnInit, EventHeads
  <2>2. AudioType'
    BY <1>2 DEF OnInit, OpenAudio, Leave, TypeOK, AudioType
  <2> QED BY <2>1, <2>2, TypeParts DEF TypeOK, AudioType, VibType, QueueType
<1>3. CASE OnStart
  <2>1. QueueType' /\ VibType'
    BY <1>3, TakeQueueType DEF OnStart
  <2>2. AudioType'
    BY <1>3 DEF OnStart, Continue, TypeOK, AudioType
  <2> QED BY <2>1, <2>2 DEF TypeOK, AudioType, VibType, QueueType
<1>4. CASE OnPulse
  <2>1. QueueType' /\ VibType'
    BY <1>4, TakeQueueType DEF OnPulse
  <2>2. AudioType'
    BY <1>4 DEF OnPulse, Continue, Leave, TypeOK, AudioType
  <2> QED BY <2>1, <2>2 DEF TypeOK, AudioType, VibType, QueueType
<1>5. CASE OnResume
  <2>1. NoBroadcast \/ Broadcast("SEEK", Tell)
    BY <1>5 DEF OnResume
  <2>2. QueueType' /\ VibType'
    BY <1>5, <1>a, <2>1, TakeQueueType DEF OnResume, EventHeads
  <2>3. AudioType'
    BY <1>5 DEF OnResume, Continue, Leave, TypeOK, AudioType
  <2> QED BY <2>2, <2>3 DEF TypeOK, AudioType, VibType, QueueType
<1>6. CASE OnSeek
  <2>1. Take("SEEK") /\ Broadcast("SEEK", Head(cmdQ).pos)
    BY <1>6 DEF OnSeek
  <2>2. Head(cmdQ).pos \in Nat
    BY <2>1, TakeType DEF Command
  <2>3. QueueType' /\ VibType'
    BY <2>1, <2>2, TakeQueueType DEF EventHeads
  <2>4. AudioType'
    BY <1>6, <2>2 DEF OnSeek, Continue, Leave, InRange, TypeOK, AudioType
  <2> QED BY <2>3, <2>4 DEF TypeOK, AudioType, VibType, QueueType
<1>7. CASE OnClose
  <2>1. QueueType' /\ VibType'
    BY <1>7, <1>a, TakeQueueType DEF OnClose, EventHeads
  <2>2. AudioType'
    BY <1>7 DEF OnClose, Leave, TypeOK, AudioType
  <2> QED BY <2>1, <2>2 DEF TypeOK, AudioType, VibType, QueueType
<1>8. CASE OnStatusAcq
  <2>1. QueueType' /\ VibType'
    BY <1>8, <1>a, TakeQueueType DEF OnStatusAcq, EventHeads
  <2>2. AudioType'
    BY <1>8 DEF OnStatusAcq, Continue, TypeOK, AudioType
  <2> QED BY <2>1, <2>2 DEF TypeOK, AudioType, VibType, QueueType
<1>9. CASE BroadcastFrame
  <2>1. Broadcast("NEXT_FRAME", 0) /\ apc' = "write"
        /\ UNCHANGED <<cmdQ, resQ, vvars, sent, aexit, astate, apos, device>>
    BY <1>9 DEF BroadcastFrame
  <2>2. vibQ' \in [Slot -> Seq(Event)] /\ told' \in 0 .. Past
    BY <1>a, <2>1, BroadcastType DEF EventHeads
  <2> QED BY <2>1, <2>2 DEF TypeOK, vvars
<1>10. CASE WriteFrame
  <2>1. apos' = apos + 1 /\ apos' \in 0 .. NA /\ apos' \in Nat
    BY <1>10 DEF WriteFrame, TypeOK
  <2>2. [what |-> "pos", val |-> IF Partial /\ apos' = NA THEN NA - 1 ELSE apos'] \in Reply
    BY <2>1 DEF Reply
  <2>3. resQ' \in Seq(Reply)
    BY <1>10, <2>2 DEF WriteFrame, FrameAck, TypeOK
  <2> QED BY <1>10, <2>1, <2>3 DEF WriteFrame, NoBroadcast, vvars, TypeOK
<1>11. CASE WriteFails
  BY <1>11 DEF WriteFails, NoBroadcast, Leave, vvars, TypeOK
<1>12. CASE EndOfAudio
  <2>1. CASE GUI
    <3>1. [what |-> "pos", val |-> Tell] \in Reply
      BY <1>a DEF Reply
    <3>2. FrameAck(Tell)
      BY <1>12, <2>1 DEF EndOfAudio
    <3>3. resQ' = Append(resQ, [what |-> "pos", val |-> Tell])
      BY <2>1, <3>2 DEF FrameAck
    <3>4. resQ' \in Seq(Reply)
      BY <3>1, <3>3 DEF TypeOK
    <3> QED BY <1>12, <2>1, <3>4 DEF EndOfAudio, NoBroadcast, vvars, TypeOK
  <2>2. CASE ~GUI
    <3>1. Broadcast("CLOSE", 0)
      BY <1>12, <2>2 DEF EndOfAudio
    <3>2. vibQ' \in [Slot -> Seq(Event)] /\ told' \in 0 .. Past
      BY <1>a, <3>1, BroadcastType DEF EventHeads
    <3> QED BY <1>12, <2>2, <3>2 DEF EndOfAudio, Leave, vvars, TypeOK
  <2> QED BY <2>1, <2>2
<1>13. CASE AudioExit
  BY <1>13 DEF AudioExit, vvars, TypeOK
<1> QED BY <1>1, <1>2, <1>3, <1>4, <1>5, <1>6, <1>7, <1>8, <1>9, <1>10, <1>11, <1>12, <1>13
        DEF AudioNext

\* Every step of a vibration process keeps the types.
LEMMA VibNextType ==
  ASSUME TypeOK, NEW v \in Vib, VibNext(v)
  PROVE  TypeOK'
<1> USE PlaybackAssumption
<1>1. ASSUME NEW pc \in {"running", "closed", "exhausted", "failed"},
             NEW st \in {"INACTIVE", "ACTIVE"}, NEW p \in 0 .. NV,
             SetVib(v, pc, st, p)
      PROVE  VibType'
  BY <1>1 DEF SetVib, TypeOK, VibType
<1>2. UNCHANGED vvars => VibType'
  BY DEF vvars, TypeOK, VibType
<1>3. ASSUME InitVib(v) PROVE VibType'
  BY <1>1, <1>3 DEF InitVib, VibStop
<1>4. ASSUME PlayVibFrame(v) PROVE VibType'
  <2>1. vpos[v] \in 0 .. NV
    BY DEF TypeOK
  <2>2. CASE UNCHANGED vvars
    BY <1>2, <2>2
  <2>3. CASE vpos[v] < NV /\ (\/ SetVib(v, "running", "ACTIVE", vpos[v] + 1)
                            \/ VibStop(v, "failed", vpos[v] + 1))
    BY <1>1, <2>1, <2>3 DEF VibStop
  <2>4. CASE VibStop(v, "exhausted", vpos[v])
    BY <1>1, <2>1, <2>4 DEF VibStop
  <2> QED BY <1>4, <2>2, <2>3, <2>4 DEF PlayVibFrame
<1>5. CASE VibStep(v)
  <2> DEFINE q == vibQ[MySlot(v)]
             e == Head(q)
  <2>1. MySlot(v) \in Slot /\ q \in Seq(Event) /\ q # <<>>
    BY <1>5, MySlotIsMine DEF VibStep, TypeOK
  <2>2. e \in Event /\ Tail(q) \in Seq(Event)
    BY <2>1
  <2>3. vibQ' \in [Slot -> Seq(Event)]
    BY <1>5, <2>1, <2>2 DEF VibStep, TypeOK
  <2>4. HandleEvent(v, e)
    BY <1>5 DEF VibStep
  <2>5. Clamp(e.pos) \in 0 .. NV /\ vpos[v] \in 0 .. NV
    BY <2>2 DEF Event, Clamp, TypeOK
  <2>6. VibType'
    <3>1. CASE e.head = "INIT"
      BY <1>3, <2>4, <3>1 DEF HandleEvent
    <3>2. CASE e.head = "NEXT_FRAME"
      BY <1>4, <2>4, <3>2 DEF HandleEvent
    <3>3. CASE e.head = "SEEK"
      <4>1. SetVib(v, "running", vstate[v], Clamp(e.pos))
        BY <2>4, <3>3 DEF HandleEvent
      <4>2. vstate[v] \in {"INACTIVE", "ACTIVE"}
        BY DEF TypeOK
      <4> QED BY <1>1, <2>5, <4>1, <4>2
    <3>4. CASE e.head = "CLOSE"
      <4>1. VibStop(v, "closed", vpos[v])
        BY <2>4, <3>4 DEF HandleEvent
      <4> QED BY <1>1, <2>5, <4>1 DEF VibStop
    <3>5. CASE e.head = "STATUS_ACQ"
      BY <1>2, <2>4, <3>5 DEF HandleEvent
    <3> QED BY <2>2, <3>1, <3>2, <3>3, <3>4, <3>5 DEF Event
  <2> QED BY <1>5, <2>3, <2>6 DEF VibStep, avars, TypeOK, VibType
<1>6. CASE OrphanStep(v)
  BY <1>3, <1>4, <1>6 DEF OrphanStep, avars, TypeOK, VibType
<1> QED BY <1>5, <1>6 DEF VibNext

\* The client puts commands only.
LEMMA ClientType ==
  ASSUME TypeOK, Client
  PROVE  TypeOK'
<1>1. PICK c \in IF sent = 0 THEN {Cmd("INIT")} ELSE ScriptCommand : Put(c)
  BY DEF Client
<1>2. c \in Command
  BY <1>1, PlaybackAssumption DEF ScriptCommand, Cmd, Command
<1>3. cmdQ' \in Seq(Command) /\ sent' \in 0 .. MaxCmd
  BY <1>1, <1>2, PlaybackAssumption DEF Put, TypeOK
<1> QED BY <1>3 DEF Client, avars, vvars, TypeOK

\* The initial values have their types.
LEMMA InitType == Init => TypeOK
BY PlaybackAssumption DEF Init, TypeOK, Past

\* The variables keep their types in every behaviour, for any number of
\* processes, attachments, frames and commands.
THEOREM TypeCorrect == Spec => []TypeOK
<1>1. TypeOK /\ [Next]_vars => TypeOK'
  <2> SUFFICES ASSUME TypeOK, [Next]_vars
               PROVE  TypeOK'
    OBVIOUS
  <2>1. CASE Client
    BY <2>1, ClientType
  <2>2. CASE AudioNext
    BY <2>2, AudioNextType
  <2>3. ASSUME NEW v \in Vib, VibNext(v)
        PROVE  TypeOK'
    BY <2>3, VibNextType
  <2>4. CASE UNCHANGED vars
    BY <2>4 DEF vars, avars, vvars, TypeOK
  <2> QED BY <2>1, <2>2, <2>3, <2>4 DEF Next, ProcNext
<1> QED BY InitType, <1>1, PTL DEF Spec
-----------------------------------------------------------------------------
(***************************************************************************)
(* Alignment                                                               *)
(***************************************************************************)

\* A broadcast event extends every chain to what it tells.
LEMMA ChainAppend ==
  ASSUME NEW p \in Nat, NEW q \in Seq(Event), NEW e \in Nat, Chain(p, q, e),
         NEW m \in Event, m.at = After(e, m.head, m.pos)
  PROVE  Chain(p, Append(q, m), m.at)
<1> DEFINE r == Append(q, m)
<1>1. /\ Len(r) = Len(q) + 1 /\ Len(q) \in Nat /\ r # <<>>
      /\ r[Len(q) + 1] = m /\ \A i \in 1 .. Len(q) : r[i] = q[i]
  OBVIOUS
<1>2. ASSUME NEW i \in 1 .. Len(r)
      PROVE  r[i].at = After(Before(p, r, i), r[i].head, r[i].pos)
  <2>1. CASE i \in 1 .. Len(q)
    <3>1. i # 1 => i - 1 \in 1 .. Len(q)
      BY <1>1, <2>1
    <3>2. Before(p, r, i) = Before(p, q, i)
      BY <1>1, <3>1 DEF Before
    <3> QED BY <1>1, <2>1, <3>2 DEF Chain
  <2>2. CASE i = Len(q) + 1
    <3>1. Before(p, r, i) = e
      <4>1. CASE q = <<>>
        BY <2>2, <4>1 DEF Before, Chain
      <4>2. CASE q # <<>>
        BY <1>1, <2>2, <4>2 DEF Before, Chain
      <4> QED BY <4>1, <4>2
    <3> QED BY <1>1, <2>2, <3>1
  <2> QED BY <1>1, <2>1, <2>2
<1> QED BY <1>1, <1>2 DEF Chain

\* Handling the first event of a chain leaves a chain from where it leads.
LEMMA ChainTail ==
  ASSUME NEW p \in Nat, NEW q \in Seq(Event), NEW e \in Nat, Chain(p, q, e),
         q # <<>>
  PROVE  /\ Head(q).at = After(p, Head(q).head, Head(q).pos)
         /\ Chain(Head(q).at, Tail(q), e)
<1> DEFINE t == Tail(q)
<1>1. /\ Len(q) \in Nat /\ Len(q) >= 1 /\ Head(q) = q[1] /\ Len(t) = Len(q) - 1
      /\ \A i \in 1 .. Len(t) : t[i] = q[i + 1]
      /\ t \in Seq(Event)
  OBVIOUS
<1> HIDE DEF t
<1>2. Head(q).at = After(p, Head(q).head, Head(q).pos)
  BY <1>1 DEF Chain, Before
<1>3. ASSUME NEW i \in 1 .. Len(t)
      PROVE  t[i].at = After(Before(Head(q).at, t, i), t[i].head, t[i].pos)
  <2>1. i + 1 \in 1 .. Len(q) /\ t[i] = q[i + 1]
    BY <1>1
  <2>2. Before(Head(q).at, t, i) = Before(p, q, i + 1)
    <3>1. CASE i = 1
      BY <1>1, <3>1 DEF Before
    <3>2. CASE i # 1
      <4>1. i - 1 \in 1 .. Len(t) /\ t[i - 1] = q[i]
        BY <1>1, <3>2
      <4> QED BY <3>2, <4>1 DEF Before
    <3> QED BY <3>1, <3>2
  <2> QED BY <2>1, <2>2 DEF Chain
<1>4. e = IF t = <<>> THEN Head(q).at ELSE t[Len(t)].at
  <2>1. CASE t = <<>>
    <3>1. Len(q) = 1
      <4>1. Len(t) = 0
        BY <2>1
      <4> QED BY <1>1, <4>1
    <3>2. e = q[1].at
      BY <3>1 DEF Chain
    <3> QED BY <1>1, <2>1, <3>2
  <2>2. CASE t # <<>>
    <3>1. Len(t) \in 1 .. Len(t) /\ t[Len(t)] = q[Len(q)]
      BY <1>1, <2>2
    <3> QED BY <2>2, <3>1 DEF Chain
  <2> QED BY <2>1, <2>2
<1> QED BY <1>2, <1>3, <1>4 DEF Chain, t

\* A broadcast keeps the chains.
LEMMA BroadcastChain ==
  ASSUME TypeOK, ChainInv, NEW h \in EventHeads, NEW x \in Nat, Broadcast(h, x),
         UNCHANGED <<vpc, vstate, vpos>>
  PROVE  ChainInv'
<1> SUFFICES ASSUME NEW v \in Vib, Follows(v)'
             PROVE  Chain(vpos[v], Inbox(v)', told')
  BY DEF ChainInv
<1> DEFINE m == [head |-> h, pos |-> x, at |-> told']
<1>1. Follows(v) /\ MySlot(v) \in Slot
  BY MySlotIsMine DEF Follows
<1>2. Inbox(v) \in Seq(Event) /\ vpos[v] \in Nat /\ told \in Nat
  BY <1>1, PlaybackAssumption DEF Inbox, TypeOK, Past
<1>3. told' = After(told, h, x) /\ told' \in Nat /\ Inbox(v)' = Append(Inbox(v), m)
  BY <1>1, BroadcastType, PlaybackAssumption DEF Inbox, Past
<1>4. m \in Event /\ m.at = After(told, m.head, m.pos)
  BY <1>3 DEF Event, EventHeads
<1> HIDE DEF m
<1>5. Chain(vpos[v], Append(Inbox(v), m), m.at)
  BY <1>1, <1>2, <1>4, ChainAppend DEF ChainInv
<1> QED BY <1>3, <1>5 DEF m

\* A broadcast keeps InitFirst, if a frame is broadcast only once the audio is
\* open, and the audio is opened only with an INIT.
LEMMA BroadcastInitFirst ==
  ASSUME TypeOK, InitFirst, NEW h \in EventHeads, NEW x \in Nat, Broadcast(h, x),
         UNCHANGED <<vpc, vstate, vpos>>,
         h = "NEXT_FRAME" => device # "none",
         device' # "none" => device # "none" \/ h = "INIT"
  PROVE  InitFirst'
<1> SUFFICES ASSUME NEW v \in Vib, Follows(v)', vstate[v] = "INACTIVE"
             PROVE  /\ \A i \in 1 .. Len(Inbox(v)') :
                          Inbox(v)'[i].head = "NEXT_FRAME" => InitIn(Inbox(v)', i - 1)
                    /\ device' # "none" => InitIn(Inbox(v)', Len(Inbox(v)'))
  BY DEF InitFirst
<1> DEFINE m == [head |-> h, pos |-> x, at |-> told']
           q == Inbox(v)
           r == Append(q, m)
<1>1. Follows(v) /\ MySlot(v) \in Slot
  BY MySlotIsMine DEF Follows
<1>2. q \in Seq(Event) /\ Inbox(v)' = r
  BY <1>1, BroadcastType DEF Inbox, TypeOK
<1>3. /\ Len(r) = Len(q) + 1 /\ Len(q) \in Nat /\ r[Len(q) + 1] = m /\ m.head = h
      /\ \A i \in 1 .. Len(q) : r[i] = q[i]
  BY <1>2
<1> HIDE DEF m, r
<1>4. ASSUME NEW n \in 0 .. Len(q), InitIn(q, n), NEW k \in n .. Len(r)
      PROVE  InitIn(r, k)
  <2>1. PICK j \in 1 .. n : j <= Len(q) /\ q[j].head = "INIT"
    BY <1>4 DEF InitIn
  <2> QED BY <1>3, <2>1 DEF InitIn
<1>5. /\ \A i \in 1 .. Len(q) : q[i].head = "NEXT_FRAME" => InitIn(q, i - 1)
      /\ device # "none" => InitIn(q, Len(q))
  BY <1>1 DEF InitFirst
<1> HIDE DEF q
<1>6. ASSUME NEW i \in 1 .. Len(r), r[i].head = "NEXT_FRAME"
      PROVE  InitIn(r, i - 1)
  <2>1. CASE i \in 1 .. Len(q)
    BY <1>3, <1>4, <1>5, <1>6, <2>1
  <2>2. CASE i = Len(q) + 1
    BY <1>3, <1>4, <1>5, <1>6, <2>2
  <2> QED BY <1>3, <2>1, <2>2
<1>7. ASSUME device' # "none"
      PROVE  InitIn(r, Len(r))
  <2>1. CASE device # "none"
    BY <1>3, <1>4, <1>5, <2>1
  <2>2. CASE h = "INIT"
    BY <1>3, <2>2 DEF InitIn
  <2> QED BY <1>7, <2>1, <2>2
<1> QED BY <1>2, <1>6, <1>7

\* A step that broadcasts nothing keeps the chains, and InitFirst unless it opens
\* the audio.
LEMMA QuietStep ==
  ASSUME ChainInv, InitFirst, NoBroadcast, UNCHANGED <<vpc, vstate, vpos>>,
         device' # "none" => device # "none"
  PROVE  ChainInv' /\ InitFirst'
BY DEF NoBroadcast, ChainInv, InitFirst, Follows, Inbox

\* The audio is open when a command other than INIT is taken.
LEMMA TakenWhenOpen ==
  ASSUME OpenFirst, NEW h, h # "INIT", Take(h)
  PROVE  device # "none"
BY DEF OpenFirst, Take

\* Opening the audio keeps the invariant: everybody is told INIT.
LEMMA OpenStep ==
  ASSUME IInv, Broadcast("INIT", 0), OpenAudio, UNCHANGED <<vpc, vstate, vpos>>
  PROVE  ChainInv' /\ InitFirst' /\ OpenFirst' /\ ToldIsPos'
<1>1. 0 \in Nat /\ "INIT" \in EventHeads
  BY DEF EventHeads
<1>2. ChainInv' /\ InitFirst'
  BY <1>1, BroadcastChain, BroadcastInitFirst DEF IInv
<1>3. told' = 0
  BY DEF Broadcast, After
<1> QED BY <1>2, <1>3 DEF OpenAudio, Leave, OpenFirst, ToldIsPos, Looping

\* Every step of the audio process keeps the invariant.
LEMMA AudioNextInv ==
  ASSUME IInv, AudioNext
  PROVE  ChainInv' /\ InitFirst' /\ OpenFirst' /\ ToldIsPos'
<1> USE PlaybackAssumption
<1>a. /\ apos \in Nat /\ apos <= NA /\ told \in 0 .. Past /\ 0 \in Nat
      /\ Tell \in Nat /\ (apos < NA => Tell = apos)
  BY DEF IInv, TypeOK, Tell
<1>1. CASE AutoInit
  BY <1>1, OpenStep DEF AutoInit, vvars
<1>2. CASE OnInit
  BY <1>2, OpenStep DEF OnInit, Take, vvars
<1>3. CASE OnStart
  <2>1. device # "none"
    BY <1>3, TakenWhenOpen DEF OnStart, IInv
  <2>2. ChainInv' /\ InitFirst'
    BY <1>3, QuietStep DEF OnStart, Take, vvars, IInv
  <2>3. OpenFirst'
    BY <1>3, <2>1 DEF OnStart, Continue, OpenFirst
  <2>4. ToldIsPos'
    BY <1>3 DEF OnStart, Take, Continue, NoBroadcast, IInv, ToldIsPos, Looping
  <2> QED BY <2>2, <2>3, <2>4
<1>4. CASE OnPulse
  <2>1. device # "none"
    BY <1>4, TakenWhenOpen DEF OnPulse, IInv
  <2>2. ChainInv' /\ InitFirst'
    BY <1>4, <2>1, QuietStep DEF OnPulse, Take, vvars, IInv
  <2>3. OpenFirst'
    BY <1>4, <2>1 DEF OnPulse, Continue, OpenFirst
  <2>4. ToldIsPos'
    BY <1>4, <2>1 DEF OnPulse, Take, Continue, NoBroadcast, IInv, ToldIsPos, Looping
  <2> QED BY <2>2, <2>3, <2>4
<1>5. CASE OnResume
  <2>1. device # "none"
    BY <1>5, TakenWhenOpen DEF OnResume, IInv
  <2>2. /\ Broadcast("SEEK", Tell) /\ UNCHANGED <<vpc, vstate, vpos, apos>>
        /\ device' = "running" /\ apc' = "frame"
    BY <1>5, <2>1 DEF OnResume, Take, Continue, vvars
  <2>3. ChainInv' /\ InitFirst'
    BY <1>a, <2>1, <2>2, BroadcastChain, BroadcastInitFirst DEF IInv, EventHeads
  <2>4. OpenFirst'
    BY <2>2 DEF OpenFirst
  <2>5. told' = Clamp(Tell)
    BY <2>2 DEF Broadcast, After
  <2>6. ToldIsPos'
    BY <1>a, <2>2, <2>5 DEF Clamp, ToldIsPos, Looping
  <2> QED BY <2>3, <2>4, <2>6
<1>6. CASE OnSeek
  <2>0. PICK p : p = Head(cmdQ).pos
    OBVIOUS
  <2>1. device # "none"
    BY <1>6, TakenWhenOpen DEF OnSeek, IInv
  <2>2. /\ Take("SEEK") /\ Broadcast("SEEK", p)
        /\ UNCHANGED <<vpc, vstate, vpos, astate, device>>
    BY <1>6, <2>0 DEF OnSeek, Take, vvars
  <2>3. p \in Nat
    BY <2>0, <2>2, TakeType DEF IInv, Command
  <2>4. ChainInv' /\ InitFirst'
    <3>1. "SEEK" \in EventHeads /\ Broadcast("SEEK", p) /\ UNCHANGED <<vpc, vstate, vpos>>
      BY <2>2 DEF EventHeads
    <3>2. ChainInv'
      BY <2>3, <3>1, BroadcastChain DEF IInv
    <3>3. InitFirst'
      BY <2>1, <2>3, <3>1, BroadcastInitFirst DEF IInv
    <3> QED BY <3>2, <3>3
  <2>5. \/ apos' = p /\ Continue(astate)
        \/ Leave("raised") /\ UNCHANGED apos
    BY <1>6, <2>0 DEF OnSeek
  <2>6. told' = Clamp(p)
    BY <2>2 DEF Broadcast, After
  <2>7. OpenFirst'
    BY <2>1, <2>2, <2>5 DEF Continue, Leave, OpenFirst
  <2>8. ToldIsPos'
    BY <2>3, <2>5, <2>6 DEF Continue, Leave, Clamp, ToldIsPos, Looping
  <2> QED BY <2>4, <2>7, <2>8
<1>7. CASE OnClose
  <2>1. device # "none"
    BY <1>7, TakenWhenOpen DEF OnClose, IInv
  <2>2. /\ Broadcast("CLOSE", 0) /\ UNCHANGED <<vpc, vstate, vpos>> /\ apc' = "leaving"
    BY <1>7 DEF OnClose, Take, Leave, vvars
  <2>3. ChainInv' /\ InitFirst'
    BY <1>a, <2>1, <2>2, BroadcastChain, BroadcastInitFirst DEF IInv, EventHeads
  <2> QED BY <2>2, <2>3 DEF OpenFirst, ToldIsPos, Looping
<1>8. CASE OnStatusAcq
  <2>1. device # "none"
    BY <1>8, TakenWhenOpen DEF OnStatusAcq, IInv
  <2>2. /\ Take("STATUS_ACQ") /\ Broadcast("STATUS_ACQ", 0) /\ Continue(astate)
        /\ UNCHANGED <<vpc, vstate, vpos, astate, apos, device>>
    BY <1>8 DEF OnStatusAcq, Take, vvars
  <2>3. ChainInv' /\ InitFirst'
    BY <1>a, <2>1, <2>2, BroadcastChain, BroadcastInitFirst DEF IInv, EventHeads
  <2>4. told' = told
    BY <2>2 DEF Broadcast, After
  <2>5. OpenFirst'
    BY <2>1, <2>2 DEF Continue, OpenFirst
  <2>6. ToldIsPos'
    BY <2>2, <2>4 DEF Take, Continue, IInv, ToldIsPos, Looping
  <2> QED BY <2>3, <2>5, <2>6
<1>9. CASE BroadcastFrame
  <2>1. device # "none"
    BY <1>9 DEF BroadcastFrame, IInv, OpenFirst
  <2>2. /\ Broadcast("NEXT_FRAME", 0) /\ apc' = "write" /\ apc \in {"poll", "frame"}
        /\ UNCHANGED <<vpc, vstate, vpos, astate, apos, device>>
    BY <1>9 DEF BroadcastFrame, vvars
  <2>3. ChainInv' /\ InitFirst'
    BY <1>a, <2>1, <2>2, BroadcastChain, BroadcastInitFirst DEF IInv, EventHeads
  <2>4. apos < NA => told' = apos + 1
    BY <1>a, <2>2 DEF Broadcast, After, Past, IInv, ToldIsPos, Looping
  <2> QED BY <2>1, <2>2, <2>3, <2>4 DEF OpenFirst, ToldIsPos, Looping
<1>10. CASE WriteFrame
  <2>1. ChainInv' /\ InitFirst'
    BY <1>10, QuietStep DEF WriteFrame, vvars, IInv
  <2>2. OpenFirst'
    BY <1>10 DEF WriteFrame, OpenFirst
  <2>3. ToldIsPos'
    BY <1>10, <1>a DEF WriteFrame, NoBroadcast, IInv, ToldIsPos, Looping
  <2> QED BY <2>1, <2>2, <2>3
<1>11. CASE WriteFails
  <2>1. ChainInv' /\ InitFirst'
    BY <1>11, QuietStep DEF WriteFails, vvars, IInv
  <2> QED BY <1>11, <2>1 DEF WriteFails, Leave, OpenFirst, ToldIsPos, Looping
<1>12. CASE EndOfAudio
  <2>1. CASE GUI
    <3>1. ChainInv' /\ InitFirst'
      BY <1>12, <2>1, QuietStep DEF EndOfAudio, vvars, IInv
    <3> QED BY <1>12, <2>1, <3>1, <1>a DEF EndOfAudio, OpenFirst, ToldIsPos
  <2>2. CASE ~GUI
    <3>1. /\ Broadcast("CLOSE", 0) /\ apc' = "leaving" /\ device # "none"
          /\ UNCHANGED <<vpc, vstate, vpos>>
      BY <1>12, <2>2 DEF EndOfAudio, Leave, vvars
    <3>2. ChainInv' /\ InitFirst'
      BY <1>a, <3>1, BroadcastChain, BroadcastInitFirst DEF IInv, EventHeads
    <3> QED BY <3>1, <3>2 DEF OpenFirst, ToldIsPos, Looping
  <2> QED BY <2>1, <2>2
<1>13. CASE AudioExit
  BY <1>13, QuietStep DEF AudioExit, NoBroadcast, vvars, IInv, OpenFirst, ToldIsPos, Looping
<1> QED BY <1>1, <1>2, <1>3, <1>4, <1>5, <1>6, <1>7, <1>8, <1>9, <1>10, <1>11, <1>12, <1>13
        DEF AudioNext

\* A vibration process takes events from its own queue only.
LEMMA OtherInbox ==
  ASSUME TypeOK, NEW v \in Vib, VibStep(v), NEW u \in Vib, IsAttached(u)
  PROVE  Inbox(u)' = IF u = v THEN Tail(Inbox(v)) ELSE Inbox(u)
<1>1. /\ MySlot(v) \in Slot /\ Attached[MySlot(v)] = v
      /\ MySlot(u) \in Slot /\ Attached[MySlot(u)] = u
  BY MySlotIsMine DEF VibStep
<1>2. vibQ' = [vibQ EXCEPT ![MySlot(v)] = Tail(@)]
  BY DEF VibStep
<1> QED BY <1>1, <1>2 DEF Inbox, TypeOK

\* What handling an event does to the state of the process that handles it.
LEMMA HandleEventEffect ==
  ASSUME TypeOK, NEW v \in Vib, vpc[v] = "running", NEW e \in Event, HandleEvent(v, e),
         e.head = "NEXT_FRAME" => vstate[v] = "ACTIVE"
  PROVE  /\ \A u \in Vib \ {v} : vpc'[u] = vpc[u] /\ vstate'[u] = vstate[u] /\ vpos'[u] = vpos[u]
         /\ vpc'[v] = "running" =>
              /\ e.head # "CLOSE"
              /\ vpos'[v] = After(vpos[v], e.head, e.pos)
              /\ vstate'[v] = IF e.head = "INIT" THEN "ACTIVE" ELSE vstate[v]
<1> USE PlaybackAssumption
<1>1. /\ e.head \in EventHeads /\ vpos[v] \in Nat /\ vpos[v] <= NV
      /\ vpc \in [Vib -> {"running", "closed", "exhausted", "failed"}]
      /\ vstate \in [Vib -> {"INACTIVE", "ACTIVE"}] /\ vpos \in [Vib -> 0 .. NV]
  BY DEF TypeOK, Event, EventHeads
<1>2. ASSUME NEW pc, NEW st, NEW p, SetVib(v, pc, st, p)
      PROVE  /\ \A u \in Vib \ {v} : vpc'[u] = vpc[u] /\ vstate'[u] = vstate[u] /\ vpos'[u] = vpos[u]
             /\ vpc'[v] = pc /\ vstate'[v] = st /\ vpos'[v] = p
  BY <1>1, <1>2 DEF SetVib
<1>3. CASE e.head = "INIT"
  BY <1>2, <1>3 DEF HandleEvent, InitVib, VibStop, After
<1>4. CASE e.head = "NEXT_FRAME"
  <2>1. PlayVibFrame(v) /\ vstate[v] = "ACTIVE"
    BY <1>4 DEF HandleEvent
  <2>2. CASE vpos[v] < NV /\ SetVib(v, "running", "ACTIVE", vpos[v] + 1)
    BY <1>1, <1>2, <1>4, <2>1, <2>2 DEF After, Past
  <2>3. CASE VibStop(v, "failed", vpos[v] + 1) \/ VibStop(v, "exhausted", vpos[v])
    BY <1>2, <2>3 DEF VibStop
  <2> QED BY <2>1, <2>2, <2>3 DEF PlayVibFrame
<1>5. CASE e.head = "SEEK"
  BY <1>2, <1>5 DEF HandleEvent, After
<1>6. CASE e.head = "CLOSE"
  BY <1>2, <1>6 DEF HandleEvent, VibStop
<1>7. CASE e.head = "STATUS_ACQ"
  BY <1>7 DEF HandleEvent, vvars, After
<1> QED BY <1>1, <1>3, <1>4, <1>5, <1>6, <1>7 DEF EventHeads

\* Every step of a vibration process keeps the invariant.
LEMMA VibStepInv ==
  ASSUME IInv, NEW v \in Vib, VibStep(v)
  PROVE  ChainInv' /\ InitFirst'
<1> USE PlaybackAssumption
<1> DEFINE q == Inbox(v)
           e == Head(q)
<1>1. /\ Follows(v) /\ MySlot(v) \in Slot /\ q \in Seq(Event) /\ q # <<>>
      /\ HandleEvent(v, e) /\ UNCHANGED <<told, device>>
  BY MySlotIsMine DEF VibStep, Follows, Inbox, IInv, TypeOK, avars
<1>2. e \in Event /\ e = q[1] /\ Len(q) \in Nat /\ Len(q) >= 1
  BY <1>1
<1>3. e.head = "NEXT_FRAME" => vstate[v] = "ACTIVE"
  <2> SUFFICES ASSUME e.head = "NEXT_FRAME", vstate[v] = "INACTIVE"
               PROVE  FALSE
    BY DEF IInv, TypeOK
  <2>1. InitIn(q, 0)
    <3>1. 1 \in 1 .. Len(q) /\ q[1].head = "NEXT_FRAME"
      BY <1>2
    <3> QED BY <1>1, <3>1 DEF IInv, InitFirst
  <2> QED BY <2>1 DEF InitIn
<1>4. /\ \A u \in Vib \ {v} : vpc'[u] = vpc[u] /\ vstate'[u] = vstate[u] /\ vpos'[u] = vpos[u]
      /\ vpc'[v] = "running" =>
           /\ vpos'[v] = After(vpos[v], e.head, e.pos)
           /\ vstate'[v] = IF e.head = "INIT" THEN "ACTIVE" ELSE vstate[v]
  BY <1>1, <1>2, <1>3, HandleEventEffect DEF Follows, IInv
<1>5. ASSUME NEW u \in Vib, IsAttached(u)
      PROVE  Inbox(u)' = IF u = v THEN Tail(q) ELSE Inbox(u)
  BY <1>5, OtherInbox DEF IInv
<1>6. ChainInv'
  <2> SUFFICES ASSUME NEW u \in Vib, Follows(u)'
               PROVE  Chain(vpos'[u], Inbox(u)', told')
    BY DEF ChainInv
  <2>1. CASE u = v
    <3>1. vpos[v] \in Nat /\ told \in Nat
      BY DEF IInv, TypeOK, Past
    <3>2. Chain(vpos[v], q, told)
      BY <1>1 DEF IInv, ChainInv
    <3>3. e.at = After(vpos[v], e.head, e.pos) /\ Chain(e.at, Tail(q), told)
      BY <1>1, <3>1, <3>2, ChainTail
    <3>4. vpos'[u] = e.at /\ Inbox(u)' = Tail(q) /\ told' = told
      BY <1>1, <1>4, <1>5, <2>1, <3>3 DEF Follows
    <3> QED BY <3>3, <3>4
  <2>2. CASE u # v
    <3>1. Follows(u) /\ vpos'[u] = vpos[u] /\ Inbox(u)' = Inbox(u) /\ told' = told
      BY <1>1, <1>4, <1>5, <2>2 DEF Follows
    <3> QED BY <3>1 DEF IInv, ChainInv
  <2> QED BY <2>1, <2>2
<1>7. InitFirst'
  <2> SUFFICES ASSUME NEW u \in Vib, Follows(u)', vstate'[u] = "INACTIVE"
               PROVE  /\ \A i \in 1 .. Len(Inbox(u)') :
                            Inbox(u)'[i].head = "NEXT_FRAME" => InitIn(Inbox(u)', i - 1)
                      /\ device' # "none" => InitIn(Inbox(u)', Len(Inbox(u)'))
    BY DEF InitFirst
  <2>1. CASE u = v
    <3> DEFINE t == Tail(q)
    <3>1. Inbox(u)' = t
      BY <1>5, <2>1 DEF Follows
    <3>2. vstate[v] = "INACTIVE" /\ e.head # "INIT"
      BY <1>4, <2>1 DEF Follows
    <3>3. /\ \A i \in 1 .. Len(q) : q[i].head = "NEXT_FRAME" => InitIn(q, i - 1)
          /\ device # "none" => InitIn(q, Len(q))
      BY <1>1, <3>2 DEF IInv, InitFirst
    <3>4. Len(t) = Len(q) - 1 /\ \A i \in 1 .. Len(t) : t[i] = q[i + 1]
      BY <1>1
    <3> HIDE DEF t, q, e
    <3>5. ASSUME NEW n \in 1 .. Len(q), InitIn(q, n)
          PROVE  InitIn(t, n - 1)
      <4>1. PICK j \in 1 .. n : j <= Len(q) /\ q[j].head = "INIT"
        BY <3>5 DEF InitIn
      <4>2. j # 1
        BY <1>2, <3>2, <4>1
      <4>3. j - 1 \in 1 .. n - 1 /\ j - 1 <= Len(t) /\ t[j - 1].head = "INIT"
        BY <1>2, <3>4, <4>1, <4>2
      <4> QED BY <4>3 DEF InitIn
    <3>6. ASSUME NEW i \in 1 .. Len(t), t[i].head = "NEXT_FRAME"
          PROVE  InitIn(t, i - 1)
      <4>1. i + 1 \in 1 .. Len(q) /\ i \in 1 .. Len(q) /\ q[i + 1].head = "NEXT_FRAME"
        BY <1>2, <3>4, <3>6
      <4>2. InitIn(q, i)
        BY <3>3, <4>1
      <4> QED BY <3>5, <4>1, <4>2
    <3>7. device' # "none" => InitIn(t, Len(t))
      BY <1>1, <1>2, <3>3, <3>4, <3>5
    <3> QED BY <3>1, <3>6, <3>7
  <2>2. CASE u # v
    <3>1. Follows(u) /\ vstate[u] = "INACTIVE" /\ Inbox(u)' = Inbox(u) /\ device' = device
      BY <1>1, <1>4, <1>5, <2>2 DEF Follows
    <3> QED BY <3>1 DEF IInv, InitFirst
  <2> QED BY <2>1, <2>2
<1> QED BY <1>6, <1>7

\* An orphan follows nobody.
LEMMA OrphanStepInv ==
  ASSUME IInv, NEW v \in Vib, OrphanStep(v)
  PROVE  ChainInv' /\ InitFirst'
<1>1. ~IsAttached(v) /\ UNCHANGED <<vibQ, told, device>>
  BY DEF OrphanStep, avars
<1>2. \A u \in Vib \ {v} : vpc'[u] = vpc[u] /\ vstate'[u] = vstate[u] /\ vpos'[u] = vpos[u]
  BY DEF OrphanStep, InitVib, PlayVibFrame, VibStop, SetVib, vvars, IInv, TypeOK
<1>3. \A u \in Vib : Follows(u)' => u # v /\ Follows(u)
  BY <1>1, <1>2 DEF Follows
<1>4. \A u \in Vib : Inbox(u)' = Inbox(u)
  BY <1>1 DEF Inbox
<1> QED BY <1>1, <1>2, <1>3, <1>4 DEF IInv, ChainInv, InitFirst

\* The client keeps the invariant: its first command is INIT.
LEMMA ClientInv ==
  ASSUME IInv, Client
  PROVE  ChainInv' /\ InitFirst' /\ OpenFirst' /\ ToldIsPos'
<1>1. UNCHANGED <<vibQ, told, apc, astate, apos, device, vpc, vstate, vpos>>
  BY DEF Client, avars, vvars
<1>2. ChainInv' /\ InitFirst'
  BY <1>1, QuietStep DEF NoBroadcast, IInv
<1>3. ToldIsPos'
  BY <1>1 DEF IInv, ToldIsPos, Looping
<1>4. OpenFirst'
  <2>1. PICK c \in IF sent = 0 THEN {Cmd("INIT")} ELSE ScriptCommand : Put(c)
    BY DEF Client
  <2>2. cmdQ' = Append(cmdQ, c) /\ cmdQ' # <<>> /\ c \in Command
        /\ Head(cmdQ') = IF cmdQ = <<>> THEN c ELSE Head(cmdQ)
    <3>1. c \in Command
      BY <2>1, PlaybackAssumption DEF ScriptCommand, Cmd, Command
    <3>2. cmdQ \in Seq(Command) /\ cmdQ' = Append(cmdQ, c)
      BY <2>1 DEF Put, IInv, TypeOK
    <3>3. Append(cmdQ, c) # <<>> /\ Head(Append(cmdQ, c)) = IF cmdQ = <<>> THEN c ELSE Head(cmdQ)
      <4>1. ASSUME NEW q \in Seq(Command)
            PROVE  Append(q, c) # <<>> /\ Head(Append(q, c)) = IF q = <<>> THEN c ELSE Head(q)
        <5>1. Len(Append(q, c)) = Len(q) + 1 /\ Len(q) \in Nat
          BY <3>1
        <5>2. Append(q, c) # <<>>
          BY <3>1, <5>1
        <5>3. Head(Append(q, c)) = Append(q, c)[1]
          BY <3>1, <5>1
        <5>4. CASE q = <<>>
          BY <3>1, <5>2, <5>3, <5>4
        <5>5. CASE q # <<>>
          <6>1. Len(q) >= 1 /\ Append(q, c)[1] = q[1] /\ Head(q) = q[1]
            BY <3>1, <5>5
          <6> QED BY <5>2, <5>3, <5>5, <6>1
        <5> QED BY <5>4, <5>5
      <4> QED BY <3>2, <4>1
    <3> QED BY <3>1, <3>2, <3>3
  <2>3. sent = 0 => c.head = "INIT"
    BY <2>1 DEF Cmd
  <2> QED BY <1>1, <2>2, <2>3 DEF IInv, OpenFirst
<1> QED BY <1>2, <1>3, <1>4

\* The invariant holds initially.
LEMMA InitIInv == Init => IInv
<1> SUFFICES ASSUME Init PROVE IInv
  OBVIOUS
<1>1. \A v \in Vib : IsAttached(v) => Inbox(v) = <<>>
  BY MySlotIsMine DEF Init, Inbox
<1>2. \A v \in Vib : vpos[v] = 0
  BY DEF Init
<1>3. ChainInv /\ InitFirst
  BY <1>1, <1>2 DEF Init, ChainInv, InitFirst, Chain, Follows
<1> QED BY <1>3, InitType, PlaybackAssumption DEF Init, IInv, OpenFirst, ToldIsPos, Looping

\* The invariant holds in every reachable state.
LEMMA IInvInvariant == Spec => []IInv
<1>1. IInv /\ [Next]_vars => IInv'
  <2> SUFFICES ASSUME IInv, [Next]_vars
               PROVE  ChainInv' /\ InitFirst' /\ OpenFirst' /\ ToldIsPos' /\ TypeOK'
    BY DEF IInv
  <2>0. TypeOK
    BY DEF IInv
  <2>1. CASE Client
    BY <2>0, <2>1, ClientInv, ClientType
  <2>2. CASE AudioNext
    BY <2>0, <2>2, AudioNextInv, AudioNextType
  <2>3. ASSUME NEW v \in Vib, VibNext(v)
        PROVE  ChainInv' /\ InitFirst' /\ OpenFirst' /\ ToldIsPos' /\ TypeOK'
    <3>1. ChainInv' /\ InitFirst'
      BY <2>3, VibStepInv, OrphanStepInv DEF VibNext
    <3>2. UNCHANGED <<cmdQ, apc, astate, apos, device, told, sent>>
      BY <2>3 DEF VibNext, VibStep, OrphanStep, avars
    <3> QED BY <2>0, <2>3, <3>1, <3>2, VibNextType DEF IInv, OpenFirst, ToldIsPos, Looping
  <2>4. CASE UNCHANGED vars
    BY <2>4 DEF vars, avars, vvars, TypeOK, IInv, ChainInv, InitFirst, OpenFirst,
                ToldIsPos, Follows, Inbox, Looping
  <2> QED BY <2>1, <2>2, <2>3, <2>4 DEF Next, ProcNext
<1> QED BY InitIInv, <1>1, PTL DEF Spec

\* One that has read all it was told is at the position last told.
LEMMA ToldIsWhereTheyAre == IInv => Aligned
<1> SUFFICES ASSUME IInv, NEW v \in Vib, Follows(v), Inbox(v) = <<>>,
                    apc \in {"poll", "frame"}, apos < NA
             PROVE  vpos[v] = apos
  BY DEF Aligned
<1>1. told = vpos[v]
  BY DEF IInv, ChainInv, Chain
<1>2. told = apos
  BY DEF IInv, TypeOK, ToldIsPos, Looping
<1> QED BY <1>1, <1>2

\* A vibration process that has caught up with its queue is at the frame the
\* audio is at, whatever was played, seeked, paused and resumed: for any number
\* of processes, attachments, frames and commands.
THEOREM Alignment == Spec => []Aligned
BY IInvInvariant, ToldIsWhereTheyAre, PTL
-----------------------------------------------------------------------------
(***************************************************************************)
(* The lag                                                                 *)
(***************************************************************************)
\* Where a queue leads in n events, and the frames among them.
Reached(p, q, n) == IF n = 0 THEN p ELSE q[n].at

Frames(q, n) == {i \in 1 .. n : q[i].head = "NEXT_FRAME"}

\* Either the frames have been counted one by one, or the stream was left.
Counted(p, q, n) ==
  LET c == Cardinality(Frames(q, n)) IN
  /\ IsFiniteSet(Frames(q, n)) /\ c \in Nat
  /\ Reached(p, q, n) = IF p + c < Past THEN p + c ELSE Past

\* What holds of no events, and of one more each time, holds of all of them.
LEMMA EventByEvent ==
  ASSUME NEW n \in Nat, NEW S, 0 \in S, \A i \in 1 .. n : i - 1 \in S => i \in S
  PROVE  \A i \in 0 .. n : i \in S
<1> SUFFICES ASSUME NEW i \in 0 .. n, i \notin S
             PROVE  FALSE
  OBVIOUS
<1> DEFINE R == {y \in Nat \X Nat : y[1] < y[2]}
           T == (0 .. n) \ S
<1>1. IsWellFoundedOn(R, Nat)
  BY NatLessThanWellFounded, Zenon DEF OpToRel
<1>2. T \subseteq Nat /\ T # {}
  OBVIOUS
<1>3. PICK x \in T : \A y \in T : <<y, x>> \notin R
  <2> HIDE DEF R, T
  <2> QED BY <1>1, <1>2, WFMin
<1>4. x \in 1 .. n /\ x - 1 \in 0 .. n /\ x - 1 \in Nat /\ x \in Nat /\ x - 1 < x
  OBVIOUS
<1>5. x - 1 \in T /\ <<x - 1, x>> \in R
  BY <1>4
<1> QED BY <1>3, <1>5

\* A chain without INIT or SEEK that ends inside the stream leads as many
\* frames on as it has NEXT_FRAMEs.
LEMMA FramesCounted ==
  ASSUME NEW p \in 0 .. NV, NEW q \in Seq(Event), NEW e \in Nat, Chain(p, q, e), e < Past,
         \A i \in 1 .. Len(q) : q[i].head \notin {"INIT", "SEEK"}
  PROVE  p + Cardinality(Frames(q, Len(q))) = e
<1> USE PlaybackAssumption
<1>0. Len(q) \in Nat /\ p \in Nat /\ Past \in Nat /\ p < Past
  BY DEF Past
<1>1. Counted(p, q, 0)
  <2>1. Frames(q, 0) = {}
    BY DEF Frames
  <2>2. IsFiniteSet({}) /\ Cardinality({}) = 0
    BY FS_EmptySet
  <2>3. 0 \in Nat /\ Reached(p, q, 0) = IF p + 0 < Past THEN p + 0 ELSE Past
    BY <1>0 DEF Reached
  <2> QED BY <2>1, <2>2, <2>3, Zenon DEF Counted
<1>2. ASSUME NEW n \in 1 .. Len(q), Counted(p, q, n - 1)
      PROVE  Counted(p, q, n)
  <2> DEFINE c == Cardinality(Frames(q, n - 1))
             b == Reached(p, q, n - 1)
  <2>1. IsFiniteSet(Frames(q, n - 1)) /\ c \in Nat /\ b = IF p + c < Past THEN p + c ELSE Past
    BY <1>2 DEF Counted
  <2>2. q[n].at = After(b, q[n].head, q[n].pos) /\ Reached(p, q, n) = q[n].at
    BY <1>0, <1>2 DEF Chain, Before, Reached
  <2>3. q[n].head \in EventHeads
    <3>1. q[n] \in Event
      OBVIOUS
    <3> QED BY <3>1 DEF Event, EventHeads
  <2>4. n \in 1 .. n /\ n \notin Frames(q, n - 1)
    BY <1>0 DEF Frames
  <2> HIDE DEF c, b
  <2>5. CASE q[n].head = "NEXT_FRAME"
    <3>1. Frames(q, n) = Frames(q, n - 1) \cup {n}
      BY <1>0, <2>5 DEF Frames
    <3>2. IsFiniteSet(Frames(q, n)) /\ Cardinality(Frames(q, n)) = c + 1
      <4> HIDE PlaybackAssumption
      <4> DEFINE F == Frames(q, n - 1)
      <4>1. IsFiniteSet(F) /\ n \notin F
        BY <2>1, <2>4
      <4> HIDE DEF F
      <4>2. IsFiniteSet(F \cup {n}) /\ Cardinality(F \cup {n}) = Cardinality(F) + 1
        BY <4>1, FS_AddElement
      <4> QED BY <3>1, <4>2, Zenon DEF F, c
    <3>3. q[n].at = IF b < Past THEN b + 1 ELSE Past
      BY <2>2, <2>5 DEF After
    <3>4. c + 1 \in Nat /\ q[n].at = IF p + (c + 1) < Past THEN p + (c + 1) ELSE Past
      BY <1>0, <2>1, <3>3
    <3> QED BY <2>2, <3>2, <3>4, Zenon DEF Counted
  <2>6. CASE q[n].head # "NEXT_FRAME"
    <3>1. Frames(q, n) = Frames(q, n - 1)
      BY <1>0, <2>6 DEF Frames
    <3>2. q[n].at = b
      BY <2>2, <2>3, <2>6 DEF After, EventHeads
    <3> QED BY <2>1, <2>2, <3>1, <3>2 DEF Counted, c
  <2> QED BY <2>5, <2>6
<1>3. Counted(p, q, Len(q))
  <2> DEFINE S == {n \in 0 .. Len(q) : Counted(p, q, n)}
  <2>1. 0 \in S /\ \A n \in 1 .. Len(q) : n - 1 \in S => n \in S
    BY <1>0, <1>1, <1>2
  <2>2. \A n \in 0 .. Len(q) : n \in S
    <3> HIDE DEF S
    <3> QED BY <1>0, <2>1, EventByEvent
  <2> QED BY <1>0, <2>2
<1>4. Reached(p, q, Len(q)) = e
  <2>1. CASE q = <<>>
    BY <2>1 DEF Chain, Reached
  <2>2. CASE q # <<>>
    <3>1. Len(q) # 0
      BY <2>2
    <3> QED BY <2>2, <3>1 DEF Chain, Reached
  <2> QED BY <2>1, <2>2
<1> QED BY <1>0, <1>3, <1>4 DEF Counted

\* The chain of a queue without jumps is as long as its frames.
LEMMA LagCounted == IInv => LagIsQueued
<1> SUFFICES ASSUME IInv, NEW v \in Vib, Follows(v), Looping, apos < NA,
                    \A i \in DOMAIN Inbox(v) : Inbox(v)[i].head \notin {"INIT", "SEEK"}
             PROVE  vpos[v] + Cardinality({i \in DOMAIN Inbox(v) : Inbox(v)[i].head = "NEXT_FRAME"})
                      = apos + (IF apc = "write" THEN 1 ELSE 0)
  BY DEF LagIsQueued
<1>1. /\ Inbox(v) \in Seq(Event) /\ vpos[v] \in 0 .. NV /\ told \in Nat
      /\ DOMAIN Inbox(v) = 1 .. Len(Inbox(v))
  BY MySlotIsMine, PlaybackAssumption DEF IInv, TypeOK, Follows, Inbox, Past
<1>2. Chain(vpos[v], Inbox(v), told)
  BY DEF IInv, ChainInv
<1>3. told = apos + (IF apc = "write" THEN 1 ELSE 0) /\ told < Past
  BY PlaybackAssumption DEF IInv, TypeOK, ToldIsPos, Past
<1>4. vpos[v] + Cardinality(Frames(Inbox(v), Len(Inbox(v)))) = told
  BY <1>1, <1>2, <1>3, FramesCounted
<1> QED BY <1>1, <1>3, <1>4 DEF Frames

\* While the audio plays through, a vibration stream is behind by exactly the
\* frames in its queue, for any number of processes, frames and commands.
THEOREM LagIsTheQueue == Spec => []LagIsQueued
BY IInvInvariant, LagCounted, PTL
-----------------------------------------------------------------------------
(***************************************************************************)
(* Closing                                                                 *)
(***************************************************************************)
Over == apc \in {"leaving", "dead"}

\* A CLOSE is broadcast only by a run that is over, and nothing follows it.
ClosedOver ==
  \A s \in Slot : \A i \in 1 .. Len(vibQ[s]) :
    vibQ[s][i].head = "CLOSE" => Over /\ i = Len(vibQ[s])

CloseInv == /\ TypeOK
            /\ aexit # "none" <=> Over
            /\ ClosedOver
            /\ CloseReachesAll

\* The steps of the audio process, as far as closing goes.
GoesOn    == UNCHANGED aexit /\ ~Over'
BreaksOff == Leave("raised") \/ Leave("broke")
Sends(H)  == \E h \in H, x \in Nat : Broadcast(h, x)
ClosingLeave == Leave("closed") \/ Leave("ended") \/ Leave("raised")

\* A run that is over only exits; one that goes on or breaks off sends no CLOSE.
LEMMA AudioNextShape ==
  ASSUME TypeOK, AudioNext
  PROVE  /\ UNCHANGED <<vpc, vstate, vpos>>
         /\ \/ ~Over /\ (GoesOn \/ BreaksOff) /\ (NoBroadcast \/ Sends(EventHeads \ {"CLOSE"}))
            \/ ~Over /\ ClosingLeave /\ Broadcast("CLOSE", 0)
            \/ AudioExit
<1> USE PlaybackAssumption
<1>a. 0 \in Nat /\ Tell \in Nat
  BY DEF TypeOK, Tell
<1>1. CASE AutoInit
  <2>1. Sends(EventHeads \ {"CLOSE"})
    BY <1>1, <1>a DEF AutoInit, Sends, EventHeads
  <2> QED BY <1>1, <2>1 DEF AutoInit, OpenAudio, GoesOn, BreaksOff, Leave, Over, vvars
<1>2. CASE OnInit
  <2>1. Sends(EventHeads \ {"CLOSE"})
    BY <1>2, <1>a DEF OnInit, Sends, EventHeads
  <2> QED BY <1>2, <2>1 DEF OnInit, Take, OpenAudio, GoesOn, BreaksOff, Leave, Over, vvars
<1>3. CASE OnStart
  BY <1>3 DEF OnStart, Take, Continue, GoesOn, Over, vvars
<1>4. CASE OnPulse
  BY <1>4 DEF OnPulse, Take, Continue, GoesOn, BreaksOff, Leave, Over, vvars
<1>5. CASE OnResume
  <2>1. NoBroadcast \/ Sends(EventHeads \ {"CLOSE"})
    BY <1>5, <1>a DEF OnResume, Sends, EventHeads
  <2> QED BY <1>5, <2>1 DEF OnResume, Take, Continue, GoesOn, BreaksOff, Leave, Over, vvars
<1>6. CASE OnSeek
  <2>1. Sends(EventHeads \ {"CLOSE"})
    <3>1. Take("SEEK") /\ Broadcast("SEEK", Head(cmdQ).pos)
      BY <1>6 DEF OnSeek
    <3>2. Head(cmdQ).pos \in Nat
      BY <3>1, TakeType DEF Command
    <3> QED BY <3>1, <3>2 DEF Sends, EventHeads
  <2> QED BY <1>6, <2>1 DEF OnSeek, Take, Continue, GoesOn, BreaksOff, Leave, Over, vvars
<1>7. CASE OnClose
  BY <1>7 DEF OnClose, Take, ClosingLeave, Leave, Over, vvars
<1>8. CASE OnStatusAcq
  <2>1. Sends(EventHeads \ {"CLOSE"})
    BY <1>8, <1>a DEF OnStatusAcq, Sends, EventHeads
  <2> QED BY <1>8, <2>1 DEF OnStatusAcq, Take, Continue, GoesOn, Over, vvars
<1>9. CASE BroadcastFrame
  <2>1. Sends(EventHeads \ {"CLOSE"})
    BY <1>9, <1>a DEF BroadcastFrame, Sends, EventHeads
  <2> QED BY <1>9, <2>1 DEF BroadcastFrame, GoesOn, Over, vvars
<1>10. CASE WriteFrame
  BY <1>10 DEF WriteFrame, GoesOn, Over, vvars
<1>11. CASE WriteFails
  BY <1>11 DEF WriteFails, BreaksOff, Leave, Over, vvars
<1>12. CASE EndOfAudio
  <2>1. CASE GUI
    BY <1>12, <2>1 DEF EndOfAudio, GoesOn, Over, vvars
  <2>2. CASE ~GUI
    BY <1>12, <2>2 DEF EndOfAudio, ClosingLeave, Leave, Over, vvars
  <2> QED BY <2>1, <2>2
<1>13. CASE AudioExit
  BY <1>13 DEF AudioExit, vvars
<1> QED BY <1>1, <1>2, <1>3, <1>4, <1>5, <1>6, <1>7, <1>8, <1>9, <1>10, <1>11, <1>12, <1>13
        DEF AudioNext

\* What a broadcast puts in every queue.
LEMMA BroadcastLast ==
  ASSUME TypeOK, NEW h \in EventHeads, NEW x \in Nat, Broadcast(h, x), NEW s \in Slot
  PROVE  /\ Len(vibQ[s]) \in Nat /\ Len(vibQ'[s]) = Len(vibQ[s]) + 1
         /\ vibQ'[s][Len(vibQ[s]) + 1].head = h
         /\ \A i \in 1 .. Len(vibQ[s]) : vibQ'[s][i] = vibQ[s][i]
<1>1. PICK m : /\ m = [head |-> h, pos |-> x, at |-> told']
               /\ vibQ'[s] = Append(vibQ[s], m)
  BY BroadcastType
<1>2. m.head = h /\ vibQ[s] \in Seq(Event)
  BY <1>1 DEF TypeOK
<1>3. m \in Event
  BY <1>1, BroadcastType, PlaybackAssumption DEF Event, EventHeads, Past
<1> QED BY <1>1, <1>2, <1>3

\* Every step of the audio process keeps the invariant.
LEMMA AudioNextClose ==
  ASSUME CloseInv, AudioNext
  PROVE  (aexit # "none" <=> Over)' /\ ClosedOver' /\ CloseReachesAll'
<1>0. TypeOK /\ UNCHANGED <<vpc, vstate, vpos>>
  BY AudioNextShape DEF CloseInv
<1>1. CASE ~Over /\ (GoesOn \/ BreaksOff) /\ (NoBroadcast \/ Sends(EventHeads \ {"CLOSE"}))
  <2>1. aexit = "none" /\ \A s \in Slot : \A i \in 1 .. Len(vibQ[s]) : vibQ[s][i].head # "CLOSE"
    BY <1>1 DEF CloseInv, ClosedOver
  <2>2. \A s \in Slot : \A i \in 1 .. Len(vibQ'[s]) : vibQ'[s][i].head # "CLOSE"
    <3>1. CASE NoBroadcast
      BY <2>1, <3>1 DEF NoBroadcast
    <3>2. CASE Sends(EventHeads \ {"CLOSE"})
      <4>1. PICK h \in EventHeads \ {"CLOSE"}, x \in Nat : Broadcast(h, x)
        BY <3>2 DEF Sends
      <4> SUFFICES ASSUME NEW s \in Slot, NEW i \in 1 .. Len(vibQ'[s])
                   PROVE  vibQ'[s][i].head # "CLOSE"
        OBVIOUS
      <4>2. i \in 1 .. Len(vibQ[s]) \/ i = Len(vibQ[s]) + 1
        BY <1>0, <4>1, BroadcastLast
      <4> QED BY <1>0, <2>1, <4>1, <4>2, BroadcastLast
    <3> QED BY <1>1, <3>1, <3>2
  <2>3. /\ (aexit # "none" <=> Over)'
        /\ aexit' \notin {"closed", "ended"}
    BY <1>1, <2>1 DEF GoesOn, BreaksOff, Leave, Over
  <2> QED BY <2>2, <2>3 DEF ClosedOver, CloseReachesAll
<1>2. CASE ~Over /\ ClosingLeave /\ Broadcast("CLOSE", 0)
  <2>1. \A s \in Slot : \A i \in 1 .. Len(vibQ[s]) : vibQ[s][i].head # "CLOSE"
    BY <1>2 DEF CloseInv, ClosedOver
  <2>2. (aexit # "none" <=> Over)' /\ Over'
    BY <1>2 DEF ClosingLeave, Leave, Over
  <2>3. ASSUME NEW s \in Slot
        PROVE  /\ Len(vibQ[s]) \in Nat /\ Len(vibQ'[s]) = Len(vibQ[s]) + 1
               /\ vibQ'[s][Len(vibQ[s]) + 1].head = "CLOSE"
               /\ \A i \in 1 .. Len(vibQ[s]) : vibQ'[s][i] = vibQ[s][i]
    BY <1>0, <1>2, BroadcastLast DEF EventHeads
  <2>4. ClosedOver'
    BY <2>1, <2>2, <2>3 DEF ClosedOver
  <2>5. CloseReachesAll'
    <3> SUFFICES ASSUME NEW v \in Vib, Follows(v)'
                 PROVE  \E i \in DOMAIN Inbox(v)' : Inbox(v)'[i].head = "CLOSE"
      BY DEF CloseReachesAll
    <3>1. MySlot(v) \in Slot
      BY MySlotIsMine DEF Follows
    <3>2. vibQ'[MySlot(v)] \in Seq(Event)
      BY <1>0, <1>2, <3>1, BroadcastType DEF EventHeads
    <3>3. Len(vibQ'[MySlot(v)]) \in DOMAIN vibQ'[MySlot(v)]
      BY <2>3, <3>1, <3>2
    <3> QED BY <2>3, <3>1, <3>3 DEF Inbox
  <2> QED BY <2>2, <2>4, <2>5
<1>3. CASE AudioExit
  BY <1>3 DEF AudioExit, vvars, CloseInv, ClosedOver, CloseReachesAll, Over, Follows, Inbox
<1> QED BY <1>1, <1>2, <1>3, AudioNextShape DEF CloseInv

\* A vibration process takes the CLOSE from its queue only by stopping.
LEMMA VibStepClose ==
  ASSUME CloseInv, NEW v \in Vib, VibStep(v)
  PROVE  (aexit # "none" <=> Over)' /\ ClosedOver' /\ CloseReachesAll'
<1>0. UNCHANGED <<apc, aexit>> /\ TypeOK
  BY DEF VibStep, avars, CloseInv
<1>1. PICK k \in Slot : k = MySlot(v)
  BY MySlotIsMine DEF VibStep
<1>2. /\ vibQ[k] \in Seq(Event) /\ vibQ[k] # <<>> /\ vpc[v] = "running"
      /\ HandleEvent(v, Head(vibQ[k])) /\ vibQ'[k] = Tail(vibQ[k])
      /\ \A s \in Slot \ {k} : vibQ'[s] = vibQ[s]
  BY <1>0, <1>1 DEF VibStep, TypeOK
<1>3. /\ Len(vibQ[k]) \in Nat /\ Len(vibQ'[k]) = Len(vibQ[k]) - 1 /\ Len(vibQ[k]) >= 1
      /\ \A i \in 1 .. Len(vibQ'[k]) : vibQ'[k][i] = vibQ[k][i + 1]
      /\ Head(vibQ[k]) = vibQ[k][1] /\ Head(vibQ[k]) \in Event
      /\ DOMAIN vibQ[k] = 1 .. Len(vibQ[k]) /\ DOMAIN vibQ'[k] = 1 .. Len(vibQ'[k])
  BY <1>2
<1>4. ClosedOver'
  <2> SUFFICES ASSUME NEW s \in Slot, NEW i \in 1 .. Len(vibQ'[s]), vibQ'[s][i].head = "CLOSE"
               PROVE  Over /\ i = Len(vibQ'[s])
    BY <1>0 DEF ClosedOver, Over
  <2>1. CASE s = k
    <3>1. i + 1 \in 1 .. Len(vibQ[k]) /\ vibQ[k][i + 1].head = "CLOSE"
      BY <1>3, <2>1
    <3> QED BY <1>3, <2>1, <3>1 DEF CloseInv, ClosedOver
  <2>2. CASE s # k
    BY <1>2, <2>2 DEF CloseInv, ClosedOver
  <2> QED BY <2>1, <2>2
<1>5. CloseReachesAll'
  <2> SUFFICES ASSUME aexit \in {"closed", "ended"}, NEW u \in Vib, Follows(u)'
               PROVE  \E i \in DOMAIN Inbox(u)' : Inbox(u)'[i].head = "CLOSE"
    BY <1>0 DEF CloseReachesAll
  <2>1. Follows(u)
    BY <1>0, <1>2 DEF Follows, HandleEvent, InitVib, PlayVibFrame, VibStop, SetVib, vvars, TypeOK
  <2>2. PICK i \in DOMAIN Inbox(u) : Inbox(u)[i].head = "CLOSE"
    BY <2>1 DEF CloseInv, CloseReachesAll
  <2>3. CASE u = v
    <3>1. i \in 1 .. Len(vibQ[k]) /\ vibQ[k][i].head = "CLOSE"
      BY <1>1, <1>3, <2>2, <2>3 DEF Inbox
    <3>2. i # 1
      <4> SUFFICES ASSUME Head(vibQ[k]).head = "CLOSE" PROVE FALSE
        BY <1>3, <3>1
      <4>1. VibStop(v, "closed", vpos[v])
        BY <1>2 DEF HandleEvent
      <4> QED BY <1>0, <2>3, <4>1 DEF VibStop, SetVib, TypeOK, Follows
    <3>3. i - 1 \in 1 .. Len(vibQ'[k]) /\ vibQ'[k][i - 1] = vibQ[k][i]
      BY <1>3, <3>1, <3>2
    <3> QED BY <1>1, <1>3, <2>3, <3>1, <3>3 DEF Inbox
  <2>4. CASE u # v
    <3>1. Inbox(u)' = Inbox(u)
      BY <1>0, <2>1, <2>4, OtherInbox DEF Follows
    <3> QED BY <2>2, <3>1
  <2> QED BY <2>3, <2>4
<1> QED BY <1>0, <1>4, <1>5 DEF CloseInv, Over

\* An orphan neither sends nor reads.
LEMMA OrphanStepClose ==
  ASSUME CloseInv, NEW v \in Vib, OrphanStep(v)
  PROVE  (aexit # "none" <=> Over)' /\ ClosedOver' /\ CloseReachesAll'
<1>1. UNCHANGED <<vibQ, apc, aexit>> /\ ~IsAttached(v)
  BY DEF OrphanStep, avars
<1>2. \A u \in Vib \ {v} : vpc'[u] = vpc[u]
  BY DEF OrphanStep, InitVib, PlayVibFrame, VibStop, SetVib, vvars, CloseInv, TypeOK
<1>3. \A u \in Vib : Follows(u)' => Follows(u)
  BY <1>1, <1>2 DEF Follows
<1>4. \A u \in Vib : Inbox(u)' = Inbox(u)
  BY <1>1 DEF Inbox
<1> QED BY <1>1, <1>3, <1>4 DEF CloseInv, ClosedOver, CloseReachesAll, Over

\* Nothing was broadcast yet at the start.
LEMMA InitClose == Init => CloseInv
BY InitType, MySlotIsMine DEF Init, CloseInv, ClosedOver, CloseReachesAll, Over

\* A step that changes neither the processes nor their queues.
LEMMA QuietClose ==
  ASSUME CloseInv, UNCHANGED <<vibQ, avars, vvars>>
  PROVE  (aexit # "none" <=> Over)' /\ ClosedOver' /\ CloseReachesAll'
BY DEF avars, vvars, CloseInv, ClosedOver, CloseReachesAll, Over, Follows, Inbox

\* The invariant holds in every reachable state.
LEMMA CloseInvInvariant == Spec => []CloseInv
<1>1. TypeOK /\ TypeOK' /\ CloseInv /\ [Next]_vars => CloseInv'
  <2> SUFFICES ASSUME TypeOK, CloseInv, [Next]_vars
               PROVE  (aexit # "none" <=> Over)' /\ ClosedOver' /\ CloseReachesAll'
    BY DEF CloseInv
  <2>1. CASE AudioNext
    BY <2>1, AudioNextClose
  <2>2. ASSUME NEW v \in Vib, VibNext(v)
        PROVE  (aexit # "none" <=> Over)' /\ ClosedOver' /\ CloseReachesAll'
    BY <2>2, VibStepClose, OrphanStepClose DEF VibNext
  <2>3. CASE Client \/ UNCHANGED vars
    BY <2>3, QuietClose DEF Client, vars
  <2> QED BY <2>1, <2>2, <2>3 DEF Next, ProcNext
<1> QED BY TypeCorrect, InitClose, <1>1, PTL DEF Spec

\* The invariant says more: the run is over, too.
LEMMA ClosedIsLast == CloseInv => CloseIsLast
<1> SUFFICES ASSUME CloseInv, NEW s \in Slot, NEW i \in DOMAIN vibQ[s],
                    vibQ[s][i].head = "CLOSE"
             PROVE  i = Len(vibQ[s])
  BY DEF CloseIsLast
<1>1. i \in 1 .. Len(vibQ[s])
  BY DEF CloseInv, TypeOK
<1> QED BY <1>1 DEF CloseInv, ClosedOver

\* Nothing is broadcast after a CLOSE.
THEOREM NothingAfterClose == Spec => []CloseIsLast
BY CloseInvInvariant, ClosedIsLast, PTL

\* When the audio process closes or reaches the end of the recording, every
\* vibration process that still follows it has a CLOSE to read.
THEOREM CloseReachesEveryProcess == Spec => []CloseReachesAll
<1>1. CloseInv => CloseReachesAll
  BY DEF CloseInv
<1> QED BY CloseInvInvariant, <1>1, PTL
-----------------------------------------------------------------------------
(***************************************************************************)
(* The audio process implements a playback session                         *)
(***************************************************************************)
\* A frame is played only while the handler is active; a run that is not over
\* has given no reason to exit.
PlaysActive == /\ apc \in {"frame", "write"} => astate = "ACTIVE"
               /\ aexit # "none" <=> Over

SessionInv == TypeOK /\ OpenFirst /\ PlaysActive

\* What a session sees of the state.
SessionState == <<apc, aexit, astate, apos, device>>

\* Every step of the audio process is a step of the session or changes nothing
\* that a session shows.
LEMMA AudioNextSession ==
  ASSUME SessionInv, AudioNext
  PROVE  [Session!Next]_Session!vars /\ PlaysActive'
<1> USE PlaybackAssumption
<1> USE DEF SessionInv, PlaysActive, Over, Phase, Session!vars, Session!Next
<1>a. apos \in Nat /\ apos \in 0 .. NA /\ 0 \in 0 .. NA
  BY DEF TypeOK
<1>1. ASSUME OpenAudio, apc \in {"boot", "poll"}
      PROVE  [Session!Next]_Session!vars /\ PlaysActive'
  BY <1>1, <1>a DEF OpenAudio, Leave, TypeOK, Session!Open, Session!Finish
<1>2. CASE AutoInit
  BY <1>1, <1>2 DEF AutoInit
<1>3. CASE OnInit
  BY <1>1, <1>3 DEF OnInit, Take
<1>4. CASE OnStart
  <2>1. device # "none" /\ apc = "poll"
    BY <1>4, TakenWhenOpen DEF OnStart, Take
  <2> QED BY <1>4, <2>1 DEF OnStart, Continue, TypeOK, Session!Play
<1>5. CASE OnPulse
  <2>1. device # "none" /\ apc = "poll"
    BY <1>5, TakenWhenOpen DEF OnPulse, Take
  <2> QED BY <1>5, <2>1 DEF OnPulse, Continue, TypeOK, Session!Pause
<1>6. CASE OnResume
  <2>1. device # "none" /\ apc = "poll"
    BY <1>6, TakenWhenOpen DEF OnResume, Take
  <2> QED BY <1>6, <2>1 DEF OnResume, Continue, TypeOK, Session!Play
<1>7. CASE OnSeek
  <2>1. device # "none" /\ apc = "poll"
    BY <1>7, TakenWhenOpen DEF OnSeek, Take
  <2>2. PICK p : p = Head(cmdQ).pos
    OBVIOUS
  <2>3. p \in Nat
    BY <1>7, <2>2, TakeType DEF OnSeek, Command
  <2>4. /\ UNCHANGED <<astate, device>>
        /\ \/ apos' = p /\ p \in 0 .. NA /\ Continue(astate)
           \/ Leave("raised") /\ UNCHANGED apos
    BY <1>7, <2>1, <2>2, <2>3 DEF OnSeek, InRange
  <2> QED BY <2>1, <2>4 DEF Continue, Leave, TypeOK, Session!Move, Session!Finish
<1>8. CASE OnClose
  <2>1. device # "none" /\ apc = "poll"
    BY <1>8, TakenWhenOpen DEF OnClose, Take
  <2> QED BY <1>8, <2>1 DEF OnClose, Leave, TypeOK, Session!Finish
<1>9. CASE OnStatusAcq
  <2>1. device # "none" /\ apc = "poll"
    BY <1>9, TakenWhenOpen DEF OnStatusAcq, Take
  <2> QED BY <1>9, <2>1 DEF OnStatusAcq, Continue, TypeOK
<1>10. CASE BroadcastFrame
  BY <1>10 DEF BroadcastFrame
<1>11. CASE WriteFrame
  BY <1>11, <1>a DEF WriteFrame, Session!Advance
<1>12. CASE WriteFails
  <2>1. device # "none"
    BY <1>12 DEF WriteFails, OpenFirst
  <2> QED BY <1>12, <2>1, <1>a DEF WriteFails, Leave, Session!Finish
<1>13. CASE EndOfAudio
  BY <1>13 DEF EndOfAudio, Leave, Session!Pause, Session!Finish
<1>14. CASE AudioExit
  BY <1>14 DEF AudioExit
<1> QED BY <1>2, <1>3, <1>4, <1>5, <1>6, <1>7, <1>8, <1>9, <1>10, <1>11, <1>12, <1>13, <1>14
        DEF AudioNext

\* The audio process implements a playback session: the position moves frame by
\* frame and only while it plays, or to a position in the recording that was
\* asked for, and a session that is over stays over.
THEOREM ImplementsSession == Spec => SessionSpec
<1>1. Init => Session!Init /\ PlaysActive
  BY PlaybackAssumption DEF Init, Session!Init, Phase, PlaysActive, Over
<1>2. IInv /\ PlaysActive /\ [Next]_vars => [Session!Next]_Session!vars /\ PlaysActive'
  <2> SUFFICES ASSUME IInv, PlaysActive, [Next]_vars
               PROVE  [Session!Next]_Session!vars /\ PlaysActive'
    OBVIOUS
  <2>1. CASE AudioNext
    BY <2>1, AudioNextSession DEF IInv, SessionInv
  <2>2. CASE UNCHANGED SessionState
    BY <2>2 DEF SessionState, PlaysActive, Over, Phase, Session!vars
  <2>3. Client \/ (\E v \in Vib : VibNext(v)) \/ UNCHANGED vars => UNCHANGED SessionState
    BY DEF Client, VibNext, VibStep, OrphanStep, vars, avars, SessionState
  <2> QED BY <2>1, <2>2, <2>3 DEF Next, ProcNext
<1> QED BY IInvInvariant, <1>1, <1>2, PTL DEF Spec, SessionSpec, Session!Spec
=============================================================================
