---------------------------- MODULE ControlProofs ----------------------------
(***************************************************************************)
(* Proofs about the serial controller, for any lines that are typed.       *)
(***************************************************************************)
EXTENDS Control, SequenceTheorems, TLAPS

-----------------------------------------------------------------------------
(***************************************************************************)
(* The frame of a line.                                                    *)
(***************************************************************************)
\* f is the frame of a line that is accepted.
Made(f, l) == l \in Lines /\ Accepted(l) /\ f = Frame(l)

\* The codes of the channels: different ones are told apart.
LEMMA Codes ==
  /\ DOMAIN CHANNEL_MAP = {"Z", "0", "1"}
  /\ CHANNEL_MAP["Z"] = 1 /\ CHANNEL_MAP["0"] = 0 /\ CHANNEL_MAP["1"] = 2
  /\ \A c \in DOMAIN CHANNEL_MAP : CHANNEL_MAP[c] \in 0 .. 2
  /\ \A c, d \in DOMAIN CHANNEL_MAP : CHANNEL_MAP[c] = CHANNEL_MAP[d] => c = d
<1>1. DOMAIN CHANNEL_MAP = {"Z", "0", "1"}
  BY DEF CHANNEL_MAP
<1>2. CHANNEL_MAP["Z"] = 1 /\ CHANNEL_MAP["0"] = 0 /\ CHANNEL_MAP["1"] = 2
  BY DEF CHANNEL_MAP
<1> QED BY <1>1, <1>2

\* Four codes in one byte: it is less than 256, and each can be read from it.
LEMMA FourInOne ==
  ASSUME NEW a \in 0 .. 2, NEW b \in 0 .. 2, NEW c \in 0 .. 2, NEW d \in 0 .. 2,
         NEW p, p = 64 * d + 16 * c + 4 * b + a
  PROVE  /\ p \in 0 .. 255
         /\ (p \div 1) % 4 = a /\ (p \div 4) % 4 = b
         /\ (p \div 16) % 4 = c /\ (p \div 64) % 4 = d
<1>1. p \in 0 .. 255
  OBVIOUS
<1>2. p \div 1 = p /\ p % 4 = a
  BY SMTT(30)
<1>3. p \div 4 = 16 * d + 4 * c + b /\ (p \div 4) % 4 = b
  BY SMTT(30)
<1>4. p \div 16 = 4 * d + c /\ (p \div 16) % 4 = c
  BY SMTT(30)
<1>5. p \div 64 = d /\ (p \div 64) % 4 = d
  BY SMTT(30)
<1> QED BY <1>1, <1>2, <1>3, <1>4, <1>5

\* A frequency of up to two bytes: both are bytes, and it can be read from them.
LEMMA TwoBytes ==
  ASSUME NEW f \in Nat, f < 65536
  PROVE  /\ f \div 256 \in Bytes /\ f % 256 \in Bytes
         /\ 256 * (f \div 256) + (f % 256) = f
BY SMTT(30) DEF Bytes

\* The digits of five or six that fromhex takes make three bytes.
LEMMA ThreeBytes ==
  ASSUME NEW f \in Nat, f < 16777216
  PROVE  /\ f \div 65536 \in Bytes /\ (f \div 256) % 256 \in Bytes /\ f % 256 \in Bytes
<1>1. f \div 65536 \in Bytes
  BY SMTT(30) DEF Bytes
<1>2. PICK g \in Nat : g = f \div 256
  BY SMTT(30)
<1>3. g % 256 \in Bytes
  BY SMTT(30) DEF Bytes
<1>4. f % 256 \in Bytes
  BY SMTT(30) DEF Bytes
<1> QED BY <1>1, <1>2, <1>3, <1>4

\* Where the elements of two sequences put together are found.
Joins(t, u, v) ==
  /\ Len(u) \in Nat /\ Len(v) \in Nat /\ Len(t) = Len(u) + Len(v)
  /\ \A i \in 1 .. Len(u) : t[i] = u[i]
  /\ \A i \in 1 .. Len(t) : i > Len(u) => t[i] = v[i - Len(u)]

\* So they are found in the sequence that results.
LEMMA TwoParts ==
  ASSUME NEW S, NEW u \in Seq(S), NEW v \in Seq(S)
  PROVE  u \o v \in Seq(S) /\ Joins(u \o v, u, v)
BY DEF Joins

\* The elements of a sequence put together from three, as far as the board
\* reads them.
Reads(f, u, v) ==
  /\ Len(f) >= 7
  /\ f[3] = u[3] /\ f[4] = u[4] /\ f[5] = u[5]
  /\ f[6] = v[1] /\ f[7] = v[2]

\* They are read so when the first part has five elements, as a frame's has.
LEMMA ThreeParts ==
  ASSUME NEW S, NEW u \in Seq(S), NEW v \in Seq(S), NEW w \in Seq(S),
         Len(u) = 5, Len(v) >= 2
  PROVE  u \o v \o w \in Seq(S) /\ Reads(u \o v \o w, u, v)
<1>1. PICK t : t = u \o v
  OBVIOUS
<1>2. t \in Seq(S) /\ Joins(t, u, v)
  BY <1>1, TwoParts, Zenon
<1>3. t[3] = u[3] /\ t[4] = u[4] /\ t[5] = u[5]
  BY <1>2 DEF Joins
<1>4. t[6] = v[1] /\ t[7] = v[2]
  BY <1>2 DEF Joins
<1>5. PICK s : s = t \o w
  OBVIOUS
<1>6. s \in Seq(S) /\ Joins(s, t, w)
  BY <1>2, <1>5, TwoParts, Zenon
<1>7. Len(t) >= 7
  BY <1>2 DEF Joins
<1>8. s[3] = t[3] /\ s[4] = t[4] /\ s[5] = t[5] /\ s[6] = t[6] /\ s[7] = t[7]
  BY <1>6, <1>7 DEF Joins
<1>9. Len(s) >= 7
  BY <1>6, <1>7 DEF Joins
<1>10. s = u \o v \o w
  BY <1>1, <1>5
<1> QED BY <1>3, <1>4, <1>6, <1>8, <1>9, <1>10, Zenon DEF Reads
\* What is in the frame of a line.
LEMMA FrameBytes ==
  ASSUME NEW l \in Lines, Accepted(l)
  PROVE  /\ Frame(l) \in Seq(Bytes) /\ Len(Frame(l)) >= 7
         /\ Frame(l)[3] = Packed(l.ch) /\ Frame(l)[4] = l.volt
         /\ Frame(l)[5] = DutyByte(l.duty)
         /\ Frame(l)[6] = FreqBytes(l.freq)[1] /\ Frame(l)[7] = FreqBytes(l.freq)[2]
<1> DEFINE u == <<188, 1, Packed(l.ch), l.volt, DutyByte(l.duty)>>
           v == FreqBytes(l.freq)
           w == <<255, 255, 255, 223>>
<1>1. Packed(l.ch) \in Bytes
  <2> DEFINE m(i) == CHANNEL_MAP[l.ch[i]]
  <2>1. \A i \in 1 .. 4 : l.ch[i] \in DOMAIN CHANNEL_MAP
    BY DEF Accepted
  <2>2. m(1) \in 0 .. 2 /\ m(2) \in 0 .. 2 /\ m(3) \in 0 .. 2 /\ m(4) \in 0 .. 2
    BY <2>1, Codes
  <2>3. Packed(l.ch) = 64 * m(4) + 16 * m(3) + 4 * m(2) + m(1)
    BY DEF Packed
  <2> HIDE DEF m
  <2>4. Packed(l.ch) \in 0 .. 255
    BY <2>2, <2>3
  <2> QED BY <2>4 DEF Bytes
<1>2. l.volt \in Bytes /\ DutyByte(l.duty) \in Bytes
  BY ControlAssumption DEF Accepted, VoltAccepted, DutyByte, Bytes
<1>3. u \in Seq(Bytes) /\ Len(u) = 5
  <2>1. 188 \in Bytes /\ 1 \in Bytes
    BY DEF Bytes
  <2> QED BY <1>1, <1>2, <2>1
<1>4. v \in Seq(Bytes) /\ Len(v) >= 2
  <2>1. l.freq \in Nat /\ l.freq < 16777216
    BY ControlAssumption DEF Accepted
  <2>2. CASE l.freq < 65536
    <3>1. v = <<l.freq \div 256, l.freq % 256>>
      BY <2>2 DEF FreqBytes
    <3>2. l.freq \div 256 \in Bytes /\ l.freq % 256 \in Bytes
      BY <2>1, <2>2, TwoBytes
    <3> QED BY <3>1, <3>2
  <2>3. CASE ~(l.freq < 65536)
    <3>1. v = <<l.freq \div 65536, (l.freq \div 256) % 256, l.freq % 256>>
      BY <2>3 DEF FreqBytes
    <3>2. /\ l.freq \div 65536 \in Bytes /\ (l.freq \div 256) % 256 \in Bytes
          /\ l.freq % 256 \in Bytes
      BY <2>1, ThreeBytes
    <3> QED BY <3>1, <3>2
  <2> QED BY <2>2, <2>3
<1>5. w \in Seq(Bytes)
  <2>1. 255 \in Bytes /\ 223 \in Bytes
    BY DEF Bytes
  <2> QED BY <2>1
<1>6. u[3] = Packed(l.ch) /\ u[4] = l.volt /\ u[5] = DutyByte(l.duty)
  OBVIOUS
<1>7. Frame(l) = u \o v \o w
  BY DEF Frame
<1> HIDE DEF u, v, w
<1>8. u \o v \o w \in Seq(Bytes) /\ Reads(u \o v \o w, u, v)
  BY <1>3, <1>4, <1>5, ThreeParts
<1>9. v = FreqBytes(l.freq)
  BY DEF v
<1> QED BY <1>6, <1>7, <1>8, <1>9, Zenon DEF Reads

\* A frame is no other thing that is sent or remembered.
LEMMA FrameIsProper ==
  ASSUME NEW f, NEW l, Made(f, l)
  PROVE  /\ f \in Seq(Bytes) /\ f[5] % 2 = 1 /\ f[5] <= 201
         /\ f # Off /\ f # Nothing /\ f # None
<1>1. l \in Lines /\ Accepted(l) /\ f = Frame(l)
  BY DEF Made
<1>2. f \in Seq(Bytes) /\ Len(f) >= 7 /\ f[5] = DutyByte(l.duty)
  BY <1>1, FrameBytes
<1>3. f[5] % 2 = 1 /\ f[5] <= 201
  <2>1. l.duty \in 0 .. 100
    BY <1>1, ControlAssumption DEF Accepted
  <2>2. \A d \in 0 .. 100 : DutyByte(d) % 2 = 1 /\ DutyByte(d) <= 201
    BY SMTT(30) DEF DutyByte
  <2> QED BY <1>2, <2>1, <2>2
<1>4. Off[5] = 0
  BY DEF Off
<1>5. 0 % 2 # 1
  OBVIOUS
<1>6. Len(Nothing) = 0 /\ Len(None) = 1
  BY DEF Nothing, None
<1> QED BY <1>2, <1>3, <1>4, <1>5, <1>6

\* The channel that a code stands for.
LEMMA Decoded ==
  ASSUME NEW c \in DOMAIN CHANNEL_MAP, NEW n, n = CHANNEL_MAP[c]
  PROVE  (CHOOSE e \in DOMAIN CHANNEL_MAP : CHANNEL_MAP[e] = n) = c
BY Codes, Zenon

\* The board reads from a frame what the line said.
LEMMA UnderstoodAsTyped ==
  ASSUME NEW f, NEW l, Made(f, l), l.freq < 65536
  PROVE  Understood(f) = l
<1>1. l \in Lines /\ Accepted(l) /\ f = Frame(l)
  BY DEF Made
<1>2. /\ f[3] = Packed(l.ch) /\ f[4] = l.volt /\ f[5] = DutyByte(l.duty)
      /\ f[6] = FreqBytes(l.freq)[1] /\ f[7] = FreqBytes(l.freq)[2]
  BY <1>1, FrameBytes
<1>3. l \in [ch : [1 .. 4 -> STRING], volt : Int, freq : Int, duty : Int]
  BY <1>1, ControlAssumption
<1>4. \A i \in 1 .. 4 : l.ch[i] \in DOMAIN CHANNEL_MAP
  BY <1>1 DEF Accepted
<1>5. \A i \in 1 .. 4 : Level(f, i) = CHANNEL_MAP[l.ch[i]]
  <2> DEFINE m(i) == CHANNEL_MAP[l.ch[i]]
  <2>1. m(1) \in 0 .. 2 /\ m(2) \in 0 .. 2 /\ m(3) \in 0 .. 2 /\ m(4) \in 0 .. 2
    BY <1>4, Codes
  <2>2. f[3] = 64 * m(4) + 16 * m(3) + 4 * m(2) + m(1)
    BY <1>2 DEF Packed
  <2> HIDE DEF m
  <2>3. /\ (f[3] \div 1) % 4 = m(1) /\ (f[3] \div 4) % 4 = m(2)
        /\ (f[3] \div 16) % 4 = m(3) /\ (f[3] \div 64) % 4 = m(4)
    BY <2>1, <2>2, FourInOne
  <2>4. Level(f, 1) = m(1) /\ Level(f, 2) = m(2) /\ Level(f, 3) = m(3) /\ Level(f, 4) = m(4)
    BY <2>3 DEF Level
  <2> QED BY <2>4 DEF m
<1> DEFINE Read(i) == CHOOSE c \in DOMAIN CHANNEL_MAP : CHANNEL_MAP[c] = Level(f, i)
<1>6. [i \in 1 .. 4 |-> Read(i)] = l.ch
  <2>1. ASSUME NEW i \in 1 .. 4
        PROVE  Read(i) = l.ch[i]
    <3>1. Level(f, i) = CHANNEL_MAP[l.ch[i]] /\ l.ch[i] \in DOMAIN CHANNEL_MAP
      BY <1>4, <1>5
    <3> QED BY <3>1, Decoded
  <2> HIDE DEF Read
  <2> QED BY <1>3, <2>1
<1>7. (f[5] - 1) \div 2 = l.duty
  <2>1. l.duty \in 0 .. 100
    BY <1>1, <1>3 DEF Accepted
  <2>2. \A d \in 0 .. 100 : (DutyByte(d) - 1) \div 2 = d
    BY SMTT(30) DEF DutyByte
  <2> QED BY <1>2, <2>1, <2>2
<1>8. 256 * f[6] + f[7] = l.freq
  <2>1. l.freq \in Nat
    BY <1>1, <1>3 DEF Accepted
  <2>2. FreqBytes(l.freq) = <<l.freq \div 256, l.freq % 256>>
    BY DEF FreqBytes
  <2>3. f[6] = l.freq \div 256 /\ f[7] = l.freq % 256
    BY <1>2, <2>2
  <2> QED BY <2>1, <2>3, TwoBytes
<1>9. l = [ch |-> l.ch, volt |-> l.volt, freq |-> l.freq, duty |-> l.duty]
  BY <1>3
<1>10. Understood(f) = [ch   |-> [i \in 1 .. 4 |-> Read(i)], volt |-> f[4],
                        freq |-> 256 * f[6] + f[7], duty |-> (f[5] - 1) \div 2]
  BY DEF Understood
<1> HIDE DEF Read
<1> QED BY <1>2, <1>6, <1>7, <1>8, <1>9, <1>10

-----------------------------------------------------------------------------
(***************************************************************************)
(* The invariant: what the board drives and what ENTER repeats are frames  *)
(* of the lines the ghosts name; what was sent before the currents are     *)
(* read is what the board drives; nothing was sent only if there was no    *)
(* frame to repeat.                                                        *)
(***************************************************************************)
Phases == pc \in {"prompt", "reading", "closed", "killed"} /\ unsure \in BOOLEAN

Driven == (driven = Off /\ typed = NoLine) \/ Made(driven, typed)

Remembered ==
  (last_cmd \in {Nothing, None} /\ again \in Lines \cup {NoLine}) \/ Made(last_cmd, again)

Written == sent = Nothing \/ (sent = driven /\ Made(driven, typed))

Waiting ==
  /\ pc = "prompt" => sent = Nothing
  /\ pc = "reading" /\ sent = Nothing => last_cmd = Nothing /\ (driven # Off => unsure)

Inv == Phases /\ Driven /\ Remembered /\ Written /\ Waiting /\ RepeatChangesNothing

\* The special frames are told apart, and are made of bytes but for None.
LEMMA SpecialFrames ==
  /\ Off \in Seq(Bytes) /\ Nothing \in Seq(Bytes)
  /\ Off # Nothing /\ Off # None /\ Nothing # None
<1>1. Len(Off) = 13 /\ Len(Nothing) = 0 /\ Len(None) = 1
  BY DEF Off, Nothing, None
<1>2. 188 \in Bytes /\ 0 \in Bytes /\ 1 \in Bytes /\ 170 \in Bytes /\ 255 \in Bytes /\ 223 \in Bytes
  BY DEF Bytes
<1>3. Off \in Seq(Bytes)
  BY <1>2 DEF Off
<1>4. Nothing \in Seq(Bytes)
  BY DEF Nothing
<1>5. Off # Nothing /\ Off # None /\ Nothing # None
  <2>1. 13 # 0 /\ 13 # 1 /\ 0 # 1
    OBVIOUS
  <2> QED BY <1>1, <2>1, Zenon
<1> QED BY <1>3, <1>4, <1>5, Zenon

\* What the invariant says of frames: the board and the repeated frame are
\* frames or special, whatever the lines.
LEMMA InvFrames ==
  ASSUME Inv
  PROVE  /\ driven \in Seq(Bytes) /\ sent \in Seq(Bytes) /\ last_cmd \in Seq(Bytes) \cup {None}
         /\ typed \in Lines \cup {NoLine} /\ again \in Lines \cup {NoLine}
         /\ driven = Off \/ (driven[5] % 2 = 1 /\ driven[5] <= 201)
<1>1. \A f, l : Made(f, l) => f \in Seq(Bytes) /\ f[5] % 2 = 1 /\ f[5] <= 201 /\ l \in Lines
  <2> SUFFICES ASSUME NEW f, NEW l, Made(f, l)
               PROVE  f \in Seq(Bytes) /\ f[5] % 2 = 1 /\ f[5] <= 201 /\ l \in Lines
    BY Zenon
  <2> QED BY FrameIsProper, Zenon DEF Made
<1>2. driven \in Seq(Bytes) /\ typed \in Lines \cup {NoLine} /\ (driven = Off \/ (driven[5] % 2 = 1 /\ driven[5] <= 201))
  BY <1>1, SpecialFrames, Zenon DEF Inv, Phases, Driven, Remembered, Written
<1>3. last_cmd \in Seq(Bytes) \cup {None} /\ again \in Lines \cup {NoLine}
  BY <1>1, SpecialFrames, Zenon DEF Inv, Phases, Driven, Remembered, Written
<1>4. sent \in Seq(Bytes)
  BY <1>1, SpecialFrames, Zenon DEF Inv, Phases, Driven, Remembered, Written
<1> QED BY <1>2, <1>3, <1>4, Zenon

\* The invariant gives the properties.
LEMMA InvImplies == Inv => TypeOK /\ AsTyped /\ RepeatChangesNothing
<1> SUFFICES ASSUME Inv
             PROVE  TypeOK /\ AsTyped /\ RepeatChangesNothing
  OBVIOUS
<1>1. TypeOK
  BY InvFrames, Zenon DEF Inv, TypeOK, Phases, Driven, Remembered, Written
<1>2. AsTyped
  BY UnderstoodAsTyped DEF Inv, AsTyped, Phases, Driven, Remembered, Written
<1>3. RepeatChangesNothing
  BY Zenon DEF Inv
<1> QED BY <1>1, <1>2, <1>3, Zenon

\* At the start nothing was typed and the board is off.
LEMMA InitControl == Init => Inv
BY SpecialFrames, Zenon DEF Init, Inv, Phases, Driven, Remembered, Written, Waiting, RepeatChangesNothing

\* Every step of the prompt keeps the invariant.
LEMMA NextControl == Inv /\ [Next]_vars => Inv'
<1> SUFFICES ASSUME Inv, [Next]_vars
             PROVE  Inv'
  OBVIOUS
<1>0. \A f, l : Made(f, l) => f # Off /\ f # Nothing /\ f # None /\ l \in Lines
  BY FrameIsProper, Zenon DEF Made
<1> USE DEF Inv, Phases, Driven, Remembered, Written, Waiting, RepeatChangesNothing
<1>1. ASSUME NEW l \in Lines, Send(l)
      PROVE  Inv'
  <2>0. Made(Frame(l), l)
    BY <1>1, Zenon DEF Send, Made
  <2>1. Phases'
    BY <1>1, <2>0 DEF Send
  <2>2. Driven'
    BY <1>1, <2>0 DEF Send
  <2>3. Remembered'
    BY <1>1, <2>0 DEF Send
  <2>4. Written'
    BY <1>1, <2>0 DEF Send
  <2>5. Waiting'
    BY <1>0, <1>1, <2>0 DEF Send
  <2>6. RepeatChangesNothing'
    BY <1>1, <2>0 DEF Send
  <2> QED BY <2>1, <2>2, <2>3, <2>4, <2>5, <2>6, Zenon
<1>2. ASSUME NEW l \in Lines, AllOffLine(l)
      PROVE  Inv'
  <2>1. Phases'
    BY <1>2 DEF AllOffLine
  <2>2. Driven'
    BY <1>2 DEF AllOffLine
  <2>3. Remembered'
    BY <1>0, <1>2 DEF AllOffLine
  <2>4. Written'
    BY <1>2 DEF AllOffLine
  <2>5. Waiting'
    BY <1>2 DEF AllOffLine
  <2>6. RepeatChangesNothing'
    BY <1>2 DEF AllOffLine
  <2> QED BY <2>1, <2>2, <2>3, <2>4, <2>5, <2>6, Zenon
<1>3. CASE Repeat
  <2>1. Phases'
    BY <1>3 DEF Repeat
  <2>2. Driven'
    BY <1>3 DEF Repeat
  <2>3. Remembered'
    BY <1>3 DEF Repeat
  <2>4. Written'
    BY <1>3 DEF Repeat
  <2>5. Waiting'
    BY <1>0, <1>3 DEF Repeat
  <2>6. RepeatChangesNothing'
    BY <1>3 DEF Repeat
  <2> QED BY <2>1, <2>2, <2>3, <2>4, <2>5, <2>6, Zenon
<1>4. CASE Return
  <2>1. Phases'
    BY <1>4 DEF Return
  <2>2. Driven'
    BY <1>4 DEF Return
  <2>3. Remembered'
    BY <1>0, <1>4 DEF Return
  <2>4. Written'
    BY <1>4 DEF Return
  <2>5. Waiting'
    BY <1>4 DEF Return
  <2>6. RepeatChangesNothing'
    BY <1>0, <1>4 DEF Return
  <2> QED BY <2>1, <2>2, <2>3, <2>4, <2>5, <2>6, Zenon
<1>5. CASE ReadFails
  <2>1. Phases'
    BY <1>5 DEF ReadFails
  <2>2. Driven'
    BY <1>5 DEF ReadFails
  <2>3. Remembered'
    BY <1>5 DEF ReadFails
  <2>4. Written'
    BY <1>5 DEF ReadFails
  <2>5. Waiting'
    BY <1>5 DEF ReadFails
  <2>6. RepeatChangesNothing'
    BY <1>0, <1>5 DEF ReadFails
  <2> QED BY <2>1, <2>2, <2>3, <2>4, <2>5, <2>6, Zenon
<1>6. CASE ShutDown
  <2>1. Phases'
    BY <1>6 DEF ShutDown
  <2>2. Driven'
    BY <1>6 DEF ShutDown
  <2>3. Remembered'
    BY <1>6 DEF ShutDown
  <2>4. Written'
    BY <1>6 DEF ShutDown
  <2>5. Waiting'
    BY <1>6 DEF ShutDown
  <2>6. RepeatChangesNothing'
    BY <1>6 DEF ShutDown
  <2> QED BY <2>1, <2>2, <2>3, <2>4, <2>5, <2>6, Zenon
<1>7. CASE Kill
  <2>1. Phases'
    BY <1>7 DEF Kill
  <2>2. Driven'
    BY <1>7 DEF Kill
  <2>3. Remembered'
    BY <1>7 DEF Kill
  <2>4. Written'
    BY <1>7 DEF Kill
  <2>5. Waiting'
    BY <1>7 DEF Kill
  <2>6. RepeatChangesNothing'
    BY <1>7 DEF Kill
  <2> QED BY <2>1, <2>2, <2>3, <2>4, <2>5, <2>6, Zenon
<1>8. CASE UNCHANGED vars
  <2>1. Phases'
    BY <1>8 DEF vars
  <2>2. Driven'
    BY <1>8 DEF vars
  <2>3. Remembered'
    BY <1>8 DEF vars
  <2>4. Written'
    BY <1>8 DEF vars
  <2>5. Waiting'
    BY <1>8 DEF vars
  <2>6. RepeatChangesNothing'
    BY <1>8 DEF vars
  <2> QED BY <2>1, <2>2, <2>3, <2>4, <2>5, <2>6, Zenon
<1> QED BY <1>1, <1>2, <1>3, <1>4, <1>5, <1>6, <1>7, <1>8, Zenon DEF Next

\* The invariant holds in every behaviour.
LEMMA ControlInvariant == Spec => []Inv
<1> QED BY InitControl, NextControl, PTL DEF Spec

\* Whatever is typed, repeated, or fails, a frame is made of bytes, and its
\* duty byte is odd and at most 201.
THEOREM ControlTypeCorrect == Spec => []TypeOK
BY ControlInvariant, InvImplies, PTL

\* The board drives what the line said, whatever lines are typed.
THEOREM DrivesAsTyped == Spec => []AsTyped
BY ControlInvariant, InvImplies, PTL

\* ENTER changes nothing on the board but after a failure to read right after
\* another frame, and never switches on channels that are off.
THEOREM RepeatIsSafe == Spec => []RepeatChangesNothing
BY ControlInvariant, InvImplies, PTL
=============================================================================
