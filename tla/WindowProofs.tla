---------------------------- MODULE WindowProofs ----------------------------
(***************************************************************************)
(* Proofs about VibPlay: what the player window may rely on, for any       *)
(* recording, number of vibration processes and number of clicks.          *)
(***************************************************************************)
EXTENDS VibPlay, PlaybackProofs

-----------------------------------------------------------------------------
(***************************************************************************)
(* The inductive invariant.  Until the window has taken the first answer,  *)
(* no command was sent and that answer can only be num_frame; positions    *)
(* are in the recording; the last answer on its way, or the last taken, is *)
(* where the audio is while it plays.                                      *)
(***************************************************************************)
NumFrame == [what |-> "num_frame", val |-> NA]

Loading ==
  gui = "loading" =>
    /\ cmdQ = <<>> /\ astate = "INACTIVE" /\ apc \in {"boot", "poll", "leaving", "dead"}
    /\ resQ = <<>> \/ (apc # "boot" /\ resQ = <<NumFrame>>)
    /\ helper = "idle"

\* Without the GUI mode nothing ever answers, and the window stays as it is.
NoAnswers == ~GUI => gui = "loading" /\ resQ = <<>> /\ apc # "boot"

Replies == \A i \in DOMAIN resQ : resQ[i].val \in 0 .. NA

Seeks == \A i \in DOMAIN cmdQ : cmdQ[i].head = "SEEK" => cmdQ[i].pos \in 0 .. NA

Latest ==
  apc = "poll" /\ astate = "ACTIVE" =>
    IF resQ = <<>> THEN fetched = Tell
                   ELSE resQ[Len(resQ)] = [what |-> "pos", val |-> Tell]

WindowType ==
  /\ gui \in {"loading", "ready", "started", "joinAudio", "joinVib", "joinSlider", "joined"}
  /\ total \in {1, NA} /\ slider \in 0 .. NA
  /\ helper \in {"idle", "get", "set", "done"} /\ fetched \in 0 .. NA

GInv == /\ TypeOK /\ WindowType /\ Seeks /\ TotalKnown
        /\ Loading /\ NoAnswers /\ Replies /\ Latest
-----------------------------------------------------------------------------
(***************************************************************************)
(* Queues                                                                  *)
(***************************************************************************)
\* What is put at the end of a queue, and what taking its head leaves.
LEMMA PutAtEnd ==
  ASSUME NEW S, NEW q \in Seq(S), NEW x \in S
  PROVE  /\ Append(q, x) \in Seq(S) /\ Append(q, x) # <<>>
         /\ Append(q, x)[Len(Append(q, x))] = x
         /\ \A i \in DOMAIN Append(q, x) : Append(q, x)[i] = x \/ (i \in DOMAIN q /\ Append(q, x)[i] = q[i])
<1> DEFINE r == Append(q, x)
<1>1. /\ Len(q) \in Nat /\ r \in Seq(S) /\ Len(r) = Len(q) + 1
      /\ DOMAIN q = 1 .. Len(q) /\ DOMAIN r = 1 .. Len(r)
      /\ r[Len(q) + 1] = x /\ \A i \in 1 .. Len(q) : r[i] = q[i]
  OBVIOUS
<1> HIDE DEF r
<1>2. r # <<>> /\ r[Len(r)] = x
  BY <1>1
<1>3. \A i \in DOMAIN r : r[i] = x \/ (i \in DOMAIN q /\ r[i] = q[i])
  BY <1>1
<1> QED BY <1>1, <1>2, <1>3 DEF r

\* Taking the head leaves the other elements, the last one included.
LEMMA TakeFirst ==
  ASSUME NEW S, NEW q \in Seq(S), q # <<>>
  PROVE  /\ Tail(q) \in Seq(S) /\ Head(q) \in S
         /\ 1 \in DOMAIN q /\ Head(q) = q[1]
         /\ \A i \in DOMAIN Tail(q) : i + 1 \in DOMAIN q /\ Tail(q)[i] = q[i + 1]
         /\ IF Tail(q) = <<>> THEN Head(q) = q[Len(q)]
                              ELSE Tail(q)[Len(Tail(q))] = q[Len(q)]
<1> DEFINE t == Tail(q)
<1>1. /\ Len(q) \in Nat /\ Len(q) >= 1 /\ t \in Seq(S) /\ Len(t) = Len(q) - 1
      /\ DOMAIN q = 1 .. Len(q) /\ DOMAIN t = 1 .. Len(t)
      /\ Head(q) = q[1] /\ \A i \in 1 .. Len(t) : t[i] = q[i + 1]
  OBVIOUS
<1>2. Head(q) \in S
  BY <1>1
<1> HIDE DEF t
<1>3. t = <<>> => Len(t) = 0
  OBVIOUS
<1>4. t # <<>> => Len(t) >= 1
  BY <1>1
<1>5. \A i \in DOMAIN t : i + 1 \in DOMAIN q /\ t[i] = q[i + 1]
  BY <1>1
<1>6. CASE t = <<>>
  BY <1>1, <1>2, <1>3, <1>5, <1>6 DEF t
<1>7. CASE t # <<>>
  <2>1. t[Len(t)] = q[Len(q)]
    BY <1>1, <1>4, <1>7
  <2> QED BY <1>1, <1>2, <1>5, <1>7, <2>1 DEF t
<1> QED BY <1>6, <1>7
-----------------------------------------------------------------------------
(***************************************************************************)
(* The steps of the audio process, as far as the window goes: it opens and *)
(* answers num_frame, takes a command, plays, or exits.                    *)
(***************************************************************************)
Opens ==
  /\ apc = "boot" /\ UNCHANGED cmdQ
  /\ \/ apc' = "poll" /\ astate' = "INACTIVE" /\ resQ' = Append(resQ, NumFrame)
     \/ apc' = "leaving" /\ UNCHANGED <<resQ, astate>>

Takes ==
  /\ apc = "poll" /\ cmdQ # <<>> /\ cmdQ' = Tail(cmdQ) /\ UNCHANGED resQ
  /\ apc' = "poll" => astate' = "INACTIVE"

PosSent(x) == resQ' = Append(resQ, [what |-> "pos", val |-> x])

Plays ==
  /\ apc \in {"frame", "write"} \/ astate = "ACTIVE"
  /\ UNCHANGED cmdQ
  /\ \/ UNCHANGED resQ /\ (apc' # "poll" \/ ~GUI)
     \/ GUI /\ \E x \in 0 .. NA : PosSent(x) /\ (astate' = "ACTIVE" => x = Tell')

Exits == apc = "leaving" /\ apc' = "dead" /\ UNCHANGED <<cmdQ, resQ, astate>>

\* Every step of the audio process is one of these.
LEMMA AudioNextWindow ==
  ASSUME TypeOK, AudioNext
  PROVE  apc' # "boot" /\ (Opens \/ Takes \/ Plays \/ Exits)
<1> USE PlaybackAssumption
<1>1. CASE AutoInit
  BY <1>1 DEF AutoInit, OpenAudio, Leave, Opens, NumFrame
<1>2. CASE OnInit
  BY <1>2 DEF OnInit, Take, OpenAudio, Leave, Takes
<1>3. CASE OnStart
  BY <1>3 DEF OnStart, Take, Continue, Takes
<1>4. CASE OnPulse
  BY <1>4 DEF OnPulse, Take, Continue, Leave, Takes
<1>5. CASE OnResume
  BY <1>5 DEF OnResume, Take, Continue, Leave, Takes
<1>6. CASE OnSeek
  BY <1>6 DEF OnSeek, Take, Continue, Leave, Takes, TypeOK
<1>7. CASE OnClose
  BY <1>7 DEF OnClose, Take, Leave, Takes
<1>8. CASE OnStatusAcq
  BY <1>8 DEF OnStatusAcq, Take, Continue, Takes, TypeOK
<1>9. CASE BroadcastFrame
  BY <1>9 DEF BroadcastFrame, Plays
<1>10. CASE WriteFrame
  <2> DEFINE x == IF Partial /\ apos' = NA THEN NA - 1 ELSE apos'
  <2>1. apc = "write" /\ apc' = "poll" /\ UNCHANGED cmdQ /\ FrameAck(x)
    BY <1>10 DEF WriteFrame
  <2>2. x \in 0 .. NA /\ x = Tell'
    BY <1>10 DEF WriteFrame, TypeOK, Tell
  <2> HIDE DEF x
  <2>3. CASE GUI
    BY <2>1, <2>2, <2>3 DEF FrameAck, PosSent, Plays
  <2>4. CASE ~GUI
    BY <2>1, <2>4 DEF FrameAck, Plays
  <2> QED BY <2>1, <2>3, <2>4
<1>11. CASE WriteFails
  BY <1>11 DEF WriteFails, Leave, Plays
<1>12. CASE EndOfAudio
  <2>1. apc = "write" /\ apc' # "boot" /\ astate' = "INACTIVE" /\ UNCHANGED cmdQ
    BY <1>12 DEF EndOfAudio, Leave
  <2>2. CASE GUI
    <3>1. FrameAck(Tell) /\ Tell \in 0 .. NA
      BY <1>12, <2>2 DEF EndOfAudio, TypeOK, Tell
    <3> QED BY <2>1, <2>2, <3>1 DEF FrameAck, PosSent, Plays
  <2>3. CASE ~GUI
    BY <1>12, <2>1, <2>3 DEF EndOfAudio, Plays
  <2> QED BY <2>1, <2>2, <2>3
<1>13. CASE AudioExit
  BY <1>13 DEF AudioExit, Exits
<1> QED BY <1>1, <1>2, <1>3, <1>4, <1>5, <1>6, <1>7, <1>8, <1>9, <1>10, <1>11, <1>12, <1>13
        DEF AudioNext
\* They keep the invariant.
LEMMA AudioInv ==
  ASSUME GInv, AudioNext, UNCHANGED gvars
  PROVE  GInv'
<1> USE PlaybackAssumption
<1>1. TypeOK /\ TypeOK'
  BY AudioNextType DEF GInv
<1>2. /\ cmdQ \in Seq(Command) /\ resQ \in Seq(Reply) /\ apc' # "boot"
      /\ UNCHANGED <<gui, total, slider, helper, fetched>>
      /\ Opens \/ Takes \/ Plays \/ Exits
  BY <1>1, AudioNextWindow DEF TypeOK, gvars
<1>3. WindowType' /\ TotalKnown'
  BY <1>2 DEF GInv, WindowType, TotalKnown
<1>4. CASE Opens
  <2>1. cmdQ' = cmdQ /\ Seeks'
    BY <1>4 DEF Opens, GInv, Seeks
  <2>2. CASE resQ' = resQ /\ apc' = "leaving" /\ astate' = astate
    BY <1>1, <1>2, <1>3, <1>4, <2>1, <2>2 DEF Opens, GInv, Loading, NoAnswers, Replies, Latest
  <2>3. CASE apc' = "poll" /\ astate' = "INACTIVE" /\ resQ' = Append(resQ, NumFrame)
    <3>1. NumFrame \in Reply /\ NumFrame.val \in 0 .. NA
      BY DEF NumFrame, Reply
    <3>2. Replies'
      BY <1>2, <2>3, <3>1, PutAtEnd DEF GInv, Replies
    <3>3. GUI
      BY <1>4 DEF Opens, GInv, NoAnswers
    <3>4. Loading'
      <4>1. SUFFICES ASSUME gui = "loading"
                     PROVE  cmdQ = <<>> /\ resQ' = <<NumFrame>> /\ helper = "idle"
        BY <1>2, <2>1, <2>3 DEF Loading
      <4>2. cmdQ = <<>> /\ resQ = <<>> /\ helper = "idle"
        BY <1>4, <4>1 DEF Opens, GInv, Loading
      <4> QED BY <2>3, <4>2
    <3>5. Latest'
      BY <2>3 DEF Latest
    <3> QED BY <1>1, <1>3, <2>1, <3>2, <3>3, <3>4, <3>5 DEF GInv, NoAnswers
  <2> QED BY <1>1, <1>3, <1>4, <2>1, <2>2, <2>3 DEF Opens, GInv
<1>5. CASE Takes
  <2>1. gui # "loading" /\ GUI
    BY <1>5 DEF Takes, GInv, Loading, NoAnswers
  <2>2. Seeks'
    <3>1. \A i \in DOMAIN Tail(cmdQ) : i + 1 \in DOMAIN cmdQ /\ Tail(cmdQ)[i] = cmdQ[i + 1]
      BY <1>2, <1>5, TakeFirst DEF Takes
    <3> QED BY <1>5, <3>1 DEF Takes, GInv, Seeks
  <2>3. Loading' /\ NoAnswers'
    BY <1>2, <2>1 DEF Loading, NoAnswers
  <2>4. Replies' /\ Latest'
    BY <1>5 DEF Takes, GInv, Replies, Latest
  <2> QED BY <1>1, <1>3, <2>2, <2>3, <2>4 DEF GInv
<1>6. CASE Plays
  <2>1. gui # "loading" /\ GUI
    BY <1>6 DEF Plays, GInv, Loading, NoAnswers
  <2>2. Seeks'
    BY <1>6 DEF Plays, GInv, Seeks
  <2>3. Loading' /\ NoAnswers'
    BY <1>2, <2>1 DEF Loading, NoAnswers
  <2>4. CASE resQ' = resQ /\ apc' # "poll"
    BY <1>1, <1>3, <2>2, <2>3, <2>4 DEF GInv, Replies, Latest
  <2>5. CASE \E x \in 0 .. NA : PosSent(x) /\ (astate' = "ACTIVE" => x = Tell')
    <3>1. PICK x \in 0 .. NA : PosSent(x) /\ (astate' = "ACTIVE" => x = Tell')
      BY <2>5
    <3> DEFINE r == [what |-> "pos", val |-> x]
    <3>2. r \in Reply /\ r.val \in 0 .. NA /\ resQ' = Append(resQ, r)
      BY <3>1 DEF Reply, PosSent
    <3>3. r = [what |-> "pos", val |-> x]
      OBVIOUS
    <3> HIDE DEF r
    <3>4. Replies'
      BY <1>2, <3>2, PutAtEnd DEF GInv, Replies
    <3>5. resQ' # <<>> /\ resQ'[Len(resQ')] = r
      BY <1>2, <3>2, PutAtEnd
    <3>6. Latest'
      BY <3>1, <3>3, <3>5 DEF Latest
    <3> QED BY <1>1, <1>3, <2>2, <2>3, <3>4, <3>6 DEF GInv
  <2> QED BY <1>6, <2>1, <2>4, <2>5 DEF Plays
<1>7. CASE Exits
  BY <1>1, <1>2, <1>3, <1>7 DEF Exits, GInv, Seeks, Loading, NoAnswers, Replies, Latest
<1> QED BY <1>2, <1>4, <1>5, <1>6, <1>7

\* A vibration process touches nothing of the window's.
LEMMA VibInv ==
  ASSUME GInv, NEW v \in Vib, VibNext(v), UNCHANGED gvars
  PROVE  GInv'
<1>1. TypeOK'
  BY VibNextType DEF GInv
<1>2. UNCHANGED <<cmdQ, resQ, apc, astate, apos, gui, total, slider, helper, fetched>>
  BY DEF VibNext, VibStep, OrphanStep, avars, gvars
<1> QED BY <1>1, <1>2 DEF GInv, WindowType, Seeks, TotalKnown, Loading, NoAnswers, Replies, Latest, Tell
-----------------------------------------------------------------------------
(***************************************************************************)
(* The main thread, the slider thread and the user.                        *)
(***************************************************************************)
\* What the client's part of the state is made of, besides cmdQ and resQ.
LEMMA ProcessesUntouched ==
  ASSUME GInv, UNCHANGED <<vibQ, avars, vvars, told>>,
         cmdQ' \in Seq(Command), resQ' \in Seq(Reply), sent' \in 0 .. MaxCmd
  PROVE  TypeOK' /\ UNCHANGED <<apc, astate, apos>> /\ Tell' = Tell
BY DEF GInv, TypeOK, avars, vvars, Tell

\* A click puts a command that asks for nothing outside the recording.
LEMMA ClickInv ==
  ASSUME GInv, NEW c \in Command, c.head = "SEEK" => c.pos \in 0 .. NA, Click(c),
         slider' \in 0 .. NA, gui' \in {gui, "started"}
  PROVE  GInv'
<1>1. /\ gui \in {"ready", "started", "joined"} /\ cmdQ' = Append(cmdQ, c) /\ sent' \in 0 .. MaxCmd
      /\ cmdQ \in Seq(Command) /\ resQ \in Seq(Reply)
      /\ UNCHANGED <<total, helper, fetched, resQ, vibQ, avars, vvars, told>>
  BY PlaybackAssumption DEF Click, Put, InEventLoop, GInv, TypeOK
<1>2. cmdQ' \in Seq(Command)
  BY <1>1, PutAtEnd
<1>3. TypeOK' /\ UNCHANGED <<apc, astate, apos>> /\ Tell' = Tell
  BY <1>1, <1>2, ProcessesUntouched
<1>4. gui' \in {"ready", "started", "joined"}
  BY <1>1
<1>5. Seeks'
  BY <1>1, PutAtEnd DEF GInv, Seeks
<1>6. WindowType' /\ TotalKnown' /\ Loading' /\ NoAnswers' /\ Replies' /\ Latest'
  BY <1>1, <1>3, <1>4 DEF GInv, WindowType, TotalKnown, Loading, NoAnswers, Replies, Latest
<1> QED BY <1>3, <1>5, <1>6 DEF GInv

\* The buttons, the slider and the close handler keep the invariant.
LEMMA UserInv ==
  ASSUME GInv, User
  PROVE  GInv'
<1> USE PlaybackAssumption, VibPlayAssumption
<1>a. /\ slider \in 0 .. NA /\ total \in {1, NA} /\ NA \in Nat /\ NA >= 1
      /\ gui # "loading" => total = NA
  BY DEF GInv, WindowType, TotalKnown
<1>1. ASSUME NEW h \in {"START", "PULSE", "RESUME"}
      PROVE  Cmd(h) \in Command /\ Cmd(h).head # "SEEK"
  BY <1>1 DEF Cmd, Command
<1>2. ASSUME NEW p \in 0 .. NA, SeekTarget(p)
      PROVE  GInv'
  <2>1. [head |-> "SEEK", pos |-> p] \in Command
    BY DEF Command
  <2> QED BY <1>2, <2>1, ClickInv DEF SeekTarget
<1>3. CASE StartButton
  BY <1>1, <1>3, <1>a, ClickInv DEF StartButton
<1>4. CASE PulseButton
  BY <1>1, <1>4, <1>a, ClickInv DEF PulseButton
<1>5. CASE ResumeButton
  BY <1>1, <1>5, <1>a, ClickInv DEF ResumeButton
<1>6. CASE ForwardButton
  <2>1. (IF slider + Jump < total THEN slider + Jump ELSE total) \in 0 .. NA
    BY <1>a
  <2> QED BY <1>2, <1>6, <2>1 DEF ForwardButton
<1>7. CASE BackwardButton
  <2>1. (IF slider > Jump THEN slider - Jump ELSE 0) \in 0 .. NA
    BY <1>a
  <2> QED BY <1>2, <1>7, <2>1 DEF BackwardButton
<1>8. CASE SliderRelease
  <2>1. PICK p \in 0 .. total : SeekTarget(p)
    BY <1>8 DEF SliderRelease
  <2>2. p \in 0 .. NA
    BY <1>a
  <2> QED BY <1>2, <2>1, <2>2
<1>9. CASE CloseStream
  <2>1. Cmd("CLOSE") \in Command /\ Cmd("CLOSE").head # "SEEK"
    BY DEF Cmd, Command
  <2>2. /\ gui \in {"ready", "started"} /\ gui' = "joinAudio" /\ cmdQ' = Append(cmdQ, Cmd("CLOSE"))
        /\ UNCHANGED <<total, slider, helper, fetched, resQ, vibQ, avars, vvars, told, sent>>
        /\ cmdQ \in Seq(Command) /\ resQ \in Seq(Reply) /\ sent \in 0 .. MaxCmd
    BY <1>9 DEF CloseStream, GInv, TypeOK
  <2>3. cmdQ' \in Seq(Command)
    BY <2>1, <2>2, PutAtEnd
  <2>4. TypeOK' /\ UNCHANGED <<apc, astate, apos>> /\ Tell' = Tell
    BY <2>2, <2>3, ProcessesUntouched
  <2>5. Seeks'
    BY <2>1, <2>2, PutAtEnd DEF GInv, Seeks
  <2>6. WindowType' /\ TotalKnown' /\ Loading' /\ NoAnswers' /\ Replies' /\ Latest'
    BY <2>2, <2>4 DEF GInv, WindowType, TotalKnown, Loading, NoAnswers, Replies, Latest
  <2> QED BY <2>4, <2>5, <2>6 DEF GInv
<1> QED BY <1>3, <1>4, <1>5, <1>6, <1>7, <1>8, <1>9 DEF User
\* Taking an answer leaves the answers behind it; the last one stays the last.
LEMMA AnswerTaken ==
  ASSUME GInv, resQ # <<>>, resQ' = Tail(resQ),
         UNCHANGED <<cmdQ, vibQ, avars, vvars, told, sent>>
  PROVE  /\ TypeOK' /\ Replies' /\ Head(resQ).val \in 0 .. NA
         /\ UNCHANGED <<apc, astate, apos>> /\ Tell' = Tell
         /\ IF resQ' = <<>> THEN Head(resQ) = resQ[Len(resQ)]
                            ELSE resQ'[Len(resQ')] = resQ[Len(resQ)]
<1>1. resQ \in Seq(Reply) /\ cmdQ \in Seq(Command) /\ sent \in 0 .. MaxCmd
  BY DEF GInv, TypeOK
<1>2. /\ resQ' \in Seq(Reply) /\ 1 \in DOMAIN resQ /\ Head(resQ) = resQ[1]
      /\ \A i \in DOMAIN resQ' : i + 1 \in DOMAIN resQ /\ resQ'[i] = resQ[i + 1]
      /\ IF resQ' = <<>> THEN Head(resQ) = resQ[Len(resQ)]
                         ELSE resQ'[Len(resQ')] = resQ[Len(resQ)]
  BY <1>1, TakeFirst
<1>3. Replies' /\ Head(resQ).val \in 0 .. NA
  BY <1>2 DEF GInv, Replies
<1>4. TypeOK' /\ UNCHANGED <<apc, astate, apos>> /\ Tell' = Tell
  BY <1>1, <1>2, ProcessesUntouched
<1> QED BY <1>2, <1>3, <1>4

\* The main thread and the slider thread keep the invariant.
LEMMA GetNumFrameInv ==
  ASSUME GInv, GetNumFrame
  PROVE  GInv'
<1>1. /\ TypeOK' /\ Replies' /\ UNCHANGED <<apc, astate, apos>> /\ Tell' = Tell
  BY AnswerTaken DEF GetNumFrame
<1>2. /\ gui = "loading" /\ gui' = "ready" /\ helper' = "get" /\ total' = Head(resQ).val
      /\ UNCHANGED <<slider, fetched, cmdQ>> /\ resQ # <<>>
  BY DEF GetNumFrame
<1>3. resQ = <<NumFrame>> /\ astate = "INACTIVE" /\ GUI
  BY <1>2 DEF GInv, Loading, NoAnswers
<1>4. total' = NA
  BY <1>2, <1>3 DEF NumFrame
<1> QED BY <1>1, <1>2, <1>3, <1>4
        DEF GInv, WindowType, Seeks, TotalKnown, Loading, NoAnswers, Latest

\* A step of the slider's thread, which takes the answers, keeps the invariant.
LEMMA HelperInv ==
  ASSUME GInv, Helper
  PROVE  GInv'
<1>1. CASE HelperGet
  <2>1. /\ TypeOK' /\ Replies' /\ Head(resQ).val \in 0 .. NA
        /\ UNCHANGED <<apc, astate, apos>> /\ Tell' = Tell
        /\ IF resQ' = <<>> THEN Head(resQ) = resQ[Len(resQ)]
                           ELSE resQ'[Len(resQ')] = resQ[Len(resQ)]
    BY <1>1, AnswerTaken DEF HelperGet
  <2>2. /\ helper = "get" /\ resQ # <<>> /\ UNCHANGED <<gui, total, slider, cmdQ>>
        /\ IF Head(resQ).what = "pos" THEN helper' = "set" /\ fetched' = Head(resQ).val
                                      ELSE UNCHANGED <<helper, fetched>>
    BY <1>1 DEF HelperGet
  <2>3. gui # "loading" /\ GUI
    BY <2>2 DEF GInv, Loading, NoAnswers
  <2>4. WindowType' /\ Seeks' /\ TotalKnown' /\ Loading' /\ NoAnswers'
    BY <2>1, <2>2, <2>3 DEF GInv, WindowType, Seeks, TotalKnown, Loading, NoAnswers
  <2>5. Latest'
    <3> SUFFICES ASSUME apc = "poll", astate = "ACTIVE"
                 PROVE  IF resQ' = <<>> THEN fetched' = Tell
                                        ELSE resQ'[Len(resQ')] = [what |-> "pos", val |-> Tell]
      BY <2>1 DEF Latest
    <3>1. resQ[Len(resQ)] = [what |-> "pos", val |-> Tell]
      BY <2>2 DEF GInv, Latest
    <3> QED BY <2>1, <2>2, <3>1
  <2> QED BY <2>1, <2>4, <2>5 DEF GInv
<1>2. ASSUME UNCHANGED vars, UNCHANGED <<gui, total, fetched>>, helper # "idle" \/ helper' = helper,
             helper' \in {"idle", "get", "set", "done"}, slider' \in 0 .. NA
      PROVE  GInv'
  <2>1. UNCHANGED <<cmdQ, resQ, vibQ, avars, vvars, told, sent>>
    BY <1>2 DEF vars
  <2>2. cmdQ' \in Seq(Command) /\ resQ' \in Seq(Reply) /\ sent' \in 0 .. MaxCmd
    BY <2>1 DEF GInv, TypeOK
  <2>3. TypeOK' /\ UNCHANGED <<apc, astate, apos>> /\ Tell' = Tell
    BY <2>1, <2>2, ProcessesUntouched
  <2>4. gui = "loading" => helper = "idle"
    BY DEF GInv, Loading
  <2> QED BY <1>2, <2>1, <2>3, <2>4
          DEF GInv, WindowType, Seeks, TotalKnown, Loading, NoAnswers, Replies, Latest
<1>3. CASE HelperSet
  BY <1>2, <1>3 DEF HelperSet, GInv, WindowType
<1>4. CASE HelperExit
  BY <1>2, <1>4 DEF HelperExit, GInv, WindowType
<1> QED BY <1>1, <1>3, <1>4 DEF Helper

\* The joins of Stop keep the invariant.
LEMMA JoinInv ==
  ASSUME GInv, JoinAudio \/ JoinVib \/ JoinSlider
  PROVE  GInv'
<1>1. /\ UNCHANGED <<total, slider, helper, fetched>> /\ UNCHANGED vars /\ gui # "loading"
      /\ gui' \in {"joinVib", "joinSlider", "joined"}
  BY DEF JoinAudio, JoinVib, JoinSlider
<1>2. UNCHANGED <<cmdQ, resQ, vibQ, avars, vvars, told, sent>>
  BY <1>1 DEF vars
<1>3. cmdQ' \in Seq(Command) /\ resQ' \in Seq(Reply) /\ sent' \in 0 .. MaxCmd
  BY <1>2 DEF GInv, TypeOK
<1>4. TypeOK' /\ UNCHANGED <<apc, astate, apos>> /\ Tell' = Tell
  BY <1>2, <1>3, ProcessesUntouched
<1> QED BY <1>1, <1>2, <1>4
        DEF GInv, WindowType, Seeks, TotalKnown, Loading, NoAnswers, Replies, Latest

\* Nothing was asked or answered yet when the window opens.
LEMMA InitWindow == GInit => GInv
<1> SUFFICES ASSUME GInit
             PROVE  GInv
  OBVIOUS
<1>1. TypeOK
  BY InitType DEF GInit
<1>2. cmdQ = <<>> /\ resQ = <<>> /\ astate = "INACTIVE" /\ apc = IF GUI THEN "boot" ELSE "poll"
  BY DEF GInit, Init
<1> QED BY <1>1, <1>2, PlaybackAssumption
        DEF GInit, GInv, WindowType, Seeks, TotalKnown, Loading, NoAnswers, Replies, Latest

\* The invariant holds in every behaviour of the window and its processes.
LEMMA WindowInvariant == GSpec => []GInv
<1>1. GInv /\ [GNext]_allvars => GInv'
  <2> SUFFICES ASSUME GInv, [GNext]_allvars
               PROVE  GInv'
    OBVIOUS
  <2>1. CASE User
    BY <2>1, UserInv
  <2>2. CASE MainThread
    BY <2>2, GetNumFrameInv, JoinInv DEF MainThread
  <2>3. CASE Helper
    BY <2>3, HelperInv
  <2>4. CASE Processes
    BY <2>4, AudioInv, VibInv DEF Processes, ProcNext
  <2>5. CASE UNCHANGED allvars
    <3>1. UNCHANGED vars /\ UNCHANGED <<gui, total, slider, helper, fetched>>
      BY <2>5 DEF allvars, gvars
    <3>2. UNCHANGED <<cmdQ, resQ, vibQ, avars, vvars, told, sent>>
      BY <3>1 DEF vars
    <3>3. cmdQ' \in Seq(Command) /\ resQ' \in Seq(Reply) /\ sent' \in 0 .. MaxCmd
      BY <3>2 DEF GInv, TypeOK
    <3>4. TypeOK' /\ UNCHANGED <<apc, astate, apos>> /\ Tell' = Tell
      BY <3>2, <3>3, ProcessesUntouched
    <3> QED BY <3>1, <3>2, <3>4
            DEF GInv, WindowType, Seeks, TotalKnown, Loading, NoAnswers, Replies, Latest
  <2> QED BY <2>1, <2>2, <2>3, <2>4, <2>5 DEF GNext
<1> QED BY InitWindow, <1>1, PTL DEF GSpec

\* Whatever is clicked, dragged and acknowledged, the variables keep their types
\* and no command asks for a position outside the recording.
THEOREM WindowTypeCorrect == GSpec => []GTypeOK
<1>1. GInv => GTypeOK
  BY DEF GInv, WindowType, Seeks, GTypeOK
<1> QED BY WindowInvariant, <1>1, PTL

\* From the moment the window is shown it knows the length of the recording.
THEOREM LengthKnown == GSpec => []TotalKnown
<1>1. GInv => TotalKnown
  BY DEF GInv
<1> QED BY WindowInvariant, <1>1, PTL

\* A slider thread that has taken every answer is at the audio's position.
THEOREM SliderIsCurrent == GSpec => []ShownIsCurrent
<1>1. GInv => ShownIsCurrent
  BY DEF GInv, Latest, ShownIsCurrent
<1> QED BY WindowInvariant, <1>1, PTL
-----------------------------------------------------------------------------
(***************************************************************************)
(* The processes under the window.  The window is another client than the  *)
(* script of Playback: it never sends INIT, it jumps and closes when the   *)
(* user says so, and clicks on after the end.  What Playback promises      *)
(* holds with it too, since the audio is open whenever a command of the    *)
(* window is taken.                                                        *)
(***************************************************************************)
OpenAtPoll == GUI /\ apc = "poll" => device # "none"

WInv == GInv /\ IInv /\ CloseInv /\ PlaysActive /\ OpenAtPoll

\* The audio process comes to its loop with the device open.
LEMMA AudioNextOpens ==
  ASSUME TypeOK, OpenFirst, OpenAtPoll, AudioNext
  PROVE  OpenAtPoll'
<1>1. CASE AutoInit \/ OnInit
  BY <1>1 DEF AutoInit, OnInit, OpenAudio, Leave, OpenAtPoll
<1>2. CASE OnStart \/ OnPulse \/ OnResume
  BY <1>2 DEF OnStart, OnPulse, OnResume, Continue, Leave, OpenAtPoll
<1>3. CASE OnSeek \/ OnClose
  BY <1>3 DEF OnSeek, OnClose, Leave, OpenAtPoll
<1>4. CASE OnStatusAcq
  BY <1>4 DEF OnStatusAcq, Take, OpenAtPoll
<1>5. CASE BroadcastFrame
  BY <1>5 DEF BroadcastFrame, OpenAtPoll
<1>6. CASE WriteFrame \/ WriteFails \/ EndOfAudio
  BY <1>6 DEF WriteFrame, WriteFails, EndOfAudio, Leave, OpenAtPoll
<1>7. CASE AudioExit
  BY <1>7 DEF AudioExit, OpenAtPoll
<1> QED BY <1>1, <1>2, <1>3, <1>4, <1>5, <1>6, <1>7 DEF AudioNext

\* The window itself leaves the processes and what they were told alone; when
\* it puts a command, the audio is open.
LEMMA WindowQuiet ==
  ASSUME GInv, OpenAtPoll, [GNext]_allvars, ~Processes
  PROVE  /\ UNCHANGED <<vibQ, avars, vvars, told>>
         /\ UNCHANGED <<cmdQ, sent>> \/ (GUI /\ gui # "loading")
<1>1. CASE User
  <2>1. UNCHANGED <<vibQ, avars, vvars, told>> /\ gui # "loading"
    BY <1>1 DEF User, StartButton, PulseButton, ResumeButton, ForwardButton, BackwardButton,
                SliderRelease, SeekTarget, Click, InEventLoop, CloseStream
  <2> QED BY <2>1 DEF GInv, NoAnswers
<1>2. CASE MainThread
  BY <1>2 DEF MainThread, GetNumFrame, JoinAudio, JoinVib, JoinSlider, vars
<1>3. CASE Helper
  BY <1>3 DEF Helper, HelperGet, HelperSet, HelperExit, vars
<1>4. CASE UNCHANGED allvars
  BY <1>4 DEF allvars, vars
<1> QED BY <1>1, <1>2, <1>3, <1>4 DEF GNext

\* The window and its processes keep the invariants of Playback.
LEMMA WInvNext == WInv /\ GInv' /\ [GNext]_allvars => WInv' /\ [Session!Next]_Session!vars
<1> SUFFICES ASSUME WInv, GInv', [GNext]_allvars
             PROVE  WInv' /\ [Session!Next]_Session!vars
  OBVIOUS
<1>1. /\ TypeOK /\ TypeOK' /\ GInv /\ IInv /\ CloseInv /\ PlaysActive /\ OpenAtPoll
      /\ ChainInv /\ InitFirst /\ OpenFirst /\ ToldIsPos
  BY DEF WInv, GInv, IInv
<1>2. CASE Processes
  <2>1. CASE AudioNext
    <3>1. ChainInv' /\ InitFirst' /\ OpenFirst' /\ ToldIsPos'
      BY <1>1, <2>1, AudioNextInv
    <3>2. (aexit # "none" <=> Over)' /\ ClosedOver' /\ CloseReachesAll'
      BY <1>1, <2>1, AudioNextClose
    <3>3. [Session!Next]_Session!vars /\ PlaysActive'
      BY <1>1, <2>1, AudioNextSession DEF SessionInv
    <3>4. OpenAtPoll'
      BY <1>1, <2>1, AudioNextOpens
    <3> QED BY <1>1, <3>1, <3>2, <3>3, <3>4 DEF WInv, IInv, CloseInv
  <2>2. ASSUME NEW v \in Vib, VibNext(v)
        PROVE  WInv' /\ [Session!Next]_Session!vars
    <3>1. ChainInv' /\ InitFirst'
      BY <1>1, <2>2, VibStepInv, OrphanStepInv DEF VibNext
    <3>2. (aexit # "none" <=> Over)' /\ ClosedOver' /\ CloseReachesAll'
      BY <1>1, <2>2, VibStepClose, OrphanStepClose DEF VibNext
    <3>3. UNCHANGED <<cmdQ, apc, aexit, astate, apos, device, told, sent>>
      BY <2>2 DEF VibNext, VibStep, OrphanStep, avars
    <3>4. OpenFirst' /\ ToldIsPos' /\ PlaysActive' /\ OpenAtPoll' /\ UNCHANGED SessionState
      BY <1>1, <3>3 DEF OpenFirst, ToldIsPos, Looping, PlaysActive, Over, OpenAtPoll, SessionState
    <3> QED BY <1>1, <3>1, <3>2, <3>4 DEF WInv, IInv, CloseInv, SessionState, Phase, Session!vars
  <2> QED BY <1>2, <2>1, <2>2 DEF Processes, ProcNext
<1>3. CASE ~Processes
  <2>1. /\ UNCHANGED <<vibQ, avars, vvars, told>>
        /\ UNCHANGED <<cmdQ, sent>> \/ (GUI /\ gui # "loading")
    BY <1>1, <1>3, WindowQuiet
  <2>2. UNCHANGED <<apc, aexit, astate, apos, device, vpc, vstate, vpos>>
    BY <2>1 DEF avars, vvars
  <2>3. ChainInv' /\ InitFirst'
    BY <1>1, <2>1, <2>2, QuietStep DEF NoBroadcast
  <2>4. (aexit # "none" <=> Over)' /\ ClosedOver' /\ CloseReachesAll'
    BY <1>1, <2>1, QuietClose
  <2>5. OpenFirst'
    BY <1>1, <2>1, <2>2 DEF OpenFirst, OpenAtPoll
  <2>6. ToldIsPos' /\ PlaysActive' /\ OpenAtPoll' /\ UNCHANGED SessionState
    BY <1>1, <2>1, <2>2 DEF ToldIsPos, Looping, PlaysActive, Over, OpenAtPoll, SessionState
  <2> QED BY <1>1, <2>3, <2>4, <2>5, <2>6 DEF WInv, IInv, CloseInv, SessionState, Phase, Session!vars
<1> QED BY <1>2, <1>3

\* All of it holds initially.
LEMMA InitWInv == GInit => WInv /\ Session!Init
<1> SUFFICES ASSUME GInit
             PROVE  WInv /\ Session!Init
  OBVIOUS
<1>1. Init
  BY DEF GInit
<1>2. OpenAtPoll /\ PlaysActive
  BY <1>1 DEF Init, OpenAtPoll, PlaysActive, Over
<1>3. Session!Init
  BY <1>1, PlaybackAssumption DEF Init, Session!Init, Phase
<1> QED BY <1>1, <1>2, <1>3, InitWindow, InitIInv, InitClose DEF WInv

\* Under the window too, every behaviour keeps the invariants of Playback.
LEMMA WInvInvariant == GSpec => []WInv
BY WindowInvariant, InitWInv, WInvNext, PTL DEF GSpec

\* With the window as their client, whatever is clicked and dragged: a vibration
\* process that has caught up is at the audio's frame.
THEOREM WindowAlignment == GSpec => []Aligned
<1>1. WInv => Aligned
  BY ToldIsWhereTheyAre DEF WInv
<1> QED BY WInvInvariant, <1>1, PTL

\* Also while events are queued: a vibration process is behind the audio by the
\* frames it has not read, unless an INIT or a seek is among them.
THEOREM WindowLag == GSpec => []LagIsQueued
<1>1. WInv => LagIsQueued
  BY LagCounted DEF WInv
<1> QED BY WInvInvariant, <1>1, PTL

\* Whatever is clicked, also after the end: nothing is told after CLOSE, and a
\* CLOSE reaches every vibration process when the audio closes.
THEOREM WindowClosesAll == GSpec => [](CloseIsLast /\ CloseReachesAll)
<1>1. WInv => CloseIsLast /\ CloseReachesAll
  BY ClosedIsLast DEF WInv, CloseInv
<1> QED BY WInvInvariant, <1>1, PTL

\* The audio process under the window implements a playback session.
THEOREM WindowImplementsSession == GSpec => SessionSpec
BY WindowInvariant, WInvInvariant, InitWInv, WInvNext, PTL DEF GSpec, SessionSpec, Session!Spec
=============================================================================
