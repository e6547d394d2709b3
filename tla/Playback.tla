------------------------------ MODULE Playback ------------------------------
(***************************************************************************)
(* The processes of vib_music: one AudioProcess that plays a wave file and *)
(* any number of VibrationProcesses that play a vibration stream beside    *)
(* it.  They share nothing but multiprocessing queues: the client's        *)
(* commands (cmdQ) and the audio's answers (resQ), and one queue per call  *)
(* of attach_vibration_proc (vibQ), on which the audio process broadcasts. *)
(*                                                                         *)
(* An action is a step of one process between two blocking calls.  Taking  *)
(* a command, broadcasting it and handling it is one step; broadcasting    *)
(* NEXT_FRAME and playing the frame are two, since playing a frame blocks  *)
(* for the frame's duration and the vibration processes run meanwhile.     *)
(*                                                                         *)
(* Each broadcast event carries a ghost field "at", the position a reader  *)
(* is at once it has handled the event; "told" is the last one sent.  No   *)
(* guard reads them.                                                       *)
(***************************************************************************)
EXTENDS Integers, Sequences, FiniteSets

CONSTANTS
  Vib,        \* the vibration processes
  Attached,   \* the calls of attach_vibration_proc, in order: a sequence of Vib
  NA,         \* frames of the audio stream: ceiling of samples / len_frame
  NV,         \* frames of each vibration stream
  Partial,    \* the last audio frame is shorter than len_frame
  GUI,        \* enable_GUI_mode was called: auto init, manual exit, frame acks
  Faults,     \* opening a file or a device, and writing to a device, may fail
  PipeCap,    \* events the pipe under a queue holds before its feeder blocks
  SeekTo,     \* positions the client seeks to
  MaxCmd      \* bound: commands the client sends

ASSUME PlaybackAssumption ==
  /\ Attached \in Seq(Vib)
  /\ NA \in Nat \ {0}
  /\ NV \in Nat
  /\ NA <= NV
  /\ Partial \in BOOLEAN /\ GUI \in BOOLEAN /\ Faults \in BOOLEAN
  /\ PipeCap \in Nat
  /\ SeekTo \subseteq Nat
  /\ MaxCmd \in Nat

Slot == DOMAIN Attached     \* one queue per attachment

\* set_event_queues overwrites the queues of a process attached before: it
\* reads the queue of its last attachment only.
ReadsSlot(v, s) == Attached[s] = v /\ \A t \in Slot : Attached[t] = v => t <= s
IsAttached(v)   == \E s \in Slot : ReadsSlot(v, s)
MySlot(v)       == CHOOSE s \in Slot : ReadsSlot(v, s)

Past == NV + 1              \* ghost position of a stream asked for more than it has

Command == [head : {"INIT", "START", "PULSE", "RESUME", "SEEK", "CLOSE", "STATUS_ACQ"},
            pos : Nat]
Event   == [head : {"INIT", "NEXT_FRAME", "SEEK", "CLOSE", "STATUS_ACQ"},
            pos : Nat, at : Nat]
Reply   == [what : {"num_frame", "pos"}, val : Nat]

Cmd(h) == [head |-> h, pos |-> 0]

VARIABLES
  cmdQ, resQ, vibQ,
  apc,        \* where AudioProcess.run is: "boot", "poll", "frame", "write",
              \* "leaving" (run is over, its queues are flushed), "dead"
  aexit,      \* why run ended: "none", "closed", "ended", "broke", "raised"
  astate,     \* the audio handler's stream_state
  apos,       \* frames read from the wave file
  device,     \* the sound device: "none", "running", "stopped", "closed"
  vpc,        \* VibrationProcess.run: "running", "closed", "exhausted", "failed"
  vstate, vpos,
  told,       \* ghost: the position last broadcast
  sent        \* commands sent, for the bound

avars == <<apc, aexit, astate, apos, device>>
vvars == <<vpc, vstate, vpos>>
vars  == <<cmdQ, resQ, vibQ, avars, vvars, told, sent>>
-----------------------------------------------------------------------------
(***************************************************************************)
(* The streams.  WaveAudioStream counts samples, so a short last frame     *)
(* makes tell() fall behind and setpos(NA) leave the file.                 *)
(***************************************************************************)
Tell       == IF Partial /\ apos = NA THEN NA - 1 ELSE apos
InRange(p) == IF Partial THEN p < NA ELSE p <= NA
Clamp(p)   == IF p < NV THEN p ELSE NV

\* The position at which a live vibration stream is after an event.
After(p, h, q) ==
  CASE h = "INIT"       -> 0
    [] h = "SEEK"       -> Clamp(q)
    [] h = "NEXT_FRAME" -> IF p < Past THEN p + 1 ELSE Past
    [] OTHER            -> p

\* Mutant: the first queue is not served.
BroadcastShort(h, p) ==
  /\ told' = After(told, h, p)
  /\ vibQ' = [s \in Slot |->
       IF s = 1 /\ h = "SEEK" THEN vibQ[s]
       ELSE Append(vibQ[s], [head |-> h, pos |-> p, at |-> told'])]

Broadcast(h, p) ==
  /\ told' = After(told, h, p)
  /\ vibQ' = [s \in Slot |-> Append(vibQ[s], [head |-> h, pos |-> p, at |-> told'])]

NoBroadcast == UNCHANGED <<vibQ, told>>

\* run ends; the process exits once its queues are flushed.
Leave(why) == apc' = "leaving" /\ aexit' = why

\* Back to the loop: STEP 3 follows at once if the handler is active.
Continue(active) ==
  /\ apc' = IF active = "ACTIVE" THEN "frame" ELSE "poll"
  /\ UNCHANGED aexit

\* on_init opens the file and the device, or raises where one cannot be opened.
OpenAudio ==
  \/ /\ astate' = "INACTIVE" /\ apos' = 0 /\ device' = "running"
     /\ apc' = "poll" /\ UNCHANGED aexit
  \/ /\ Faults
     /\ Leave("raised") /\ UNCHANGED <<astate, apos, device>>
-----------------------------------------------------------------------------
(***************************************************************************)
(* AudioProcess.run                                                        *)
(***************************************************************************)
\* Mutant: getnframes rounds down.
AutoInitFloor ==
  /\ apc = "boot"
  /\ Broadcast("INIT", 0)
  /\ OpenAudio
  /\ resQ' = IF apc' = "poll"
             THEN Append(resQ, [what |-> "num_frame", val |-> IF Partial THEN NA - 1 ELSE NA])
             ELSE resQ
  /\ UNCHANGED <<cmdQ, vvars, sent>>

AutoInit ==
  /\ apc = "boot"
  /\ Broadcast("INIT", 0)
  /\ OpenAudio
  /\ resQ' = IF apc' = "poll" THEN Append(resQ, [what |-> "num_frame", val |-> NA]) ELSE resQ
  /\ UNCHANGED <<cmdQ, vvars, sent>>

\* STEP 1: get() returns the oldest command.  When the handler is inactive it
\* blocks until there is one.
Take(h) ==
  /\ apc = "poll" /\ cmdQ # <<>> /\ Head(cmdQ).head = h
  /\ cmdQ' = Tail(cmdQ)
  /\ UNCHANGED <<resQ, vvars, sent>>

OnInit == Take("INIT") /\ Broadcast("INIT", 0) /\ OpenAudio

OnStart ==
  /\ Take("START")
  /\ NoBroadcast
  /\ astate' = "ACTIVE" /\ Continue("ACTIVE")
  /\ UNCHANGED <<apos, device>>

OnPulse ==
  /\ Take("PULSE")
  /\ NoBroadcast
  /\ astate' = "INACTIVE"
  /\ IF device = "none" THEN Leave("raised") /\ UNCHANGED device
                        ELSE Continue("INACTIVE") /\ device' = "stopped"
  /\ UNCHANGED apos

\* A resume is broadcast as a seek to where the audio is.
OnResume ==
  /\ Take("RESUME")
  /\ IF device = "none"
     THEN NoBroadcast /\ Leave("raised") /\ UNCHANGED <<astate, device>>
     ELSE /\ Broadcast("SEEK", Tell)
          /\ astate' = "ACTIVE" /\ device' = "running" /\ Continue("ACTIVE")
  /\ UNCHANGED apos

\* Mutant: a seek is not broadcast.
OnSeekSilent ==
  /\ Take("SEEK")
  /\ NoBroadcast
  /\ IF device # "none" /\ InRange(Head(cmdQ).pos)
     THEN apos' = Head(cmdQ).pos /\ Continue(astate)
     ELSE Leave("raised") /\ UNCHANGED apos
  /\ UNCHANGED <<astate, device>>

OnSeek ==
  /\ Take("SEEK")
  /\ LET p == Head(cmdQ).pos IN
     /\ Broadcast("SEEK", p)
     /\ IF device # "none" /\ InRange(p)
        THEN apos' = p /\ Continue(astate)
        ELSE Leave("raised") /\ UNCHANGED apos
  /\ UNCHANGED <<astate, device>>

OnClose ==
  /\ Take("CLOSE")
  /\ Broadcast("CLOSE", 0)
  /\ astate' = "INACTIVE"
  /\ IF device = "none" THEN Leave("raised") /\ UNCHANGED device
                        ELSE Leave("closed") /\ device' = "closed"
  /\ UNCHANGED apos

\* collect_recvs iterates over the messages received so far, of which there
\* are never any: no answer is collected and none is put.
OnStatusAcq ==
  /\ Take("STATUS_ACQ")
  /\ Broadcast("STATUS_ACQ", 0)
  /\ Continue(astate)
  /\ UNCHANGED <<astate, apos, device>>

\* STEP 3: NEXT_FRAME is broadcast before the audio reads its own frame.
BroadcastFrame ==
  /\ \/ apc = "frame"
     \/ apc = "poll" /\ astate = "ACTIVE" /\ cmdQ = <<>>
  /\ Broadcast("NEXT_FRAME", 0)
  /\ apc' = "write"
  /\ UNCHANGED <<cmdQ, resQ, vvars, sent, aexit, astate, apos, device>>

\* Mutant: the position is taken before the frame is read.
FrameAckBefore(p) == resQ' = IF GUI THEN Append(resQ, [what |-> "pos", val |-> apos]) ELSE resQ

FrameAck(p) == resQ' = IF GUI THEN Append(resQ, [what |-> "pos", val |-> p]) ELSE resQ

\* Mutant: the end of the file is noticed one frame late.
WriteFrameLate ==
  /\ apc = "write" /\ apos <= NA /\ device = "running"
  /\ apos' = apos + 1
  /\ FrameAck(apos')
  /\ apc' = "poll"
  /\ NoBroadcast
  /\ UNCHANGED <<cmdQ, vvars, sent, aexit, astate, device>>

WriteFrame ==
  /\ apc = "write" /\ apos < NA /\ device = "running"
  /\ apos' = apos + 1
  /\ FrameAck(IF Partial /\ apos' = NA THEN NA - 1 ELSE apos')
  /\ apc' = "poll"
  /\ NoBroadcast
  /\ UNCHANGED <<cmdQ, vvars, sent, aexit, astate, device>>

\* Mutant: a playing error pauses the audio and the loop goes on.
WriteFailsGoesOn ==
  /\ apc = "write" /\ apos < NA /\ Faults
  /\ apos' = apos + 1
  /\ apc' = "poll" /\ astate' = "INACTIVE"
  /\ NoBroadcast
  /\ UNCHANGED <<cmdQ, resQ, vvars, sent, aexit, device>>

\* break 3: the file is not open, or writing the frame that was read raises,
\* as it always does on a stopped device.  STEP 4 closes the handler.
WriteFails ==
  /\ apc = "write" /\ (device = "running" => Faults)
  /\ device = "none" \/ apos < NA
  /\ apos' = IF device = "none" THEN apos ELSE apos + 1
  /\ Leave("broke")
  /\ astate' = "INACTIVE"
  /\ device' = IF device = "none" THEN "none" ELSE "closed"
  /\ NoBroadcast
  /\ UNCHANGED <<cmdQ, resQ, vvars, sent>>

\* Mutants: the auto exit does not break out of the loop; it closes the audio only.
EndOfAudioNoBreak ==
  /\ apc = "write" /\ apos = NA /\ device # "none"
  /\ astate' = "INACTIVE" /\ device' = "closed"
  /\ Broadcast("CLOSE", 0)
  /\ apc' = "poll"
  /\ UNCHANGED <<cmdQ, resQ, vvars, sent, apos, aexit>>

EndOfAudioSilent ==
  /\ apc = "write" /\ apos = NA /\ device # "none"
  /\ astate' = "INACTIVE" /\ device' = "closed"
  /\ NoBroadcast
  /\ Leave("ended")
  /\ UNCHANGED <<cmdQ, resQ, vvars, sent, apos>>

\* StreamEndException: auto exit closes every stream, the GUI mode pauses.
EndOfAudio ==
  /\ apc = "write" /\ apos = NA /\ device # "none"
  /\ astate' = "INACTIVE"
  /\ IF GUI
     THEN /\ device' = "stopped" /\ FrameAck(Tell)
          /\ apc' = "poll" /\ UNCHANGED aexit
          /\ NoBroadcast
     ELSE /\ device' = "closed" /\ UNCHANGED resQ
          /\ Leave("ended")
          /\ Broadcast("CLOSE", 0)
  /\ UNCHANGED <<cmdQ, vvars, sent, apos>>

\* The interpreter joins the feeder thread of every queue the process has put
\* to, which ends when all but the pipe's capacity has been read.
AudioExit ==
  /\ apc = "leaving"
  /\ \A s \in Slot : Len(vibQ[s]) <= PipeCap
  /\ Len(resQ) <= PipeCap
  /\ apc' = "dead"
  /\ UNCHANGED <<cmdQ, resQ, vibQ, vvars, told, sent, aexit, astate, apos, device>>

AudioNext ==
  \/ AutoInit \/ OnInit \/ OnStart \/ OnPulse \/ OnResume \/ OnSeek \/ OnClose
  \/ OnStatusAcq \/ BroadcastFrame \/ WriteFrame \/ WriteFails \/ EndOfAudio \/ AudioExit
-----------------------------------------------------------------------------
(***************************************************************************)
(* VibrationProcess.run                                                    *)
(***************************************************************************)
SetVib(v, pc, st, p) ==
  /\ vpc'    = [vpc EXCEPT ![v] = pc]
  /\ vstate' = [vstate EXCEPT ![v] = st]
  /\ vpos'   = [vpos EXCEPT ![v] = p]

\* The process leaves its loop and closes an active handler.
VibStop(v, why, p) == SetVib(v, why, "INACTIVE", p)

\* Mutant: a frame the driver cannot play is put back.
PlayVibFrameRetry(v) ==
  \/ /\ vstate[v] = "INACTIVE"
     /\ UNCHANGED vvars
  \/ /\ vstate[v] = "ACTIVE" /\ vpos[v] < NV
     /\ \/ SetVib(v, "running", "ACTIVE", vpos[v] + 1)
        \/ Faults /\ UNCHANGED vvars
  \/ /\ vstate[v] = "ACTIVE" /\ vpos[v] = NV
     /\ VibStop(v, "exhausted", vpos[v])

\* StreamHandler.on_next_frame
PlayVibFrame(v) ==
  \/ /\ vstate[v] = "INACTIVE"
     /\ UNCHANGED vvars
  \/ /\ vstate[v] = "ACTIVE" /\ vpos[v] < NV
     /\ \/ SetVib(v, "running", "ACTIVE", vpos[v] + 1)
        \/ Faults /\ VibStop(v, "failed", vpos[v] + 1)
  \/ /\ vstate[v] = "ACTIVE" /\ vpos[v] = NV
     /\ VibStop(v, "exhausted", vpos[v])

\* StreamHandler.on_init
InitVib(v) ==
  \/ SetVib(v, "running", "ACTIVE", 0)
  \/ Faults /\ VibStop(v, "failed", 0)

\* Mutant: CLOSE does not end the loop.
HandleEventNoBreak(v, e) ==
  CASE e.head = "INIT"       -> InitVib(v)
    [] e.head = "NEXT_FRAME" -> PlayVibFrame(v)
    [] e.head = "SEEK"       -> SetVib(v, "running", vstate[v], Clamp(e.pos))
    [] e.head = "CLOSE"      -> SetVib(v, "running", "INACTIVE", vpos[v])
    [] OTHER                 -> UNCHANGED vvars

\* StreamHandler.handle: heads without a control function are ignored.
HandleEvent(v, e) ==
  CASE e.head = "INIT"       -> InitVib(v)
    [] e.head = "NEXT_FRAME" -> PlayVibFrame(v)
    [] e.head = "SEEK"       -> SetVib(v, "running", vstate[v], Clamp(e.pos))
    [] e.head = "CLOSE"      -> VibStop(v, "closed", vpos[v])
    [] OTHER                 -> UNCHANGED vvars

VibStep(v) ==
  /\ vpc[v] = "running" /\ IsAttached(v)
  /\ vibQ[MySlot(v)] # <<>>
  /\ HandleEvent(v, Head(vibQ[MySlot(v)]))
  /\ vibQ' = [vibQ EXCEPT ![MySlot(v)] = Tail(@)]
  /\ UNCHANGED <<cmdQ, resQ, avars, told, sent>>

\* A process that was never attached is an orphan: it plays its stream alone.
OrphanStep(v) ==
  /\ vpc[v] = "running" /\ ~IsAttached(v)
  /\ IF vstate[v] = "INACTIVE" THEN InitVib(v) ELSE PlayVibFrame(v)
  /\ UNCHANGED <<cmdQ, resQ, vibQ, avars, told, sent>>

VibNext(v) == VibStep(v) \/ OrphanStep(v)
-----------------------------------------------------------------------------
(***************************************************************************)
(* The client: a script that puts commands on the queue, INIT first and    *)
(* nothing after CLOSE.                                                    *)
(***************************************************************************)
Put(c) ==
  /\ sent < MaxCmd
  /\ sent' = sent + 1
  /\ cmdQ' = Append(cmdQ, c)

ScriptCommand ==
  {Cmd(h) : h \in {"START", "PULSE", "RESUME", "CLOSE", "STATUS_ACQ"}}
    \cup {[head |-> "SEEK", pos |-> p] : p \in SeekTo}

Client ==
  /\ \E c \in IF sent = 0 THEN {Cmd("INIT")} ELSE ScriptCommand : Put(c)
  /\ \A i \in DOMAIN cmdQ : cmdQ[i].head # "CLOSE"
  /\ aexit # "closed"
  /\ UNCHANGED <<resQ, vibQ, avars, vvars, told>>
-----------------------------------------------------------------------------
Init ==
  /\ cmdQ = <<>> /\ resQ = <<>> /\ vibQ = [s \in Slot |-> <<>>]
  /\ apc = IF GUI THEN "boot" ELSE "poll"
  /\ aexit = "none" /\ astate = "INACTIVE" /\ apos = 0 /\ device = "none"
  /\ vpc = [v \in Vib |-> "running"]
  /\ vstate = [v \in Vib |-> "INACTIVE"]
  /\ vpos = [v \in Vib |-> 0]
  /\ told = 0 /\ sent = 0

ProcNext == AudioNext \/ \E v \in Vib : VibNext(v)

Next == Client \/ ProcNext

\* Every process is scheduled by the operating system; the client owes nothing.
ProcFairness == WF_vars(AudioNext) /\ \A v \in Vib : WF_vars(VibNext(v))

Spec == Init /\ [][Next]_vars /\ ProcFairness
-----------------------------------------------------------------------------
(***************************************************************************)
(* Properties                                                              *)
(***************************************************************************)
TypeOK ==
  /\ cmdQ \in Seq(Command) /\ resQ \in Seq(Reply) /\ vibQ \in [Slot -> Seq(Event)]
  /\ apc \in {"boot", "poll", "frame", "write", "leaving", "dead"}
  /\ aexit \in {"none", "closed", "ended", "broke", "raised"}
  /\ astate \in {"INACTIVE", "ACTIVE"}
  /\ apos \in 0 .. NA
  /\ device \in {"none", "running", "stopped", "closed"}
  /\ vpc \in [Vib -> {"running", "closed", "exhausted", "failed"}]
  /\ vstate \in [Vib -> {"INACTIVE", "ACTIVE"}]
  /\ vpos \in [Vib -> 0 .. NV]
  /\ told \in 0 .. Past
  /\ sent \in 0 .. MaxCmd

\* run is still in its loop.
Looping == apc \in {"poll", "frame", "write"}

\* v reads what the audio process broadcasts.
Follows(v) == vpc[v] = "running" /\ IsAttached(v)

Inbox(v) == vibQ[MySlot(v)]

\* A vibration process that has caught up with its queue is at the very frame
\* the audio is at, whatever was seeked, paused and resumed on the way: the
\* streams are aligned (processes.py, "music and vib should be aligned") for
\* as long as the recording is not at its end.
Aligned ==
  \A v \in Vib :
    Follows(v) /\ Inbox(v) = <<>> /\ apc \in {"poll", "frame"} /\ apos < NA
      => vpos[v] = apos

\* While the audio plays through, a vibration stream lags by exactly the
\* NEXT_FRAME events it has not read yet, and it leads by at most the one frame
\* that was broadcast and is being written.
LagIsQueued ==
  \A v \in Vib :
    /\ Follows(v) /\ vstate[v] = "ACTIVE" /\ Looping /\ apos < NA
    /\ \A i \in DOMAIN Inbox(v) : Inbox(v)[i].head \notin {"INIT", "SEEK"}
    => vpos[v] + Cardinality({i \in DOMAIN Inbox(v) : Inbox(v)[i].head = "NEXT_FRAME"})
         = apos + (IF apc = "write" THEN 1 ELSE 0)

\* CLOSE is the last thing a vibration process is ever told: an event behind it
\* would stay in the pipe of a process that has exited.
CloseIsLast ==
  \A s \in Slot : \A i \in DOMAIN vibQ[s] :
    vibQ[s][i].head = "CLOSE" => i = Len(vibQ[s])

\* When the audio process closes or reaches the end of the recording, every
\* vibration process that is still running finds a CLOSE in its queue.
CloseReachesAll ==
  aexit \in {"closed", "ended"} =>
    \A v \in Vib : Follows(v) =>
      \E i \in DOMAIN Inbox(v) : Inbox(v)[i].head = "CLOSE"

\* The processes end together: once the audio was closed or has ended, all
\* attached vibration processes stop.
EndTogether ==
  aexit \in {"closed", "ended"} ~> \A v \in Vib : ~Follows(v)

\* "break 2, music process closed": a vibration process that is attached to an
\* audio process ends when that process does.  This is what processes.py says at
\* its line 74; the code keeps it only where the audio ends by CLOSE or by
\* reaching the end of the recording (EndTogether).
VibEndsWithMusic == apc = "dead" ~> \A v \in Vib : ~Follows(v)

\* The audio process implements a playback session.
Phase == IF aexit # "none" THEN "over"
         ELSE IF device = "none" THEN "new"
         ELSE IF astate = "ACTIVE" THEN "playing" ELSE "paused"

Session == INSTANCE PlaySession WITH N <- NA, phase <- Phase, pos <- apos

SessionSpec == Session!Spec
==============================================================================
