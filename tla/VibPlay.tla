------------------------------- MODULE VibPlay -------------------------------
(***************************************************************************)
(* The player window of vib_editor: VibPlayBackend and VibPlayFrame drive  *)
(* the processes of Playback from the Tk main thread, and a                *)
(* SliderHelperThread moves the progress slider with the positions the     *)
(* audio process acknowledges.                                             *)
(*                                                                         *)
(* The buttons' handlers are bound with bind('<Button-1>'), which a button *)
(* shown disabled still runs: every handler can run whenever the main      *)
(* thread is in its event loop.                                            *)
(***************************************************************************)
EXTENDS Playback

CONSTANTS
  Jump,         \* frames a Forward or a Backward skips
  ThreadedTcl   \* Tcl is built with threads: a variable set from another
                \* thread is carried out by the main thread's event loop

ASSUME VibPlayAssumption == Jump \in Nat /\ ThreadedTcl \in BOOLEAN

VARIABLES
  gui,          \* the main thread: "loading", "ready", "started", "joinAudio",
                \* "joinVib", "joinSlider", "joined"
  total,        \* total_frame
  slider,       \* the IntVar behind the slider
  helper,       \* the slider thread: "idle", "get", "set", "done"
  fetched       \* the position it fetched and has not set yet

gvars   == <<gui, total, slider, helper, fetched>>
allvars == <<vars, gvars>>

InEventLoop == gui \in {"ready", "started", "joined"}
-----------------------------------------------------------------------------
(***************************************************************************)
(* VibPlayBackend.__init__: the processes run and init_stream's answer is  *)
(* awaited before the slider thread starts.                                *)
(***************************************************************************)
GetNumFrame ==
  /\ gui = "loading"
  /\ resQ # <<>>
  /\ total' = Head(resQ).val
  /\ resQ' = Tail(resQ)
  /\ gui' = "ready" /\ helper' = "get"
  /\ UNCHANGED <<slider, fetched, cmdQ, vibQ, avars, vvars, told, sent>>

\* The handlers of the window that put one command.
Click(c) ==
  /\ InEventLoop
  /\ Put(c)
  /\ UNCHANGED <<total, helper, fetched, resQ, vibQ, avars, vvars, told>>

StartButton  == /\ Click(Cmd("START"))
                /\ gui' = IF gui = "ready" THEN "started" ELSE gui
                /\ UNCHANGED slider
\* The slider's '<Button-1>' pulses as the Pulse button does.
PulseButton  == Click(Cmd("PULSE")) /\ UNCHANGED <<gui, slider>>
ResumeButton == Click(Cmd("RESUME")) /\ UNCHANGED <<gui, slider>>

SeekTarget(p) == Click([head |-> "SEEK", pos |-> p]) /\ slider' = p /\ UNCHANGED gui

\* Mutant: the target is not kept within the recording.
ForwardUnbounded == SeekTarget(slider + Jump)

ForwardButton  == SeekTarget(IF slider + Jump < total THEN slider + Jump ELSE total)
BackwardButton == SeekTarget(IF slider > Jump THEN slider - Jump ELSE 0)

\* Releasing the slider seeks to the value it shows: where the user dragged it
\* once on_start has enabled it, or what the slider thread set meanwhile.
SliderRelease ==
  \E p \in 0 .. total : (gui = "started" \/ p = slider) /\ SeekTarget(p)

\* close_stream, from the Stop button or from closing the window: put CLOSE,
\* then join the audio process, the vibration processes and the slider thread.
CloseStream ==
  /\ gui \in {"ready", "started"}
  /\ cmdQ' = Append(cmdQ, Cmd("CLOSE"))
  /\ gui' = "joinAudio"
  /\ UNCHANGED <<total, slider, helper, fetched, resQ, vibQ, avars, vvars, told, sent>>

JoinAudio ==
  /\ gui = "joinAudio" /\ apc = "dead"
  /\ gui' = "joinVib"
  /\ UNCHANGED <<total, slider, helper, fetched, vars>>

\* exit_event is set once the last vibration process has been joined.
JoinVib ==
  /\ gui = "joinVib" /\ \A v \in Vib : vpc[v] # "running"
  /\ gui' = "joinSlider"
  /\ UNCHANGED <<total, slider, helper, fetched, vars>>

JoinSlider ==
  /\ gui = "joinSlider" /\ helper = "done"
  /\ gui' = "joined"
  /\ UNCHANGED <<total, slider, helper, fetched, vars>>

\* Mutant: exit_event is never set.
ExitNeverSet == FALSE

ExitSet == gui \in {"joinSlider", "joined"}
-----------------------------------------------------------------------------
(***************************************************************************)
(* SliderHelperThread.run                                                  *)
(***************************************************************************)
HelperGet ==
  /\ helper = "get" /\ resQ # <<>>
  /\ resQ' = Tail(resQ)
  /\ IF Head(resQ).what = "pos"
     THEN helper' = "set" /\ fetched' = Head(resQ).val
     ELSE UNCHANGED <<helper, fetched>>
  /\ UNCHANGED <<gui, total, slider, cmdQ, vibQ, avars, vvars, told, sent>>

HelperSet ==
  /\ helper = "set"
  /\ ThreadedTcl => InEventLoop
  /\ slider' = fetched
  /\ helper' = IF ExitSet THEN "done" ELSE "get"
  /\ UNCHANGED <<gui, total, fetched, vars>>

HelperExit ==
  /\ helper = "get" /\ ExitSet
  /\ helper' = "done"
  /\ UNCHANGED <<gui, total, slider, fetched, vars>>
-----------------------------------------------------------------------------
GInit ==
  /\ Init
  /\ gui = "loading" /\ total = 1 /\ slider = 0 /\ helper = "idle" /\ fetched = 0

User ==
  \/ StartButton \/ PulseButton \/ ResumeButton \/ ForwardButton \/ BackwardButton
  \/ SliderRelease \/ CloseStream

MainThread == GetNumFrame \/ JoinAudio \/ JoinVib \/ JoinSlider
Helper     == HelperGet \/ HelperSet \/ HelperExit
Processes  == ProcNext /\ UNCHANGED gvars

GNext == User \/ MainThread \/ Helper \/ Processes

\* Threads and processes are scheduled; the user may do nothing, ever.
GFairness ==
  /\ WF_allvars(MainThread) /\ WF_allvars(Helper)
  /\ WF_allvars(AudioNext /\ UNCHANGED gvars)
  /\ \A v \in Vib : WF_allvars(VibNext(v) /\ UNCHANGED gvars)

GSpec == GInit /\ [][GNext]_allvars /\ GFairness
-----------------------------------------------------------------------------
(***************************************************************************)
(* Properties                                                              *)
(***************************************************************************)
\* Type invariant; no button asks for a position outside the recording.
GTypeOK ==
  /\ TypeOK
  /\ gui \in {"loading", "ready", "started", "joinAudio", "joinVib", "joinSlider", "joined"}
  /\ total \in {1, NA}
  /\ slider \in 0 .. NA
  /\ helper \in {"idle", "get", "set", "done"}
  /\ fetched \in 0 .. NA
  /\ \A i \in DOMAIN cmdQ : cmdQ[i].head = "SEEK" => cmdQ[i].pos \in 0 .. NA

\* The window knows the length of the recording before any position arrives:
\* the first answer is num_frame, and the slider thread does not take it
\* (VibPlayBackend.py, "must start the slider after we get the num frame").
TotalKnown == gui # "loading" => total = NA

\* While the audio plays, a slider thread that has taken every answer has last
\* taken the audio's current position: no position overtakes another between
\* the audio process and the window.
ShownIsCurrent ==
  /\ gui \in {"ready", "started"} /\ helper = "get" /\ resQ = <<>>
  /\ apc = "poll" /\ astate = "ACTIVE"
  => fetched = Tell

\* Pressing Stop or closing the window ends in every process and thread joined,
\* if the audio process has not crashed.
StopReturns ==
  gui = "joinAudio" ~> (gui = "joined" \/ aexit \in {"broke", "raised"})

\* The slider thread waits for the event loop, and the event loop for the thread.
SliderStuck == ThreadedTcl /\ helper = "set" /\ ~InEventLoop

\* More events than a pipe holds are on their way to a process that is gone.
PipeStuck ==
  \E v \in Vib : IsAttached(v) /\ vpc[v] # "running" /\ Len(Inbox(v)) > PipeCap

\* With each process attached once, there are two more reasons why Stop may not
\* return, and no other: a slider thread caught between an answer and the slider,
\* and a vibration process that ended by an error with its pipe full.
StopCompletes ==
  gui = "joinAudio" ~>
    (gui = "joined" \/ aexit \in {"broke", "raised"} \/ SliderStuck \/ PipeStuck)
=============================================================================
