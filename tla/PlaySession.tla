----------------------------- MODULE PlaySession -----------------------------
(***************************************************************************)
(* What one playback session promises its listener, whatever processes,    *)
(* queues and drivers carry it out: the position moves by one frame at a   *)
(* time and only while the session plays, or to a position inside the      *)
(* recording that the listener asked for; pausing keeps the position; a    *)
(* session that is over stays over.                                        *)
(***************************************************************************)
EXTENDS Naturals

CONSTANT N    \* number of frames of the recording

VARIABLES phase,   \* "new", "paused", "playing" or "over"
          pos      \* the next frame to present

vars == <<phase, pos>>

TypeOK == /\ phase \in {"new", "paused", "playing", "over"}
          /\ pos \in 0 .. N

Init == phase = "new" /\ pos = 0

\* Opening the recording, for the first time or again, rewinds and pauses it.
Open == /\ phase # "over"
        /\ phase' = "paused"
        /\ pos' = 0

Play == phase = "paused" /\ phase' = "playing" /\ UNCHANGED pos

Pause == phase = "playing" /\ phase' = "paused" /\ UNCHANGED pos

Move == /\ phase \in {"paused", "playing"}
        /\ pos' \in 0 .. N
        /\ UNCHANGED phase

Advance == /\ phase = "playing"
           /\ pos < N
           /\ pos' = pos + 1
           /\ UNCHANGED phase

\* The session ends, at the listener's wish, at the end of the recording or on
\* an error; an error while a frame is presented may have consumed that frame.
Finish == /\ phase # "over"
          /\ phase' = "over"
          /\ \/ UNCHANGED pos
             \/ phase = "playing" /\ pos < N /\ pos' = pos + 1

Next == Open \/ Play \/ Pause \/ Move \/ Advance \/ Finish

Spec == Init /\ [][Next]_vars
==============================================================================
