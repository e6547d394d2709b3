----------------------------- MODULE MCPlayback -----------------------------
(***************************************************************************)
(* Constants of the runs of Playback.                                      *)
(***************************************************************************)
EXTENDS Playback

CONSTANTS v1, v2

OneVib    == <<v1>>           \* v2, if there is one, is an orphan
BothVibs  == <<v1, v2>>
Anywhere  == 0 .. NA + 1
=============================================================================
