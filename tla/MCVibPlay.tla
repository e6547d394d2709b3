----------------------------- MODULE MCVibPlay ------------------------------
(***************************************************************************)
(* Constants of the runs of VibPlay.                                       *)
(***************************************************************************)
EXTENDS VibPlay

CONSTANTS v1

OneVib   == <<v1>>
TwiceVib == <<v1, v1>>     \* attached by the launcher and by VibPlayBackend
=============================================================================
