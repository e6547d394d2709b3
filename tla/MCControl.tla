------------------------------ MODULE MCControl ------------------------------
(***************************************************************************)
(* The lines of the run of Control: every setting of the channels, also a  *)
(* wrong one, with plain numbers; and every number at and past its limits  *)
(* with two settings of the channels.                                      *)
(***************************************************************************)
EXTENDS Control

Plain(c) == [ch |-> c, volt |-> 180, freq |-> 1000, duty |-> 50]

MCLines ==
  {Plain(c) : c \in [1 .. 4 -> {"Z", "0", "1"}] \cup {<<"0", "1", "2", "Z">>}}
  \cup [ch : {<<"1", "0", "Z", "Z">>}, volt : {-1, 0, 255, 256},
        freq : {-1, 0, 1, 65535, 65536, 1048576}, duty : {-1, 0, 100, 101}]
==============================================================================
